------------------------------- MODULE LaunchForm -------------------------------
(***************************************************************************)
(* The launch form of the dashboard and the defaults it is filled from:    *)
(* the run settings of the organization's oldest project, kept in a query  *)
(* cache that the cycle builder fills too, under the same key, without the *)
(* mapping of environments.                                                *)
(*                                                                         *)
(* A target URL is <<version of the settings, environment it is for>>, the *)
(* text a user typed, or none.                                             *)
(***************************************************************************)
EXTENDS Naturals, FiniteSets

CONSTANTS
    Env,              \* environments whose URL somebody may configure
    MaxVersions,      \* bound: changes of the stored settings
    MaxQueries,       \* bound: requests for the defaults
    MaxLaunches       \* bound: runs and schedules submitted

ASSUME LaunchFormAssumption ==
    /\ Env \subseteq {"development", "staging", "production"}
    /\ {MaxVersions, MaxQueries, MaxLaunches} \subseteq Nat

VARIABLES
    kept,             \* the stored settings: version, environments with a URL
    route,            \* dashboard or cycles
    cache,            \* query data: what kind, and the settings it came from
    fresh,            \* younger than staleTime
    query,            \* the request under way, if any
    launch,           \* the launch form
    posts,            \* runs and schedules submitted and not answered
    closing,          \* a timeout will close the form
    versions, queried, launches

launchVars == <<kept, route, cache, fresh, query, launch, posts, closing, versions, queried,
                launches>>

Choice == Env \cup {"development", "custom"}
\* envPriority.
First(urls) == IF "production" \in urls THEN "production"
               ELSE IF "staging" \in urls THEN "staging" ELSE "development"

NoUrl == <<0, "none">>
Typed == <<0, "typed">>
Url == {NoUrl, Typed} \cup ((1..MaxVersions) \X Env)
Settings == [version : 0..MaxVersions, urls : SUBSET Env]
Unset == [version |-> 0, urls |-> {}]
Cached == [kind : {"none", "mapped", "bare"}, from : Settings]
NoData == [kind |-> "none", from |-> Unset]
NoQuery == [at |-> "none", kind |-> "none", from |-> Unset]
\* MODAL_INITIAL_STATE; typed and disturbed are history.
NewModal == [open |-> FALSE, env |-> "development", url |-> NoUrl, typed |-> FALSE, disturbed |-> FALSE]

LaunchTypeOK ==
    /\ kept \in Settings /\ route \in {"dashboard", "cycles"} /\ cache \in Cached /\ fresh \in BOOLEAN
    /\ query \in [at : {"none", "asked", "read"}, kind : {"none", "mapped", "bare"}, from : Settings]
    /\ launch \in [open : BOOLEAN, env : Choice, url : Url, typed : BOOLEAN, disturbed : BOOLEAN]
    /\ posts \subseteq [n : 1..MaxLaunches, kind : {"run", "schedule"}, live : BOOLEAN]
    /\ closing \in BOOLEAN
    /\ versions \in 0..MaxVersions /\ queried \in 0..MaxQueries /\ launches \in 0..MaxLaunches

LaunchInit ==
    /\ kept = Unset /\ route = "cycles" /\ cache = NoData /\ fresh = FALSE /\ query = NoQuery
    /\ launch = NewModal /\ posts = {} /\ closing = FALSE
    /\ versions = 0 /\ queried = 0 /\ launches = 0

----------------------------------------------------------------------------
\* The first URL configured; the cycle builder's data has it too.
DefaultUrl(data) == IF data.from.urls = {} THEN NoUrl ELSE <<data.from.version,
                                                             First(data.from.urls)>>

\* The URL follows the environment, where the mapping has one.
Mapped(m, data) ==
    IF data.kind = "mapped" /\ m.env \in data.from.urls
    THEN [m EXCEPT !.url = <<data.from.version, m.env>>, !.typed = FALSE] ELSE m

\* INIT_FROM_DEFAULTS, on opening and whenever the defaults change.
Initialised(m, data) ==
    IF ~m.open \/ data.kind = "none" THEN m
    ELSE [m EXCEPT !.env = IF data.kind # "mapped" \/ data.from.urls = {} THEN @ ELSE First(data.from.urls),
                   !.url = DefaultUrl(data), !.typed = FALSE]

\* Equal data keeps its identity, and no effect runs.
Showing(data) ==
    /\ cache' = data
    /\ launch' = IF route = "cycles" \/ data = cache THEN launch
                ELSE [Initialised(Mapped(launch, data), data)
                        EXCEPT !.disturbed = launch.disturbed \/ launch.typed]

----------------------------------------------------------------------------
\* PUT settings of the oldest project.
StoreSettings ==
    /\ versions < MaxVersions /\ versions' = versions + 1
    /\ \E urls \in SUBSET Env : kept' = [version |-> versions', urls |-> urls]
    /\ UNCHANGED <<route, cache, fresh, query, launch, posts, closing, queried, launches>>

\* The query starts unless one is under way or the data is fresh.
Fetching(kind) ==
    IF query.at # "none" \/ fresh THEN UNCHANGED <<query, queried>>
    ELSE /\ queried < MaxQueries /\ queried' = queried + 1
         /\ query' = [at |-> "asked", kind |-> kind, from |-> Unset]

\* The route mounts with the initial state of the form; answers to the old route are ignored.
GoToDashboard ==
    /\ route = "cycles" /\ route' = "dashboard"
    /\ Fetching("mapped")
    /\ launch' = Mapped(NewModal, cache)
    /\ UNCHANGED <<kept, cache, fresh, posts, closing, versions, launches>>

LeaveDashboard ==
    /\ route = "dashboard" /\ route' = "cycles"
    /\ launch' = NewModal /\ closing' = FALSE
    /\ posts' = {[r EXCEPT !.live = FALSE] : r \in posts}
    /\ UNCHANGED <<kept, cache, fresh, query, versions, queried, launches>>

OpenCycleBuilder ==
    /\ route = "cycles" /\ query.at = "none" /\ ~fresh
    /\ Fetching("bare")
    /\ UNCHANGED <<kept, route, cache, fresh, launch, posts, closing, versions, launches>>

\* Five minutes later; the window gets the focus.
GrowStale ==
    /\ fresh /\ fresh' = FALSE
    /\ UNCHANGED <<kept, route, cache, query, launch, posts, closing, versions, queried,
                   launches>>

FocusWindow ==
    /\ route = "dashboard" /\ ~fresh /\ query.at = "none"
    /\ Fetching("mapped")
    /\ UNCHANGED <<kept, route, cache, fresh, launch, posts, closing, versions, launches>>

\* GET /api/project-settings: the oldest project, its settings or EMPTY_SETTINGS.
ServeDefaults ==
    /\ query.at = "asked" /\ query' = [query EXCEPT !.at = "read", !.from = kept]
    /\ UNCHANGED <<kept, route, cache, fresh, launch, posts, closing, versions, queried,
                   launches>>

DefaultsArrive ==
    /\ query.at = "read" /\ query' = NoQuery /\ fresh' = TRUE
    /\ Showing([kind |-> query.kind, from |-> query.from])
    /\ UNCHANGED <<kept, route, posts, closing, versions, queried, launches>>

\* Errors are caught and become null, which is data as well.
DefaultsFail ==
    /\ query.at # "none" /\ query' = NoQuery /\ fresh' = TRUE
    /\ Showing(NoData)
    /\ UNCHANGED <<kept, route, posts, closing, versions, queried, launches>>

----------------------------------------------------------------------------
\* The button needs an image: settings stored here have one.
OpenModal ==
    /\ route = "dashboard" /\ ~launch.open /\ cache.from.version > 0
    /\ launch' = Initialised([launch EXCEPT !.open = TRUE, !.disturbed = FALSE], cache)
    /\ UNCHANGED <<kept, route, cache, fresh, query, posts, closing, versions, queried, launches>>

\* The group and the schedule are reset, the URL and the image are not.
CloseModal ==
    /\ launch.open /\ launch' = [launch EXCEPT !.open = FALSE]
    /\ UNCHANGED <<kept, route, cache, fresh, query, posts, closing, versions, queried, launches>>

Options == IF cache.kind # "mapped" \/ cache.from.urls = {} THEN {"development", "custom"}
           ELSE cache.from.urls

ChangeEnvironment(e) ==
    /\ launch.open /\ e \in Options /\ e # launch.env
    /\ launch' = Mapped([launch EXCEPT !.env = e], cache)
    /\ UNCHANGED <<kept, route, cache, fresh, query, posts, closing, versions, queried, launches>>

TypeUrl ==
    /\ launch.open
    /\ launch' = [launch EXCEPT !.url = Typed, !.typed = TRUE, !.disturbed = FALSE]
    /\ UNCHANGED <<kept, route, cache, fresh, query, posts, closing, versions, queried, launches>>

\* handleSubmit may be repeated before the answer, handleSaveSchedule may not.
SubmitLaunch(kind) ==
    /\ launch.open /\ launch.url # NoUrl
    /\ kind = "schedule" => ~\E r \in posts : r.kind = "schedule" /\ r.live
    /\ launches < MaxLaunches /\ launches' = launches + 1
    /\ posts' = posts \cup {[n |-> launches', kind |-> kind, live |-> TRUE]}
    /\ UNCHANGED <<kept, route, cache, fresh, query, launch, closing, versions, queried>>

\* A run closes the launch, whoever reopened it; a schedule does so 1.8 seconds later.
LaunchAnswered(r) ==
    /\ posts' = posts \ {r}
    /\ \/ r.live /\ r.kind = "run" /\ launch' = [launch EXCEPT !.open = FALSE] /\ UNCHANGED closing
       \/ r.live /\ r.kind = "schedule" /\ closing' = TRUE /\ UNCHANGED launch
       \/ UNCHANGED <<launch, closing>>
    /\ UNCHANGED <<kept, route, cache, fresh, query, versions, queried, launches>>

CloseLater ==
    /\ closing /\ closing' = FALSE /\ launch' = [launch EXCEPT !.open = FALSE]
    /\ UNCHANGED <<kept, route, cache, fresh, query, posts, versions, queried, launches>>

LaunchNext ==
    \/ StoreSettings \/ GoToDashboard \/ LeaveDashboard \/ OpenCycleBuilder
    \/ GrowStale \/ FocusWindow \/ ServeDefaults \/ DefaultsArrive \/ DefaultsFail
    \/ OpenModal \/ CloseModal \/ TypeUrl \/ CloseLater
    \/ \E e \in Choice : ChangeEnvironment(e)
    \/ \E kind \in {"run", "schedule"} : SubmitLaunch(kind)
    \/ \E r \in posts : LaunchAnswered(r)

LaunchSpec == LaunchInit /\ [][LaunchNext]_launchVars

----------------------------------------------------------------------------
\* What the open form would submit: the URL the user typed, unless the defaults changed
\* under it; else, with a mapping, the URL configured for the very environment shown; and
\* without one, the first URL configured (ExecutionModal.tsx, useDashboardData.ts).
LaunchFits ==
    launch.open =>
        /\ launch.typed => launch.url = Typed
        /\ launch.url = Typed => launch.typed
        /\ (~launch.typed /\ ~launch.disturbed /\ cache.kind = "mapped" /\ cache.from.urls # {}) =>
                launch.env \in cache.from.urls /\ launch.url = <<cache.from.version, launch.env>>
        /\ (~launch.typed /\ ~launch.disturbed /\ cache.kind = "bare") => launch.url = DefaultUrl(cache)

=============================================================================
