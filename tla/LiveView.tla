-------------------------------- MODULE LiveView --------------------------------
(***************************************************************************)
(* One run as one dashboard shows it: the page of runs it has fetched, the *)
(* socket events that change the page in place, the drawer that fetches    *)
(* the log so far, and deletion.  What the page ends up with depends on    *)
(* the order in which answers and events arrive.                           *)
(*                                                                         *)
(* The log is a sequence of chunks, which the worker posts one by one      *)
(* without waiting.  A socket keeps its order; requests do not.  ANALYZING *)
(* is a second RUNNING and is left out.  Of React Query (external): a      *)
(* query that is invalidated is fetched again, which abandons a fetch      *)
(* under way if there is data already, and joins it otherwise.             *)
(***************************************************************************)
EXTENDS Naturals, Sequences, SequencesExt, FiniteSets

CONSTANTS
    MaxChunks,     \* bound: chunks of the log
    MaxLooks       \* bound: what the user and the connection do on their own

ASSUME LiveViewAssumption == MaxChunks \in Nat /\ MaxLooks \in Nat

VARIABLES
    runDoc,        \* the document: status, stored log, deletedAt
    logged,        \* chunks the worker has read so far
    chunkPosts,    \* chunks in POSTs to /executions/log
    notice,        \* the status that is written and not announced yet
    liveLog,       \* live:logs:<taskId> in Redis
    wire,          \* socket messages on their way to the dashboard
    inRoom,        \* the socket is in the room of the organization
    page,          \* the page in the cache, empty without data; its rows
    listing,       \* the fetch of the page
    hydration,     \* the fetch of the log
    deletion,      \* DELETE in progress
    looks,
    late,          \* history: a chunk reached the producer after the final status
    stale          \* history: the page missed an event, or its answer was read before one

liveViewVars == <<runDoc, logged, chunkPosts, notice, liveLog, wire, inRoom, page, listing,
                  hydration, deletion, looks, late, stale>>
workerVars == <<runDoc, logged, chunkPosts, notice, liveLog, late>>
clientVars == <<inRoom, page, listing, hydration, deletion, looks>>

Log == SeqOf(1..MaxChunks, 2 * MaxChunks)
RunStatus == {"PENDING", "RUNNING", "PASSED"}
RunRow == [status : RunStatus, output : Log]
NoFetch == [at |-> "idle", rows |-> {}]
NoHydration == [at |-> "idle", output |-> << >>]
Nothing == [loaded |-> FALSE, rows |-> {}]
Full == [i \in 1..logged |-> i]

LiveViewTypeOK ==
    /\ runDoc.status \in RunStatus \cup {"none"} /\ runDoc.output \in Log /\ runDoc.deleted \in BOOLEAN
    /\ logged \in 0..MaxChunks /\ chunkPosts \subseteq 1..logged
    /\ notice \in RunStatus \cup {"none"} /\ liveLog \in Log
    /\ \A i \in DOMAIN wire : wire[i].status \in RunStatus \cup {"log"} /\ wire[i].output \in Log
    /\ inRoom \in BOOLEAN
    /\ page.loaded \in BOOLEAN /\ page.rows \subseteq RunRow /\ Cardinality(page.rows) <= 1
    /\ listing.at \in {"idle", "asked", "answered"} /\ listing.rows \subseteq RunRow
    /\ hydration.at \in {"idle", "asked", "live", "answered"} /\ hydration.output \in Log
    /\ deletion \in {"idle", "single", "bulk", "done", "refused"}
    /\ looks \in 0..MaxLooks /\ late \in BOOLEAN /\ stale \in BOOLEAN

\* The dashboard is opened: the page is asked for, and the socket connects.
LiveViewInit ==
    /\ runDoc = [status |-> "none", output |-> << >>, deleted |-> FALSE]
    /\ logged = 0 /\ chunkPosts = {} /\ notice = "none" /\ liveLog = << >>
    /\ wire = << >> /\ inRoom = FALSE
    /\ page = Nothing /\ listing = [NoFetch EXCEPT !.at = "asked"]
    /\ hydration = NoHydration /\ deletion = "idle"
    /\ looks = 0 /\ late = FALSE /\ stale = FALSE

\* A message to the room: a dashboard that is not in it yet misses it.
ToRoom(message) ==
    /\ wire' = IF inRoom THEN Append(wire, message) ELSE wire
    /\ stale' = (stale \/ ~inRoom)

\* POST /api/execution-request stores the run; the worker writes RUNNING, and in the
\* end the verdict with the whole log.  Each announces what it wrote.
WriteRunStatus(from, to) ==
    /\ runDoc.status = from /\ notice = "none"
    /\ runDoc' = [runDoc EXCEPT !.status = to, !.output = IF to = "PASSED" THEN Full ELSE @]
    /\ notice' = to
    /\ UNCHANGED <<logged, chunkPosts, liveLog, late, wire, stale, clientVars>>

\* POST /executions/update; the final one carries the log, and ends the live buffer.
AnnounceStatus ==
    /\ notice # "none" /\ notice' = "none"
    /\ ToRoom([status |-> notice, output |-> runDoc.output])
    /\ liveLog' = IF notice = "PASSED" THEN << >> ELSE liveLog
    /\ UNCHANGED <<runDoc, logged, chunkPosts, late, clientVars>>

\* The worker swallows a failed announcement.
AnnouncementLost ==
    /\ notice # "none" /\ notice' = "none"
    /\ stale' = TRUE
    /\ UNCHANGED <<runDoc, logged, chunkPosts, liveLog, late, wire, clientVars>>

ReadChunk ==
    /\ runDoc.status = "RUNNING" /\ notice = "none" /\ logged < MaxChunks
    /\ logged' = logged + 1
    /\ chunkPosts' = chunkPosts \cup {logged'}
    /\ UNCHANGED <<runDoc, notice, liveLog, late, wire, stale, clientVars>>

\* POST /executions/log: broadcast, and appended to the live buffer unless Redis fails.
PostChunk ==
    \E c \in chunkPosts :
        /\ chunkPosts' = chunkPosts \ {c}
        /\ wire' = IF inRoom THEN Append(wire, [status |-> "log", output |-> <<c>>]) ELSE wire
        /\ liveLog' \in {liveLog, Append(liveLog, c)}
        /\ late' = (late \/ (runDoc.status = "PASSED" /\ notice = "none"))
        /\ UNCHANGED <<runDoc, logged, notice, stale, clientVars>>

ChunkLost ==
    \E c \in chunkPosts :
        /\ chunkPosts' = chunkPosts \ {c}
        /\ UNCHANGED <<runDoc, logged, notice, liveLog, late, wire, stale, clientVars>>

Joins ==
    /\ ~inRoom /\ inRoom' = TRUE
    /\ UNCHANGED <<workerVars, wire, stale, page, listing, hydration, deletion, looks>>

\* GET /api/executions leaves out what is deleted.
Listed ==
    IF runDoc.status = "none" \/ runDoc.deleted THEN {}
    ELSE {[status |-> runDoc.status, output |-> runDoc.output]}

\* What was missed is in the answer, unless an older event is still on its way.
AnswerList ==
    /\ listing.at = "asked"
    /\ listing' = [at |-> "answered", rows |-> Listed]
    /\ stale' = (stale /\ wire # << >>)
    /\ UNCHANGED <<workerVars, wire, inRoom, page, hydration, deletion, looks>>

\* The answer becomes the page, whatever happened to the page since.
ShowList ==
    /\ listing.at = "answered"
    /\ page' = [loaded |-> TRUE, rows |-> listing.rows]
    /\ listing' = NoFetch
    /\ UNCHANGED <<workerVars, wire, stale, inRoom, hydration, deletion, looks>>

\* invalidateQueries.
Refetch == listing' = IF page.loaded \/ listing.at = "idle" THEN [NoFetch EXCEPT !.at = "asked"]
                      ELSE listing

\* Merging a status event: only the final one has a log.
Merged(row, m) ==
    [status |-> m.status, output |-> IF m.status = "PASSED" THEN m.output ELSE row.output]

\* execution-updated.  An answer under way that is not abandoned was read before.
OnUpdate ==
    /\ wire # << >> /\ Head(wire).status # "log" /\ wire' = Tail(wire)
    /\ IF page.rows # {}
       THEN /\ page' = [page EXCEPT !.rows = {Merged(row, Head(wire)) : row \in page.rows}]
            /\ UNCHANGED listing
       ELSE Refetch /\ UNCHANGED page
    /\ stale' = (stale \/ listing'.at = "answered")
    /\ UNCHANGED <<workerVars, inRoom, hydration, deletion, looks>>

\* execution-log: appended to what is shown.
OnLog ==
    /\ wire # << >> /\ Head(wire).status = "log" /\ wire' = Tail(wire)
    /\ page' = [page EXCEPT !.rows = {[row EXCEPT !.output = @ \o Head(wire).output] : row \in page.rows}]
    /\ UNCHANGED <<workerVars, stale, inRoom, listing, hydration, deletion, looks>>

Look == looks < MaxLooks /\ looks' = looks + 1

\* The drawer is opened on the run.
OpenDrawer ==
    /\ Look /\ page.rows # {}
    /\ hydration' = [NoHydration EXCEPT !.at = "asked"]
    /\ UNCHANGED <<workerVars, wire, stale, inRoom, page, listing, deletion>>

\* The tab becomes visible: React Query fetches unless it is fetching, and an open
\* drawer starts over.
Focus ==
    /\ Look
    /\ listing' = IF listing.at = "idle" THEN [NoFetch EXCEPT !.at = "asked"] ELSE listing
    /\ hydration' \in {hydration, [NoHydration EXCEPT !.at = "asked"]}
    /\ UNCHANGED <<workerVars, wire, stale, inRoom, page, deletion>>

\* Another page or filter: another query, without data (the run matches this one too).
ChangeFilters ==
    /\ Look
    /\ page' = Nothing /\ listing' = [NoFetch EXCEPT !.at = "asked"]
    /\ UNCHANGED <<workerVars, wire, stale, inRoom, hydration, deletion>>

Disconnect ==
    /\ Look /\ inRoom
    /\ inRoom' = FALSE /\ wire' = << >>
    /\ stale' = (stale \/ wire # << >>)
    /\ UNCHANGED <<workerVars, page, listing, hydration, deletion>>

\* GET /logs looks at the document first, and for a run under way then at the buffer.
ServeLogs ==
    /\ hydration' =
         CASE hydration.at = "asked" /\ runDoc.status = "RUNNING" /\ ~runDoc.deleted ->
                  [at |-> "live", output |-> << >>]
           [] hydration.at = "asked" /\ runDoc.deleted -> NoHydration
           [] hydration.at = "live" -> [at |-> "answered", output |-> liveLog]
           [] OTHER -> [at |-> "answered", output |-> runDoc.output]
    /\ hydration.at \in {"asked", "live"}
    /\ UNCHANGED <<workerVars, wire, stale, inRoom, page, listing, deletion, looks>>

\* Mutant of Hydrated: the log of the answer, whatever the drawer shows.
HydratedAlways(row) == [row EXCEPT !.output = hydration.output]

\* Mutant of Hydrated: the log of the answer follows what the drawer shows.
HydratedAppended(row) == [row EXCEPT !.output = @ \o hydration.output]

\* Only a longer log replaces what is shown.
Hydrated(row) ==
    IF Len(row.output) < Len(hydration.output) THEN [row EXCEPT !.output = hydration.output] ELSE row

Hydrate ==
    /\ hydration.at = "answered"
    /\ page' = [page EXCEPT !.rows = {Hydrated(row) : row \in page.rows}]
    /\ hydration' = NoHydration
    /\ UNCHANGED <<workerVars, wire, stale, inRoom, listing, deletion, looks>>

\* Delete from the row, or as one of a selection.
StartDelete ==
    /\ Look /\ page.rows # {} /\ deletion = "idle"
    /\ deletion' \in {"single", "bulk"}
    /\ UNCHANGED <<workerVars, wire, stale, inRoom, page, listing, hydration>>

\* The server deletes softly, or refuses: 403, 404, 500.
ServeDelete ==
    /\ deletion \in {"single", "bulk"}
    /\ \/ runDoc' = [runDoc EXCEPT !.deleted = TRUE] /\ deletion' = "done"
       \/ deletion' = (IF deletion = "single" THEN "done" ELSE "refused") /\ UNCHANGED runDoc
    /\ UNCHANGED <<logged, chunkPosts, notice, liveLog, late, wire, stale, inRoom, page, listing,
                   hydration, looks>>

\* The row goes and the page is fetched again, also when a single delete was refused:
\* its status is not looked at.  A refused selection changes nothing.
ShowDeletion ==
    /\ deletion \in {"done", "refused"} /\ deletion' = "idle"
    /\ IF deletion = "done"
       THEN page' = [page EXCEPT !.rows = {}] /\ Refetch
       ELSE UNCHANGED <<page, listing>>
    /\ stale' = (stale \/ (deletion = "done" /\ listing'.at = "answered"))
    /\ UNCHANGED <<workerVars, wire, inRoom, hydration, looks>>

LiveViewNext ==
    \/ WriteRunStatus("none", "PENDING")
    \/ WriteRunStatus("PENDING", "RUNNING")
    \/ WriteRunStatus("RUNNING", "PASSED")
    \/ AnnounceStatus \/ AnnouncementLost \/ ReadChunk \/ PostChunk \/ ChunkLost
    \/ Joins \/ Disconnect \/ AnswerList \/ ShowList \/ OnUpdate \/ OnLog
    \/ OpenDrawer \/ Focus \/ ChangeFilters \/ ServeLogs \/ Hydrate
    \/ StartDelete \/ ServeDelete \/ ShowDeletion

LiveViewSpec == LiveViewInit /\ [][LiveViewNext]_liveViewVars

----------------------------------------------------------------------------
\* When everything sent has arrived, the dashboard shows the run as it is stored: its
\* status, the complete log once it is finished, and nothing once it is deleted,
\* although events, page, log and deletion race (useExecutions.ts, ExecutionDrawer.tsx,
\* Dashboard.tsx).  The exceptions: a message was missed, or came while the answer
\* of an earlier read was on its way, and no page was fetched since; and a chunk
\* posted after the final status is shown twice.
ViewSettles ==
    (/\ ~stale /\ notice = "none" /\ chunkPosts = {} /\ wire = << >>
     /\ page.loaded /\ listing.at = "idle" /\ hydration.at = "idle" /\ deletion = "idle") =>
        /\ {row.status : row \in page.rows} = {row.status : row \in Listed}
        /\ runDoc.status = "PASSED" /\ ~late => page.rows = Listed

=============================================================================
