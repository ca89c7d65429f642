------------------------------- MODULE CyclePages -------------------------------
(***************************************************************************)
(* The test cycles page of one tester: the list of cycles it last fetched, *)
(* the builder that composes a cycle from manual cases and an automated    *)
(* run, and the drawer in which the tester marks the steps of an item and  *)
(* completes it.  Another tester completes items of the same cycle, and    *)
(* the verdict of its automated run arrives.  One cycle is followed; its   *)
(* summary and status are CycleSync's.                                     *)
(***************************************************************************)
EXTENDS Naturals, FiniteSets

CONSTANTS
    Case,             \* manual test cases
    Stepless,         \* those without steps
    Step,             \* the steps of each other
    Verdict,          \* the verdicts given: PASSED and some of FAILED, SKIPPED
    MaxPlayers,       \* bound: openings of the drawer
    MaxRefetches,     \* bound: fetches of the list
    MaxFailures       \* bound: requests that fail

ASSUME CyclePagesAssumption ==
    /\ "automated" \notin Case /\ Stepless \subseteq Case
    /\ "PASSED" \in Verdict /\ Verdict \subseteq {"PASSED", "FAILED", "SKIPPED"}
    /\ {MaxPlayers, MaxRefetches, MaxFailures} \subseteq Nat

VARIABLES
    cycle,            \* the stored items, none before the cycle is created
    shownCycle,       \* the items the page shows
    cyclesQuery,      \* the fetch under way, if any
    builder,          \* the cycle builder
    player,           \* the manual execution drawer
    completing,       \* the PUT of handleComplete under way, if any
    players, refetches, cycleFailures,
    cyclesBehind      \* history: an item changed where no answer will tell the page

cyclePagesVars == <<cycle, shownCycle, cyclesQuery, builder, player, completing, players,
                    refetches, cycleFailures, cyclesBehind>>

StepsOf(c) == IF c \in Stepless THEN {} ELSE Step
StepStatus == {"PENDING"} \cup Verdict
Item == Case \cup {"automated"}
NoSteps == [s \in {} |-> "PENDING"]
Unmarked(i) == [s \in IF i \in Case THEN StepsOf(i) ELSE {} |-> "PENDING"]
Marks == UNION {[S -> StepStatus] : S \in {StepsOf(c) : c \in Case} \cup {{}}}
Status == {"none", "PENDING", "RUNNING"} \cup Verdict
StoredItem == [status : Status, steps : Marks]
Absent == [status |-> "none", steps |-> NoSteps]
NoItems == [i \in Item |-> Absent]
NoRows == [i \in Item |-> "none"]
\* The page shows the statuses, and the steps of an item, none marked until it is completed.
Shown(items) == [i \in Item |-> items[i].status]
Terminal(status) == status \in Verdict

ClosedBuilder == [open |-> FALSE, picked |-> {}, at |-> "none", sent |-> {}]
ClosedPlayer == [open |-> FALSE, of |-> "automated", readOnly |-> FALSE, steps |-> NoSteps]
NoPut == [at |-> "none", of |-> "automated", verdict |-> "PENDING", steps |-> NoSteps]
NoListing == [at |-> "none", seen |-> NoRows, missed |-> FALSE]

CyclePagesTypeOK ==
    /\ cycle \in [Item -> StoredItem] /\ shownCycle \in [Item -> Status]
    /\ cyclesQuery \in [at : {"none", "asked", "read"}, seen : [Item -> Status], missed : BOOLEAN]
    /\ builder \in [open : BOOLEAN, picked : SUBSET Item, at : {"none", "sent", "inserted", "refetching"},
                    sent : SUBSET Item]
    /\ player \in [open : BOOLEAN, of : Item, readOnly : BOOLEAN, steps : Marks]
    /\ completing \in [at : {"none", "sent", "written", "refetching"}, of : Item,
                       verdict : Verdict \cup {"PENDING"}, steps : Marks]
    /\ players \in 0..MaxPlayers /\ refetches \in 0..MaxRefetches /\ cycleFailures \in 0..MaxFailures
    /\ cyclesBehind \in BOOLEAN

CyclePagesInit ==
    /\ cycle = NoItems /\ shownCycle = NoRows /\ cyclesQuery = NoListing
    /\ builder = ClosedBuilder /\ player = ClosedPlayer /\ completing = NoPut
    /\ players = 0 /\ refetches = 0 /\ cycleFailures = 0 /\ cyclesBehind = FALSE

----------------------------------------------------------------------------
\* invalidateQueries starts the fetch anew, in place of one under way.
Refetching ==
    /\ refetches < MaxRefetches /\ refetches' = refetches + 1
    /\ cyclesQuery' = [NoListing EXCEPT !.at = "asked"]

\* Who has read the list already misses what is written now.
MissingCycle == cyclesQuery' = [cyclesQuery EXCEPT !.missed = cyclesQuery.at = "read"]

\* The list is fetched again when it is stale and the window gets the focus.
RefetchCycles ==
    /\ cyclesQuery.at = "none" /\ Refetching
    /\ UNCHANGED <<cycle, shownCycle, builder, player, completing, players, cycleFailures,
                   cyclesBehind>>

\* GET /api/test-cycles.
ServeCycles ==
    /\ cyclesQuery.at = "asked" /\ cyclesQuery' = [at |-> "read", seen |-> Shown(cycle), missed |-> FALSE]
    /\ UNCHANGED <<cycle, shownCycle, builder, player, completing, players, refetches,
                   cycleFailures, cyclesBehind>>

\* Who awaited the invalidation goes on: the drawer or the builder is closed,
\* whatever it shows by now.
Resumed ==
    /\ builder' = IF builder.at = "refetching" THEN ClosedBuilder ELSE builder
    /\ player' = IF completing.at = "refetching" THEN ClosedPlayer ELSE player
    /\ completing' = IF completing.at = "refetching" THEN NoPut ELSE completing

\* onCreated invalidates once more.
FetchedAgain == cyclesQuery' = [NoListing EXCEPT !.at = IF builder.at = "refetching" THEN "asked" ELSE "none"]

CyclesArrive ==
    /\ cyclesQuery.at = "read" /\ FetchedAgain
    /\ shownCycle' = cyclesQuery.seen /\ cyclesBehind' = cyclesQuery.missed
    /\ Resumed
    /\ UNCHANGED <<cycle, players, refetches, cycleFailures>>

CyclesFail ==
    /\ cyclesQuery.at # "none" /\ FetchedAgain
    /\ cycleFailures < MaxFailures /\ cycleFailures' = cycleFailures + 1
    /\ cyclesBehind' = TRUE
    /\ Resumed
    /\ UNCHANGED <<cycle, shownCycle, players, refetches>>

----------------------------------------------------------------------------
\* The form is reset on opening.
OpenBuilder ==
    /\ ~builder.open /\ ~player.open /\ cycle = NoItems
    /\ builder' = [builder EXCEPT !.open = TRUE, !.picked = {}]
    /\ UNCHANGED <<cycle, shownCycle, cyclesQuery, player, completing, players, refetches,
                   cycleFailures, cyclesBehind>>

CloseBuilder ==
    /\ builder.open /\ builder' = [builder EXCEPT !.open = FALSE, !.picked = {}]
    /\ UNCHANGED <<cycle, shownCycle, cyclesQuery, player, completing, players, refetches,
                   cycleFailures, cyclesBehind>>

\* toggleTestCase, toggleSuiteSelection and the automated section.
Compose(items) ==
    /\ builder.open /\ builder.at = "none"
    /\ builder' = [builder EXCEPT !.picked = IF items \subseteq @ THEN @ \ items ELSE @ \cup items]
    /\ UNCHANGED <<cycle, shownCycle, cyclesQuery, player, completing, players, refetches,
                   cycleFailures, cyclesBehind>>

\* handleLaunch: without run settings the automated item is dropped, and the cycle
\* may be left with no item.  What is picked after that is of no consequence here,
\* for a second cycle is not followed.
LaunchCycle ==
    /\ builder.open /\ builder.at = "none" /\ builder.picked # {} /\ cycle = NoItems
    /\ \E hasRunSettings \in BOOLEAN :
        builder' = [builder EXCEPT !.at = "sent", !.picked = {},
                                   !.sent = builder.picked \ IF hasRunSettings THEN {} ELSE {"automated"}]
    /\ UNCHANGED <<cycle, shownCycle, cyclesQuery, player, completing, players, refetches,
                   cycleFailures, cyclesBehind>>

\* POST /api/test-cycles; PostCycle of CycleSync has its steps.
InsertCycle ==
    /\ builder.at = "sent" /\ builder' = [builder EXCEPT !.at = "inserted", !.sent = {}]
    /\ cycle' = [i \in Item |-> IF i \notin builder.sent THEN Absent
                                ELSE [status |-> IF i \in Case THEN "PENDING" ELSE "RUNNING", steps |-> Unmarked(i)]]
    /\ MissingCycle
    /\ UNCHANGED <<shownCycle, player, completing, players, refetches, cycleFailures,
                   cyclesBehind>>

CycleCreated ==
    /\ builder.at = "inserted" /\ builder' = [builder EXCEPT !.at = "refetching"]
    /\ Refetching
    /\ UNCHANGED <<cycle, shownCycle, player, completing, players, cycleFailures, cyclesBehind>>

LaunchFails ==
    /\ builder.at \in {"sent", "inserted"} /\ builder' = [builder EXCEPT !.at = "none", !.sent = {}]
    /\ cycleFailures < MaxFailures /\ cycleFailures' = cycleFailures + 1
    /\ cyclesBehind' = (cyclesBehind \/ builder.at = "inserted")
    /\ UNCHANGED <<cycle, shownCycle, cyclesQuery, player, completing, players, refetches>>

----------------------------------------------------------------------------
\* openManualPlayer with the item as the page shows it; a terminal one is read only.
OpenPlayer(c) ==
    /\ ~player.open /\ ~builder.open /\ shownCycle[c] # "none"
    /\ players < MaxPlayers /\ players' = players + 1
    /\ player' = [open |-> TRUE, of |-> c, readOnly |-> Terminal(shownCycle[c]), steps |-> Unmarked(c)]
    /\ UNCHANGED <<cycle, shownCycle, cyclesQuery, builder, completing, refetches, cycleFailures,
                   cyclesBehind>>

ClosePlayer ==
    /\ player.open /\ player' = ClosedPlayer
    /\ UNCHANGED <<cycle, shownCycle, cyclesQuery, builder, completing, players, refetches,
                   cycleFailures, cyclesBehind>>

\* setStepStatus: the buttons stay enabled while the item is being saved.
MarkStep(s, status) ==
    /\ player.open /\ ~player.readOnly /\ s \in DOMAIN player.steps /\ player.steps[s] # status
    /\ player' = [player EXCEPT !.steps[s] = status]
    /\ UNCHANGED <<cycle, shownCycle, cyclesQuery, builder, completing, players, refetches,
                   cycleFailures, cyclesBehind>>

\* deriveItemStatus: steps left pending do not count.
Derived(steps) ==
    LET marks == {steps[s] : s \in DOMAIN steps}
    IN  IF "FAILED" \in marks THEN "FAILED" ELSE IF marks = {"SKIPPED"} THEN "SKIPPED" ELSE "PASSED"

\* handleComplete: at least one step must be marked, so an item without steps never is.
CompleteItem ==
    /\ player.open /\ ~player.readOnly /\ completing.at = "none"
    /\ \E s \in DOMAIN player.steps : player.steps[s] # "PENDING"
    /\ completing' = [at |-> "sent", of |-> player.of,
                       verdict |-> Derived(player.steps), steps |-> player.steps]
    /\ UNCHANGED <<cycle, shownCycle, cyclesQuery, builder, player, players, refetches,
                   cycleFailures, cyclesBehind>>

\* PUT item: status and steps at once, whatever the item is by now.
WriteItem ==
    /\ completing.at = "sent" /\ completing' = [completing EXCEPT !.at = "written"]
    /\ cycle' = [cycle EXCEPT ![completing.of] = [status |-> completing.verdict, steps |-> completing.steps]]
    /\ MissingCycle
    /\ UNCHANGED <<shownCycle, builder, player, players, refetches, cycleFailures, cyclesBehind>>

ItemCompleted ==
    /\ completing.at = "written" /\ completing' = [completing EXCEPT !.at = "refetching"]
    /\ Refetching
    /\ UNCHANGED <<cycle, shownCycle, builder, player, players, cycleFailures, cyclesBehind>>

CompleteFails ==
    /\ completing.at \in {"sent", "written"} /\ completing' = NoPut
    /\ cycleFailures < MaxFailures /\ cycleFailures' = cycleFailures + 1
    /\ cyclesBehind' = (cyclesBehind \/ completing.at = "written")
    /\ UNCHANGED <<cycle, shownCycle, cyclesQuery, builder, player, players, refetches>>

\* The verdict of somebody else, any of them.
Other == CHOOSE verdict \in Verdict : TRUE

\* Another tester completes an open item.
CompleteElsewhere(c) ==
    /\ cycle[c].status \in {"PENDING", "RUNNING"} /\ StepsOf(c) # {}
    /\ LET steps == [s \in StepsOf(c) |-> Other]
       IN  cycle' = [cycle EXCEPT ![c].status = Derived(steps), ![c].steps = steps]
    /\ MissingCycle /\ cyclesBehind' = TRUE
    /\ UNCHANGED <<shownCycle, builder, player, completing, players, refetches, cycleFailures>>

\* The callback of the automated run.
RunFinishes ==
    /\ cycle["automated"].status = "RUNNING"
    /\ cycle' = [cycle EXCEPT !["automated"].status = Other]
    /\ MissingCycle /\ cyclesBehind' = TRUE
    /\ UNCHANGED <<shownCycle, builder, player, completing, players, refetches, cycleFailures>>

CyclePagesNext ==
    \/ RefetchCycles \/ ServeCycles \/ CyclesArrive \/ CyclesFail
    \/ OpenBuilder \/ CloseBuilder \/ LaunchCycle \/ InsertCycle \/ CycleCreated \/ LaunchFails
    \/ ClosePlayer \/ CompleteItem \/ WriteItem \/ ItemCompleted \/ CompleteFails \/ RunFinishes
    \/ \E items \in {{i} : i \in Item} \cup {Case} : Compose(items)
    \/ \E c \in Case : OpenPlayer(c) \/ CompleteElsewhere(c)
    \/ \E s \in Step, status \in Verdict : MarkStep(s, status)

CyclePagesSpec == CyclePagesInit /\ [][CyclePagesNext]_cyclePagesVars

----------------------------------------------------------------------------
\* A completed manual item has a marked step and the verdict of its steps, whoever
\* completed it, and the page at rest shows what is stored, except where somebody else
\* changed it or an answer was lost (ManualExecutionDrawer.tsx, TestCycles.tsx).
CyclePageKept ==
    /\ \A c \in Case : Terminal(cycle[c].status) =>
            /\ \E s \in DOMAIN cycle[c].steps : cycle[c].steps[s] # "PENDING"
            /\ cycle[c].status = Derived(cycle[c].steps)
    /\ (cyclesQuery.at = "none" /\ builder.at = "none" /\ completing.at = "none" /\ ~cyclesBehind) =>
            shownCycle = Shown(cycle)

=============================================================================
