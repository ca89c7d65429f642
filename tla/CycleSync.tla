------------------------------ MODULE CycleSync ------------------------------
(***************************************************************************)
(* One test cycle and everything that writes it: the POST that creates it  *)
(* and enqueues its automated items, the CI trigger, the cycle sync in the *)
(* worker callback, and the PUT of the manual execution player.  All of    *)
(* them run in the producer's event loop and interleave at every await.    *)
(*                                                                         *)
(* Callback and PUT have the same three awaited steps: update one item,    *)
(* read the cycle back, write the summary (and COMPLETED) computed from    *)
(* what was read.  They differ in how they count failures.                 *)
(*                                                                         *)
(* Left out: titles, manual steps, the automation rate (a constant of the  *)
(* cycle) and the execution ids that link an item to its run.              *)
(***************************************************************************)
EXTENDS StatusRules

CONSTANTS
    Item,         \* item ids
    Automated,    \* the items of type AUTOMATED
    Handler,      \* request handlers that may be in progress at once
    Supplied,     \* item statuses the body of a POST may supply
    MaxReports,   \* bound: verdicts the worker reports per item
    MaxPuts,      \* bound: PUT requests
    MaxStops      \* bound: handlers ended by an exception or a restart

ASSUME CycleAssumption ==
    /\ IsFiniteSet(Item) /\ Automated \subseteq Item
    /\ Supplied \subseteq ItemStatus
    /\ MaxReports \in Nat /\ MaxPuts \in Nat /\ MaxStops \in Nat

NoItem == "no item"
ASSUME NoItemAssumption == NoItem \notin Item

VARIABLES
    status,     \* status of the cycle document, "ABSENT" before the insert
    items,      \* its items: a function from ids to statuses
    summary,    \* its summary
    post,       \* the handler that creates the cycle
    enqueued,   \* automated items whose message was published
    reports,    \* verdicts the worker has posted for each item
    synced,     \* items a callback has updated
    handler,    \* callback and PUT handlers in progress
    puts, stops,
    closable,   \* history: all items of the cycle were terminal at some time
    settled,    \* history: an item was updated since the creating handler ended
    overlapped, \* history: two handlers were in progress at the same time
    lost        \* items a verdict of which never reached the producer

docVars  == <<status, items, summary>>
history  == <<closable, settled, overlapped>>
vars == <<status, items, summary, post, enqueued, reports, synced, handler, puts, stops,
          closable, settled, overlapped, lost>>

CycleStatus == {"ABSENT", "PENDING", "RUNNING", "COMPLETED"}
ItemsDoc == UNION {[S -> ItemStatus] : S \in SUBSET Item}
Summary == [total : Nat, passed : Nat, failed : Nat]

\* kind: which endpoint; items: the array built from the body; todo: not published yet.
PostState == [pc : {"none", "publishing", "done"}, kind : {"none", "api", "ci"},
              items : ItemsDoc, todo : SUBSET Item]
NoPost == [pc |-> "none", kind |-> "none", items |-> <<>>, todo |-> {}]

HandlerState == [pc : {"idle", "update", "refetch", "write"},
                 kind : {"none", "callback", "put"}, item : Item \cup {NoItem},
                 status : ItemStatus, snap : ItemsDoc]
Idle == [pc |-> "idle", kind |-> "none", item |-> NoItem, status |-> "PENDING",
         snap |-> <<>>]

TypeOK ==
    /\ status \in CycleStatus
    /\ items \in ItemsDoc
    /\ summary \in Summary
    /\ post \in PostState
    /\ enqueued \subseteq Automated
    /\ reports \in [Item -> 0..MaxReports]
    /\ synced \subseteq Item
    /\ handler \in [Handler -> HandlerState]
    /\ puts \in 0..MaxPuts /\ stops \in 0..MaxStops
    /\ closable \in BOOLEAN /\ settled \in BOOLEAN /\ overlapped \in BOOLEAN
    /\ lost \subseteq Item

Init ==
    /\ status = "ABSENT"
    /\ items = <<>>
    /\ summary = [total |-> 0, passed |-> 0, failed |-> 0]
    /\ post = NoPost
    /\ enqueued = {}
    /\ reports = [i \in Item |-> 0]
    /\ synced = {}
    /\ handler = [h \in Handler |-> Idle]
    /\ puts = 0 /\ stops = 0
    /\ closable = FALSE /\ settled = FALSE /\ overlapped = FALSE
    /\ lost = {}

----------------------------------------------------------------------------
(***************************************************************************)
(* Creation.                                                               *)
(***************************************************************************)
Insert(kind, initial, doc, todo) ==
    /\ post.pc = "none"
    /\ status' = initial
    /\ items' = doc
    /\ summary' = ComputeSummary(doc)
    /\ post' = [pc |-> IF todo = {} THEN "done" ELSE "publishing", kind |-> kind,
                items |-> doc, todo |-> todo]
    /\ closable' = AllTerminal(doc)
    /\ UNCHANGED <<enqueued, reports, synced, handler, puts, stops, settled, overlapped,
                   lost>>

\* POST /api/test-cycles: the body chooses the items and may give them statuses.
PostCycle ==
    \E members \in SUBSET Item : \E doc \in [members -> Supplied] :
        LET automatedItems == members \cap Automated
        IN  Insert("api", IF automatedItems = {} THEN "PENDING" ELSE "RUNNING", doc,
                   automatedItems)

\* POST /api/ci/trigger: one automated item.
TriggerCi ==
    \E i \in Automated : Insert("ci", "PENDING", [j \in {i} |-> "PENDING"], {i})

\* await sendToQueue for one more item; the CI trigger is done after its only one.
PublishItem(i) ==
    /\ post.pc = "publishing" /\ i \in post.todo
    /\ enqueued' = enqueued \cup {i}
    /\ post' = [post EXCEPT !.todo = @ \ {i},
                            !.pc = IF post.kind = "ci" THEN "done" ELSE @]
    /\ UNCHANGED <<docVars, reports, synced, handler, puts, stops, history, lost>>

\* $set: { items }: the handler's own array, as it was built from the body.
LinkItems ==
    /\ post.pc = "publishing" /\ post.kind = "api" /\ post.todo = {}
    /\ items' = post.items
    /\ post' = [post EXCEPT !.pc = "done"]
    /\ closable' = (closable \/ AllTerminal(items'))
    /\ UNCHANGED <<status, summary, enqueued, reports, synced, handler, puts, stops,
                   settled, overlapped, lost>>

\* A publish or a MongoDB call throws, or the producer restarts.
PostStops ==
    /\ post.pc = "publishing" /\ stops < MaxStops
    /\ post' = [post EXCEPT !.pc = "done"]
    /\ stops' = stops + 1
    /\ UNCHANGED <<docVars, enqueued, reports, synced, handler, puts, history, lost>>

----------------------------------------------------------------------------
(***************************************************************************)
(* Callback and PUT.                                                       *)
(***************************************************************************)
Busy == post.pc = "publishing" \/ \E h \in Handler : handler[h].pc # "idle"

Begin(h, kind, i, newStatus) ==
    /\ handler[h].pc = "idle"
    /\ handler' = [handler EXCEPT ![h] = [Idle EXCEPT !.pc = "update", !.kind = kind,
                                          !.item = i, !.status = newStatus]]
    /\ overlapped' = (overlapped \/ Busy)
    /\ UNCHANGED <<docVars, post, enqueued, synced, stops, closable, settled, lost>>

\* The worker posts a verdict with the cycle linkage (again after a redelivery).
Report(h, i) ==
    /\ i \in enqueued /\ reports[i] < MaxReports
    /\ reports' = [reports EXCEPT ![i] = @ + 1]
    /\ \E v \in TerminalStatus : Begin(h, "callback", i, ItemStatusOf(v))
    /\ UNCHANGED puts

\* The worker's only post of this verdict fails.
LoseReport(i) ==
    /\ i \in enqueued /\ reports[i] < MaxReports
    /\ reports' = [reports EXCEPT ![i] = @ + 1]
    /\ lost' = lost \cup {i}
    /\ UNCHANGED <<docVars, post, enqueued, synced, handler, puts, stops, history>>

\* Any valid status, any item id: an unknown one still matches the cycle.
Put(h, i, newStatus) ==
    /\ status # "ABSENT" /\ puts < MaxPuts
    /\ puts' = puts + 1
    /\ Begin(h, "put", i, newStatus)
    /\ UNCHANGED reports

\* Mutant of UpdateItem: the cycle is read before it is updated.
UpdateAfterRead(h) ==
    LET me == handler[h]
    IN  /\ me.pc = "update"
        /\ items' = [j \in DOMAIN items |-> IF j = me.item THEN me.status ELSE items[j]]
        /\ synced' = IF me.kind = "callback" THEN synced \cup {me.item} ELSE synced
        /\ closable' = (closable \/ AllTerminal(items'))
        /\ settled' = (settled \/ post.pc = "done")
        /\ handler' = [handler EXCEPT ![h].pc = "write", ![h].snap = items]
        /\ UNCHANGED <<status, summary, post, enqueued, reports, puts, stops, overlapped,
                       lost>>

\* Step 1: items.$[elem].status, for the elements with this id.
UpdateItem(h) ==
    LET me == handler[h]
    IN  /\ me.pc = "update"
        /\ items' = [j \in DOMAIN items |-> IF j = me.item THEN me.status ELSE items[j]]
        /\ synced' = IF me.kind = "callback" THEN synced \cup {me.item} ELSE synced
        /\ closable' = (closable \/ AllTerminal(items'))
        /\ settled' = (settled \/ post.pc = "done")
        /\ handler' = [handler EXCEPT ![h].pc = "refetch"]
        /\ UNCHANGED <<status, summary, post, enqueued, reports, puts, stops, overlapped,
                       lost>>

\* Step 2: findOne.
Refetch(h) ==
    /\ handler[h].pc = "refetch"
    /\ handler' = [handler EXCEPT ![h].pc = "write", ![h].snap = items]
    /\ UNCHANGED <<docVars, post, enqueued, reports, synced, puts, stops, history, lost>>

\* Step 3: the summary of the items read, and the status.
WriteSummaryAs(h, newStatus) ==
    LET me == handler[h]
    IN  /\ me.pc = "write"
        /\ summary' = IF me.kind = "callback" THEN CallbackSummary(me.snap)
                                              ELSE ComputeSummary(me.snap)
        /\ status' = newStatus
        /\ handler' = [handler EXCEPT ![h] = Idle]
        /\ UNCHANGED <<items, post, enqueued, reports, synced, puts, stops, history, lost>>

\* Mutants of WriteSummary: complete the cycle with the handler's own item, and
\* reopen a cycle that has an open item.
WriteSummaryEager(h) ==
    WriteSummaryAs(h, IF handler[h].status \in ItemTerminal THEN "COMPLETED" ELSE status)
WriteSummaryReopening(h) ==
    WriteSummaryAs(h, IF AllTerminal(handler[h].snap) THEN "COMPLETED" ELSE "RUNNING")

\* COMPLETED if all items that were read are terminal.
WriteSummary(h) ==
    WriteSummaryAs(h, IF AllTerminal(handler[h].snap) THEN "COMPLETED" ELSE status)

\* A MongoDB call throws (caught and logged), or the producer restarts.
HandlerStops(h) ==
    /\ handler[h].pc # "idle" /\ stops < MaxStops
    /\ handler' = [handler EXCEPT ![h] = Idle]
    /\ stops' = stops + 1
    /\ UNCHANGED <<docVars, post, enqueued, reports, synced, puts, history, lost>>

Next ==
    \/ PostCycle \/ TriggerCi \/ LinkItems \/ PostStops
    \/ \E i \in Item : PublishItem(i) \/ LoseReport(i)
    \/ \E h \in Handler :
          \/ \E i \in Item : Report(h, i) \/ \E s \in ItemStatus : Put(h, i, s)
          \/ UpdateItem(h) \/ Refetch(h) \/ WriteSummary(h) \/ HandlerStops(h)

Spec == Init /\ [][Next]_vars

\* Handlers run on, and a worker reports the verdict of a message it received.
Fairness ==
    /\ WF_vars(LinkItems \/ \E i \in Item : PublishItem(i))
    /\ WF_vars(\E i \in Item : LoseReport(i) \/ \E h \in Handler : Report(h, i))
    /\ \A h \in Handler : WF_vars(UpdateItem(h) \/ Refetch(h) \/ WriteSummary(h))

FairSpec == Spec /\ Fairness

----------------------------------------------------------------------------
(***************************************************************************)
(* Properties.                                                             *)
(***************************************************************************)
Quiescent == post.pc = "done" /\ ~Busy

(***************************************************************************)
(* A cycle is COMPLETED only if all its items were terminal at one moment: *)
(* handlers decide on what they read earlier, while others write, but they *)
(* never complete a cycle on a mixture of old and new items.               *)
(***************************************************************************)
CompletedOnlyIfClosable == status = "COMPLETED" => closable

(***************************************************************************)
(* Completion is not lost in a race: when no handler is left, no handler   *)
(* failed, an item was updated after the creating handler ended, and all   *)
(* items are terminal, then the cycle is COMPLETED.  Whichever update came *)
(* last read all of them back.                                             *)
(***************************************************************************)
CompletionNotMissed ==
    Quiescent /\ stops = 0 /\ settled /\ AllTerminal(items) => status = "COMPLETED"

(***************************************************************************)
(* When handlers run one after the other and none fails, the summary is    *)
(* the one the last of them computes from the items as they are.           *)
(***************************************************************************)
SerialSummaryExact ==
    Quiescent /\ ~overlapped /\ stops = 0
        => summary \in {CallbackSummary(items), ComputeSummary(items)}

(***************************************************************************)
(* A cycle is completed at most once and stays so, with all its members,   *)
(* whichever handler writes its items, summary or status after that.       *)
(***************************************************************************)
CompletedForGood ==
    [][status = "COMPLETED" => status' = "COMPLETED" /\ DOMAIN items' = DOMAIN items]_vars

(***************************************************************************)
(* A CI run whose message was published closes its cycle in the end,       *)
(* unless its callback is lost, a handler fails, or somebody edits the     *)
(* item by hand.                                                           *)
(***************************************************************************)
CiCycleCompletes ==
    (post.kind = "ci" /\ enqueued # {})
        ~> (status = "COMPLETED" \/ lost # {} \/ stops > 0 \/ puts > 0)

(***************************************************************************)
(* A result the callback stored stays: once everything is quiet, an item   *)
(* that was reported and that nobody edited by hand has a verdict.         *)
(***************************************************************************)
SyncedResultKept ==
    Quiescent /\ puts = 0 => \A i \in synced : items[i] \in ItemTerminal

=============================================================================
