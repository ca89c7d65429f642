------------------------------ MODULE BulkActions -------------------------------
(***************************************************************************)
(* Runs selected in the list of executions, and what is done to all of     *)
(* them at once: deletion, a group, no group.  The list is flat or         *)
(* grouped, filtered or not; each view is a query with a cache of its own, *)
(* and the selection is of identifiers, listed or not.                     *)
(***************************************************************************)
EXTENDS Naturals, FiniteSets

CONSTANTS
    Row,              \* runs
    Label,            \* group names
    MaxViews,         \* bound: changes of view
    MaxTicks,         \* bound: clicks that change the selection
    MaxBulks,         \* bound: bulk requests
    MaxElsewhere,     \* bound: changes by other users
    MaxBulkFaults     \* bound: requests that fail

ASSUME BulkAssumption == {MaxViews, MaxTicks, MaxBulks, MaxElsewhere, MaxBulkFaults} \subseteq Nat

VARIABLES
    storedRows,       \* the runs not deleted, with their group
    mode, filter,     \* viewMode and filters.groupName
    pages,            \* query data of each view
    pageFetches,      \* the fetch of each view
    selectedRows, busy,   \* selectedIds; loading, of the bar on the screen
    bulks,            \* bulk requests under way
    \* history
    erased,           \* runs whose deletion was answered
    crossed,          \* what an answer that was lost, late or overtaken made unsure
    viewed, ticked, sent, elsewhere, bulkFaults

bulkVars == <<storedRows, mode, filter, pages, pageFetches, selectedRows, busy, bulks, erased,
              crossed, viewed, ticked, sent, elsewhere, bulkFaults>>

Groups == Label \cup {"none"}
Filters == Label \cup {"all"}
Views == {"flat", "grouped"} \X Filters
Runs == UNION {[rows -> Groups] : rows \in SUBSET Row}
NoPageFetch == [at |-> "none"]

BulkTypeOK ==
    /\ storedRows \in Runs /\ mode \in {"flat", "grouped"} /\ filter \in Filters
    /\ pages \in [Views -> Runs]
    /\ \A v \in Views : pageFetches[v].at \in {"none", "asked", "read"}
                        /\ (pageFetches[v].at = "read" => pageFetches[v].found \in Runs)
    /\ selectedRows \subseteq Row /\ busy \in {"none", "delete", "group", "ungroup"}
    /\ bulks \subseteq [n : 1..MaxBulks, kind : {"delete", "group", "ungroup"}, group : Groups,
                        ids : SUBSET Row, at : {"asked", "done", "failed"}, live : BOOLEAN]
    /\ erased \subseteq Row /\ crossed \subseteq {"rows", "groups"}
    /\ viewed \in 0..MaxViews /\ ticked \in 0..MaxTicks /\ sent \in 0..MaxBulks
    /\ elsewhere \in 0..MaxElsewhere /\ bulkFaults \in 0..MaxBulkFaults

----------------------------------------------------------------------------
Removed(runs, ids) == [r \in DOMAIN runs \ ids |-> runs[r]]
Regrouped(runs, ids, g) == [r \in DOMAIN runs |-> IF r \in ids THEN g ELSE runs[r]]
Matching(v) == [r \in {x \in DOMAIN storedRows : v[2] \in {"all", storedRows[x]}} |-> storedRows[r]]

\* The flat query is always enabled, the grouped one in grouped mode.
Active(m, f) == {<<"flat", f>>} \cup (IF m = "grouped" THEN {<<"grouped", f>>} ELSE {})
View == <<mode, filter>>
RowsListed == DOMAIN pages[View]

\* A view that becomes active is fetched, unless its fetch is under way; an invalidated one
\* is fetched again even then, and the earlier answer ignored.
Activated(views) == [v \in Views |-> IF v \in views /\ pageFetches[v] = NoPageFetch
                                     THEN [at |-> "asked"] ELSE pageFetches[v]]
Invalidated(views) == [v \in Views |-> IF v \in views THEN [at |-> "asked"] ELSE pageFetches[v]]

BulkInit ==
    /\ storedRows \in [Row -> Groups] /\ mode = "flat" /\ filter = "all"
    /\ pages = [v \in Views |-> <<>>]
    /\ pageFetches = [v \in Views |-> IF v = <<"flat", "all">> THEN [at |-> "asked"] ELSE NoPageFetch]
    /\ selectedRows = {} /\ busy = "none" /\ bulks = {}
    /\ erased = {} /\ crossed = {}
    /\ viewed = 0 /\ ticked = 0 /\ sent = 0 /\ elsewhere = 0 /\ bulkFaults = 0

\* An empty selection unmounts the bar, and what it awaits changes no bar any more.
Selecting(ids) ==
    /\ selectedRows' = ids
    /\ busy' = IF ids = {} THEN "none" ELSE busy
Detached(ids, left) == IF ids = {} THEN {[b EXCEPT !.live = FALSE] : b \in left} ELSE left

----------------------------------------------------------------------------
\* Only a change of mode clears the selection.
ChangeMode ==
    /\ viewed < MaxViews /\ viewed' = viewed + 1
    /\ mode' = IF mode = "flat" THEN "grouped" ELSE "flat"
    /\ pageFetches' = Activated(Active(mode', filter) \ Active(mode, filter))
    /\ Selecting({}) /\ bulks' = Detached({}, bulks)
    /\ UNCHANGED <<storedRows, filter, pages, erased, crossed, ticked, sent, elsewhere,
                   bulkFaults>>

ChangeFilter(f) ==
    /\ f # filter /\ viewed < MaxViews /\ viewed' = viewed + 1
    /\ filter' = f /\ pageFetches' = Activated(Active(mode, f))
    /\ UNCHANGED <<storedRows, mode, pages, selectedRows, busy, bulks, erased, crossed, ticked,
                   sent, elsewhere, bulkFaults>>

\* GET executions and executions/grouped
ServePage(v) ==
    /\ pageFetches[v].at = "asked"
    /\ pageFetches' = [pageFetches EXCEPT ![v] = [at |-> "read", found |-> Matching(v)]]
    /\ UNCHANGED <<storedRows, mode, filter, pages, selectedRows, busy, bulks, erased, crossed,
                   viewed, ticked, sent, elsewhere, bulkFaults>>

PageArrives(v) ==
    /\ pageFetches[v].at = "read"
    /\ pages' = [pages EXCEPT ![v] = pageFetches[v].found]
    /\ pageFetches' = [pageFetches EXCEPT ![v] = NoPageFetch]
    /\ UNCHANGED <<storedRows, mode, filter, selectedRows, busy, bulks, erased, crossed, viewed,
                   ticked, sent, elsewhere, bulkFaults>>

\* Another user's bulk action, which nothing announces.
ChangeElsewhere(r) ==
    /\ r \in DOMAIN storedRows /\ elsewhere < MaxElsewhere /\ elsewhere' = elsewhere + 1
    /\ \/ storedRows' = Removed(storedRows, {r})
       \/ \E g \in Groups \ {storedRows[r]} : storedRows' = Regrouped(storedRows, {r}, g)
    /\ UNCHANGED <<mode, filter, pages, pageFetches, selectedRows, busy, bulks, erased, crossed,
                   viewed, ticked, sent, bulkFaults>>

----------------------------------------------------------------------------
\* handleSelect, handleSelectAll, onClear.
TickRows(ids) ==
    /\ ids # selectedRows /\ ticked < MaxTicks /\ ticked' = ticked + 1
    /\ \/ \E r \in RowsListed :
              ids = IF r \in selectedRows THEN selectedRows \ {r} ELSE selectedRows \cup {r}
       \/ RowsListed # {} /\ ids = IF RowsListed \subseteq selectedRows THEN {} ELSE RowsListed
       \/ ids = {}
    /\ Selecting(ids) /\ bulks' = Detached(ids, bulks)
    /\ UNCHANGED <<storedRows, mode, filter, pages, pageFetches, erased, crossed, viewed, sent,
                   elsewhere, bulkFaults>>

\* The bar's buttons; the form of the group can be sent again while it is awaited.
StartBulk(kind, g) ==
    /\ selectedRows # {}
    /\ busy = "none" \/ (kind = "group" /\ busy = "group")
    /\ kind = "ungroup" => \E r \in selectedRows \cap RowsListed : pages[View][r] # "none"
    /\ (kind = "group") = (g # "none")
    /\ sent < MaxBulks /\ sent' = sent + 1
    /\ bulks' = bulks \cup {[n |-> sent', kind |-> kind, group |-> g, ids |-> selectedRows,
                             at |-> "asked", live |-> TRUE]}
    /\ busy' = kind
    /\ UNCHANGED <<storedRows, mode, filter, pages, pageFetches, selectedRows, erased, crossed,
                   viewed, ticked, elsewhere, bulkFaults>>

\* Only runs not deleted are changed.
DeleteRows(b) ==
    /\ b.kind = "delete" /\ storedRows' = Removed(storedRows, b.ids)
RegroupRows(b) ==
    /\ b.kind # "delete" /\ storedRows' = Regrouped(storedRows, b.ids, b.group)

ServeBulk(b) ==
    /\ b.at = "asked" /\ (DeleteRows(b) \/ RegroupRows(b))
    /\ bulks' = (bulks \ {b}) \cup {[b EXCEPT !.at = "done"]}
    /\ UNCHANGED <<mode, filter, pages, pageFetches, selectedRows, busy, erased, crossed, viewed,
                   ticked, sent, elsewhere, bulkFaults>>

\* Before or after the update.
BulkBreaks(b) ==
    /\ b.at \in {"asked", "done"} /\ bulkFaults < MaxBulkFaults /\ bulkFaults' = bulkFaults + 1
    /\ bulks' = (bulks \ {b}) \cup {[b EXCEPT !.at = "failed"]}
    /\ crossed' = IF b.at = "done" THEN crossed \cup {"groups"} ELSE crossed
    /\ UNCHANGED <<storedRows, mode, filter, pages, pageFetches, selectedRows, busy, erased,
                   viewed, ticked, sent, elsewhere>>

\* The flat list of the filter of now is changed, the queries are invalidated - after a
\* regrouping only the grouped ones - and the selection of now is emptied.
BulkDone(b) ==
    /\ b.at = "done"
    /\ pages' = [pages EXCEPT ![<<"flat", filter>>] =
                    IF b.kind = "delete" THEN Removed(@, b.ids) ELSE Regrouped(@, b.ids, b.group)]
    /\ pageFetches' =
           Invalidated({v \in Active(mode, filter) : b.kind = "delete" \/ v[1] = "grouped"})
    /\ erased' = IF b.kind = "delete" THEN erased \cup b.ids ELSE erased
    /\ Selecting({}) /\ bulks' = Detached({}, bulks \ {b})
    \* an answer read before the change, of a view not fetched again, is still to arrive
    /\ LET late == \E v \in Views : pageFetches'[v].at = "read"
       IN crossed' = crossed \cup IF b.kind = "delete" THEN (IF late THEN {"rows"} ELSE {})
                                 ELSE IF late \/ bulks # {b} THEN {"groups"} ELSE {}
    /\ UNCHANGED <<storedRows, mode, filter, viewed, ticked, sent, elsewhere, bulkFaults>>

\* An alert, and the selection stays.
BulkAlert(b) ==
    /\ b.at = "failed" /\ bulks' = bulks \ {b}
    /\ busy' = IF b.live THEN "none" ELSE busy
    /\ UNCHANGED <<storedRows, mode, filter, pages, pageFetches, selectedRows, erased, crossed,
                   viewed, ticked, sent, elsewhere, bulkFaults>>

BulkNext ==
    \/ ChangeMode
    \/ \E f \in Filters : ChangeFilter(f)
    \/ \E v \in Views : ServePage(v) \/ PageArrives(v)
    \/ \E r \in Row : ChangeElsewhere(r)
    \/ \E ids \in SUBSET Row : TickRows(ids)
    \/ \E kind \in {"delete", "group", "ungroup"}, g \in Groups : StartBulk(kind, g)
    \/ \E b \in bulks : ServeBulk(b) \/ BulkBreaks(b) \/ BulkDone(b) \/ BulkAlert(b)

BulkSpec == BulkInit /\ [][BulkNext]_bulkVars

----------------------------------------------------------------------------
\* A run deleted here does not come back to the list, whatever answers were under way for
\* the views on the screen; and where nobody else changes the runs and no answer overtook a
\* regrouping, a list at rest shows the groups that are stored, and all runs if it is not
\* filtered by group (ExecutionList.tsx, Dashboard.tsx).
BulkFits ==
    pageFetches[View] = NoPageFetch =>
        /\ "rows" \notin crossed => erased \cap RowsListed = {}
        /\ (bulks = {} /\ elsewhere = 0 /\ crossed = {}) =>
                /\ \A r \in RowsListed : r \in DOMAIN storedRows /\ pages[View][r] = storedRows[r]
                /\ filter = "all" => pages[View] = storedRows

=============================================================================
