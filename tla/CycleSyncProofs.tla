-------------------------- MODULE CycleSyncProofs --------------------------
(***************************************************************************)
(* Proofs about CycleSync, for any items, any number of handlers and any   *)
(* bounds.                                                                 *)
(*                                                                         *)
(* Typed gives the types.  Founded says what the creating handler leaves   *)
(* untouched until it ran and what its array shares with the document.     *)
(* Witnessed, on top of both, says that whoever holds or may still read a  *)
(* closable picture of the items will complete the cycle.                  *)
(***************************************************************************)
EXTENDS CycleSync, FiniteSetTheorems, TLAPS

USE DEF ItemStatus, ItemTerminal, CycleStatus

----------------------------------------------------------------------------
(***************************************************************************)
(* Type correctness.                                                       *)
(***************************************************************************)
ItemKnown == \A h \in Handler : handler[h].pc # "idle" => handler[h].item \in Item

Typed == TypeOK /\ post.todo \subseteq Automated /\ ItemKnown

LEMMA DocIsFunction ==
    ASSUME NEW doc
    PROVE  doc \in ItemsDoc <=> \E S \in SUBSET Item : doc \in [S -> ItemStatus]
  BY DEF ItemsDoc

LEMMA DocOf ==
    ASSUME NEW doc \in ItemsDoc
    PROVE  DOMAIN doc \subseteq Item /\ doc \in [DOMAIN doc -> ItemStatus]
  BY DocIsFunction

LEMMA EmptyDoc == <<>> \in ItemsDoc
<1>1. <<>> \in [{} -> ItemStatus]
  OBVIOUS
<1> QED BY <1>1, DocIsFunction

\* Both ways of counting give numbers, because a cycle has finitely many items.
LEMMA SummaryTyped ==
    ASSUME NEW doc \in ItemsDoc
    PROVE  CallbackSummary(doc) \in Summary /\ ComputeSummary(doc) \in Summary
<1>1. IsFiniteSet(DOMAIN doc)
  BY DocOf, CycleAssumption, FS_Subset
<1>2. ASSUME NEW statuses PROVE IsFiniteSet(Having(doc, statuses))
  BY <1>1, FS_Subset DEF Having
<1>3. ASSUME NEW statuses PROVE Cardinality(Having(doc, statuses)) \in Nat
  BY <1>2, FS_CardinalityType
<1>4. Cardinality(DOMAIN doc) \in Nat
  BY <1>1, FS_CardinalityType
<1> QED BY <1>3, <1>4 DEF CallbackSummary, ComputeSummary, Summary

LEMMA VerdictFiled ==
    ASSUME NEW v \in TerminalStatus
    PROVE  ItemStatusOf(v) \in ItemTerminal
  BY DEF ItemStatusOf, TerminalStatus

LEMMA IdleTyped == Idle \in HandlerState
  BY EmptyDoc DEF Idle, HandlerState

LEMMA InitTyped == Init => Typed
<1> SUFFICES ASSUME Init PROVE Typed
  OBVIOUS
<1>1. items \in ItemsDoc /\ handler \in [Handler -> HandlerState]
  BY EmptyDoc, IdleTyped DEF Init
<1>2. post \in PostState /\ post.todo = {}
  BY EmptyDoc DEF Init, NoPost, PostState
<1>3. summary \in Summary
  BY DEF Init, Summary
<1>4. ItemKnown
  BY DEF Init, ItemKnown, Idle
<1>5. reports \in [Item -> 0..MaxReports] /\ puts \in 0..MaxPuts /\ stops \in 0..MaxStops
  BY CycleAssumption DEF Init
<1>6. status \in CycleStatus /\ enqueued \subseteq Automated /\ synced \subseteq Item
      /\ lost \subseteq Item
  BY DEF Init
<1>7. closable \in BOOLEAN /\ settled \in BOOLEAN /\ overlapped \in BOOLEAN
  BY DEF Init
<1> QED BY <1>1, <1>2, <1>3, <1>4, <1>5, <1>6, <1>7 DEF Typed, TypeOK

\* A handler takes an item when it begins and keeps it.
LEMMA ItemKept == Typed /\ [Next]_vars => ItemKnown'
<1> SUFFICES ASSUME Typed, [Next]_vars, NEW h \in Handler, handler'[h].pc # "idle"
             PROVE  handler'[h].item \in Item
  BY DEF ItemKnown
<1> handler \in [Handler -> HandlerState] /\ ItemKnown
  BY DEF Typed, TypeOK
<1> USE DEF HandlerState
<1>1. ASSUME NEW g \in Handler, NEW kind, NEW i \in Item, NEW s, Begin(g, kind, i, s)
      PROVE  handler'[h].item \in Item
  BY <1>1 DEF Begin, Idle, ItemKnown
<1>2. ASSUME NEW g \in Handler,
             UpdateItem(g) \/ Refetch(g) \/ WriteSummary(g) \/ HandlerStops(g)
      PROVE  handler'[h].item \in Item
  BY <1>2 DEF UpdateItem, Refetch, WriteSummary, WriteSummaryAs, HandlerStops, Idle, ItemKnown
<1>3. ASSUME handler' = handler PROVE handler'[h].item \in Item
  BY <1>3 DEF ItemKnown
<1> QED BY <1>1, <1>2, <1>3
        DEF Next, PostCycle, TriggerCi, Insert, PublishItem, LinkItems, PostStops, Report,
            LoseReport, Put, vars

LEMMA InsertTyped ==
    ASSUME Typed, NEW kind \in {"api", "ci"}, NEW initial \in {"PENDING", "RUNNING"},
           NEW doc \in ItemsDoc, NEW todo \in SUBSET Automated,
           Insert(kind, initial, doc, todo)
    PROVE  Typed'
<1> USE DEF ItemKnown
<1>1. AllTerminal(doc) \in BOOLEAN
  BY DEF AllTerminal
<1>2. todo \subseteq Item
  BY CycleAssumption
<1>3. post' \in PostState /\ post'.todo = todo
  BY <1>2 DEF Insert, PostState
<1>4. summary' \in Summary
  BY SummaryTyped DEF Insert
<1> QED BY <1>1, <1>3, <1>4 DEF Typed, TypeOK, Insert

LEMMA BeginTyped ==
    ASSUME Typed, NEW h \in Handler, NEW kind \in {"callback", "put"}, NEW i \in Item,
           NEW newStatus \in ItemStatus, Begin(h, kind, i, newStatus), ItemKnown',
           reports' \in [Item -> 0..MaxReports], puts' \in 0..MaxPuts
    PROVE  Typed'
<1>1. handler' \in [Handler -> HandlerState]
  BY IdleTyped DEF Begin, Typed, TypeOK, HandlerState
<1> QED BY <1>1 DEF Typed, TypeOK, Begin, Busy, docVars

LEMMA NextTyped == Typed /\ [Next]_vars => Typed'
<1> SUFFICES ASSUME Typed, [Next]_vars PROVE Typed'
  OBVIOUS
<1> ItemKnown'
  BY ItemKept
<1>1. CASE PostCycle
  <2>1. PICK members \in SUBSET Item : \E doc \in [members -> Supplied] :
            Insert("api", IF members \cap Automated = {} THEN "PENDING" ELSE "RUNNING",
                   doc, members \cap Automated)
    BY <1>1 DEF PostCycle
  <2> PICK doc \in [members -> Supplied] :
            Insert("api", IF members \cap Automated = {} THEN "PENDING" ELSE "RUNNING",
                   doc, members \cap Automated)
    BY <2>1
  <2>2. doc \in ItemsDoc
    BY CycleAssumption, DocIsFunction
  <2> QED BY <2>1, <2>2, InsertTyped
<1>2. CASE TriggerCi
  <2>1. PICK i \in Automated : Insert("ci", "PENDING", [j \in {i} |-> "PENDING"], {i})
    BY <1>2 DEF TriggerCi
  <2>2. [j \in {i} |-> "PENDING"] \in [{i} -> ItemStatus] /\ {i} \in SUBSET Item
    BY CycleAssumption
  <2>3. [j \in {i} |-> "PENDING"] \in ItemsDoc
    BY <2>2, DocIsFunction
  <2> QED BY <2>1, <2>3, InsertTyped
<1>3. CASE LinkItems
  BY <1>3 DEF LinkItems, Typed, TypeOK, PostState, AllTerminal
<1>4. CASE PostStops
  BY <1>4, CycleAssumption DEF PostStops, Typed, TypeOK, PostState, docVars, history
<1>5. ASSUME NEW i \in Item, PublishItem(i) PROVE Typed'
  BY <1>5 DEF PublishItem, Typed, TypeOK, PostState, docVars, history
<1>6. ASSUME NEW i \in Item, LoseReport(i) PROVE Typed'
  BY <1>6, CycleAssumption DEF LoseReport, Typed, TypeOK, docVars, history
<1>7. ASSUME NEW h \in Handler, NEW i \in Item, Report(h, i) PROVE Typed'
  <2>1. PICK v \in TerminalStatus : Begin(h, "callback", i, ItemStatusOf(v))
    BY <1>7 DEF Report
  <2>2. reports' \in [Item -> 0..MaxReports] /\ puts' \in 0..MaxPuts
    BY <1>7, CycleAssumption DEF Report, Typed, TypeOK
  <2>3. ItemStatusOf(v) \in ItemStatus
    BY VerdictFiled
  <2> QED BY <2>1, <2>2, <2>3, BeginTyped
<1>8. ASSUME NEW h \in Handler, NEW i \in Item, NEW s \in ItemStatus, Put(h, i, s)
      PROVE  Typed'
  <2>1. reports' \in [Item -> 0..MaxReports] /\ puts' \in 0..MaxPuts
    BY <1>8, CycleAssumption DEF Put, Typed, TypeOK
  <2> QED BY <1>8, <2>1, BeginTyped DEF Put
<1>9. ASSUME NEW h \in Handler, UpdateItem(h) PROVE Typed'
  <2>1. handler[h].status \in ItemStatus /\ handler[h].item \in Item \cup {NoItem}
    BY DEF Typed, TypeOK, HandlerState
  <2>2. DOMAIN items \subseteq Item /\ items \in [DOMAIN items -> ItemStatus]
    BY DocOf DEF Typed, TypeOK
  <2>3. items' \in ItemsDoc
    <3>1. items' \in [DOMAIN items -> ItemStatus]
      BY <1>9, <2>1, <2>2 DEF UpdateItem
    <3> QED BY <3>1, <2>2, DocIsFunction
  <2>4. handler' \in [Handler -> HandlerState]
    BY <1>9 DEF UpdateItem, Typed, TypeOK, HandlerState
  <2>5. closable' \in BOOLEAN /\ settled' \in BOOLEAN
    BY <1>9 DEF UpdateItem, AllTerminal, Typed, TypeOK
  <2>6. synced' \subseteq Item
    <3>1. handler[h].item \in Item
      BY <1>9 DEF UpdateItem, Typed, ItemKnown
    <3> QED BY <1>9, <3>1 DEF UpdateItem, Typed, TypeOK
  <2> QED BY <1>9, <2>3, <2>4, <2>5, <2>6 DEF UpdateItem, Typed, TypeOK
<1>10. ASSUME NEW h \in Handler, Refetch(h) PROVE Typed'
  <2>1. [handler[h] EXCEPT !.pc = "write", !.snap = items] \in HandlerState
    BY DEF Typed, TypeOK, HandlerState
  <2>2. handler' = [handler EXCEPT ![h] = [@ EXCEPT !.pc = "write", !.snap = items]]
    BY <1>10 DEF Refetch
  <2>3. handler' \in [Handler -> HandlerState]
    BY <2>1, <2>2 DEF Typed, TypeOK
  <2> QED BY <1>10, <2>3 DEF Refetch, Typed, TypeOK, docVars, history
<1>11. ASSUME NEW h \in Handler, WriteSummary(h) PROVE Typed'
  <2>1. handler[h].snap \in ItemsDoc
    BY DEF Typed, TypeOK, HandlerState
  <2>2. summary' \in Summary
    BY <1>11, <2>1, SummaryTyped DEF WriteSummary, WriteSummaryAs
  <2>3. handler' \in [Handler -> HandlerState]
    BY <1>11, IdleTyped DEF WriteSummary, WriteSummaryAs, Typed, TypeOK
  <2>4. status' \in CycleStatus
    BY <1>11 DEF WriteSummary, WriteSummaryAs, Typed, TypeOK
  <2> QED BY <1>11, <2>2, <2>3, <2>4
          DEF WriteSummary, WriteSummaryAs, Typed, TypeOK, history
<1>12. ASSUME NEW h \in Handler, HandlerStops(h) PROVE Typed'
  BY <1>12, IdleTyped, CycleAssumption DEF HandlerStops, Typed, TypeOK, docVars, history
<1>13. CASE UNCHANGED vars
  BY <1>13 DEF vars, Typed, TypeOK
<1> QED BY <1>1, <1>2, <1>3, <1>4, <1>5, <1>6, <1>7, <1>8, <1>9, <1>10, <1>11, <1>12,
           <1>13 DEF Next

LEMMA AlwaysTyped == Spec => []Typed
<1>1. Init => Typed
  BY InitTyped
<1>2. Typed /\ [Next]_vars => Typed'
  BY NextTyped
<1> QED BY <1>1, <1>2, PTL DEF Spec

\* The types of the document, of the handlers and of their snapshots, for any
\* set of items and any number of handlers.
THEOREM TypeCorrect == Spec => []TypeOK
<1>1. Typed => TypeOK
  BY DEF Typed
<1> QED BY <1>1, AlwaysTyped, PTL

----------------------------------------------------------------------------
(***************************************************************************)
(* The creating handler.                                                   *)
(***************************************************************************)
Untouched == post.pc = "none" => status = "ABSENT" /\ enqueued = {}
                                    /\ \A h \in Handler : handler[h].pc = "idle"
SettledAfterPost == settled => post.pc = "done"
SameMembers == post.pc # "none" => DOMAIN post.items = DOMAIN items

Founded == Untouched /\ SettledAfterPost /\ SameMembers

\* The actions of callbacks and PUTs, after which the creating handler is as before.
Handle(h) == UpdateItem(h) \/ Refetch(h) \/ WriteSummary(h) \/ HandlerStops(h)

LEMMA InitFounded == Init => Founded
  BY DEF Init, Founded, Untouched, SettledAfterPost, SameMembers, NoPost, Idle

LEMMA NextFounded == Typed /\ Founded /\ [Next]_vars => Founded'
<1> SUFFICES ASSUME Typed, Founded, [Next]_vars PROVE Founded'
  OBVIOUS
<1> USE DEF Founded, Untouched, SettledAfterPost, SameMembers
<1> post \in PostState
  BY DEF Typed, TypeOK
<1>1. ASSUME NEW kind, NEW initial, NEW doc, NEW todo, Insert(kind, initial, doc, todo)
      PROVE  Founded'
  BY <1>1 DEF Insert
<1>2. CASE LinkItems
  BY <1>2 DEF LinkItems, PostState
<1>3. CASE PostStops
  BY <1>3 DEF PostStops, PostState, docVars, history
<1>4. ASSUME NEW i \in Item, PublishItem(i) PROVE Founded'
  <2>1. post'.pc # "none" /\ post'.items = post.items /\ post.pc = "publishing"
    BY <1>4 DEF PublishItem, PostState
  <2> QED BY <1>4, <2>1 DEF PublishItem, docVars, history
<1>5. ASSUME NEW i \in Item, LoseReport(i) PROVE Founded'
  BY <1>5 DEF LoseReport, docVars, history
<1>6. ASSUME NEW h \in Handler, NEW kind, NEW i, NEW s, Begin(h, kind, i, s),
             post.pc # "none"
      PROVE  Founded'
  BY <1>6 DEF Begin, docVars
<1>7. ASSUME NEW h \in Handler, Handle(h) PROVE Founded'
  <2>1. post.pc # "none" /\ post' = post
    BY <1>7 DEF Handle, UpdateItem, Refetch, WriteSummary, WriteSummaryAs, HandlerStops
  <2>2. DOMAIN items' = DOMAIN items
    BY <1>7 DEF Handle, UpdateItem, Refetch, WriteSummary, WriteSummaryAs, HandlerStops,
                docVars
  <2>3. settled' => settled \/ post.pc = "done"
    BY <1>7 DEF Handle, UpdateItem, Refetch, WriteSummary, WriteSummaryAs, HandlerStops,
                history
  <2> QED BY <2>1, <2>2, <2>3
<1>8. CASE UNCHANGED vars
  BY <1>8 DEF vars
<1> QED BY <1>1, <1>2, <1>3, <1>4, <1>5, <1>6, <1>7, <1>8
        DEF Next, PostCycle, TriggerCi, Report, Put, Handle

LEMMA AlwaysFounded == Spec => [](Typed /\ Founded)
<1>1. Init => Founded
  BY InitFounded
<1>2. Typed /\ Founded /\ [Next]_vars => Founded'
  BY NextFounded
<1> QED BY <1>1, <1>2, AlwaysTyped, PTL DEF Spec

----------------------------------------------------------------------------
(***************************************************************************)
(* Completion.                                                             *)
(***************************************************************************)
\* What a handler holds in its hands was the document at some moment.
Closing ==
    /\ post.pc # "none" /\ AllTerminal(items) => closable
    /\ \A h \in Handler :
          handler[h].pc = "write" /\ AllTerminal(handler[h].snap) => closable
    /\ CompletedOnlyIfClosable

LEMMA NextClosing == Typed /\ Founded /\ Closing /\ [Next]_vars => Closing'
<1> SUFFICES ASSUME Typed, Founded, Closing, [Next]_vars PROVE Closing'
  OBVIOUS
<1> USE DEF Closing, CompletedOnlyIfClosable
<1> handler \in [Handler -> HandlerState] /\ post \in PostState
  BY DEF Typed, TypeOK
<1>1. ASSUME NEW kind, NEW initial \in {"PENDING", "RUNNING"}, NEW doc, NEW todo,
             Insert(kind, initial, doc, todo)
      PROVE  Closing'
  BY <1>1 DEF Insert, Founded, Untouched
<1>2. CASE LinkItems
  BY <1>2 DEF LinkItems
<1>3. CASE PostStops
  BY <1>3 DEF PostStops, docVars, history
<1>4. ASSUME NEW i \in Item, PublishItem(i) PROVE Closing'
  BY <1>4 DEF PublishItem, docVars, history
<1>5. ASSUME NEW i \in Item, LoseReport(i) PROVE Closing'
  BY <1>5 DEF LoseReport, docVars, history
<1>6. ASSUME NEW h \in Handler, NEW kind, NEW i, NEW s, Begin(h, kind, i, s)
      PROVE  Closing'
  BY <1>6 DEF Begin, docVars, Idle
<1>7. ASSUME NEW h \in Handler, UpdateItem(h) PROVE Closing'
  <2>1. closable' = (closable \/ AllTerminal(items'))
    BY <1>7 DEF UpdateItem
  <2>2. \A g \in Handler : handler'[g].pc = "write" => handler'[g] = handler[g]
    BY <1>7 DEF UpdateItem, HandlerState
  <2>3. status' = status
    BY <1>7 DEF UpdateItem
  <2> QED BY <2>1, <2>2, <2>3
<1>8. ASSUME NEW h \in Handler, Refetch(h) PROVE Closing'
  <2>1. post.pc # "none"
    BY <1>8 DEF Refetch, Founded, Untouched
  <2>2. handler'[h].snap = items
    BY <1>8 DEF Refetch, HandlerState
  <2>3. \A g \in Handler \ {h} : handler'[g] = handler[g]
    BY <1>8 DEF Refetch
  <2> QED BY <1>8, <2>1, <2>2, <2>3 DEF Refetch, docVars, history
<1>9. ASSUME NEW h \in Handler, WriteSummary(h) PROVE Closing'
  <2>1. status' = "COMPLETED" => closable
    BY <1>9 DEF WriteSummary, WriteSummaryAs
  <2>2. \A g \in Handler : handler'[g].pc = "write" => handler'[g] = handler[g]
    BY <1>9 DEF WriteSummary, WriteSummaryAs, Idle
  <2> QED BY <1>9, <2>1, <2>2 DEF WriteSummary, WriteSummaryAs, history
<1>10. ASSUME NEW h \in Handler, HandlerStops(h) PROVE Closing'
  BY <1>10 DEF HandlerStops, docVars, history, Idle
<1>11. CASE UNCHANGED vars
  BY <1>11 DEF vars
<1> QED BY <1>1, <1>2, <1>3, <1>4, <1>5, <1>6, <1>7, <1>8, <1>9, <1>10, <1>11
        DEF Next, PostCycle, TriggerCi, Report, Put

\* However many handlers decide on what they read earlier, a cycle is COMPLETED
\* only if all its items were terminal at one moment.
THEOREM NeverCompletedEarly == Spec => []CompletedOnlyIfClosable
<1>1. Init => Closing
  BY DEF Init, Closing, CompletedOnlyIfClosable, NoPost, Idle
<1>2. Typed /\ Founded /\ Closing /\ [Next]_vars => Closing'
  BY NextClosing
<1>3. Closing => CompletedOnlyIfClosable
  BY DEF Closing
<1> QED BY <1>1, <1>2, <1>3, AlwaysFounded, PTL DEF Spec

\* The handler that will complete the cycle if it may go on.
Closes(h) ==
    \/ handler[h].pc \in {"update", "refetch"}
    \/ handler[h].pc = "write" /\ AllTerminal(handler[h].snap)

Witnessed ==
    stops = 0 /\ settled /\ AllTerminal(items)
        => status = "COMPLETED" \/ \E h \in Handler : Closes(h)

LEMMA NextWitnessed == Typed /\ Founded /\ Witnessed /\ [Next]_vars => Witnessed'
<1> SUFFICES ASSUME Typed, Founded, Witnessed, [Next]_vars,
                    stops' = 0, settled', AllTerminal(items')
             PROVE  status' = "COMPLETED" \/ \E h \in Handler : Closes(h)'
  BY DEF Witnessed
<1> DEFINE Goal == status' = "COMPLETED" \/ \E h \in Handler : Closes(h)'
<1> handler \in [Handler -> HandlerState] /\ post \in PostState /\ stops \in Nat
  BY CycleAssumption DEF Typed, TypeOK
<1> USE DEF Witnessed, Closes
<1>1. ASSUME UNCHANGED <<status, items, handler, stops, settled>> PROVE Goal
  BY <1>1
<1>2. ASSUME ~settled, settled' = settled PROVE Goal
  BY <1>2
<1>3. ASSUME NEW h \in Handler, NEW kind, NEW i, NEW s, Begin(h, kind, i, s) PROVE Goal
  <2>1. handler'[h].pc = "update"
    BY <1>3 DEF Begin, Idle
  <2> QED BY <2>1
<1>4. ASSUME NEW h \in Handler, UpdateItem(h) PROVE Goal
  <2>1. handler'[h].pc = "refetch"
    BY <1>4 DEF UpdateItem, HandlerState
  <2> QED BY <2>1
<1>5. ASSUME NEW h \in Handler, Refetch(h) PROVE Goal
  <2>1. handler'[h].pc = "write" /\ handler'[h].snap = items
    BY <1>5 DEF Refetch, HandlerState
  <2>2. items' = items
    BY <1>5 DEF Refetch, docVars
  <2> QED BY <2>1, <2>2
<1>6. ASSUME NEW h \in Handler, WriteSummary(h) PROVE Goal
  <2>1. items' = items /\ stops' = stops /\ settled' = settled
    BY <1>6 DEF WriteSummary, WriteSummaryAs, history
  <2>2. CASE status = "COMPLETED"
    BY <1>6, <2>2 DEF WriteSummary, WriteSummaryAs
  <2>3. CASE status # "COMPLETED"
    <3>1. PICK g \in Handler : Closes(g)
      BY <2>1, <2>3
    <3>2. CASE g = h
      BY <1>6, <3>1, <3>2 DEF WriteSummary, WriteSummaryAs
    <3>3. CASE g # h
      <4>1. handler'[g] = handler[g]
        BY <1>6, <3>3 DEF WriteSummary, WriteSummaryAs
      <4> QED BY <3>1, <4>1
    <3> QED BY <3>2, <3>3
  <2> QED BY <2>2, <2>3
<1>7. ASSUME NEW h \in Handler, HandlerStops(h) PROVE Goal
  BY <1>7 DEF HandlerStops
<1>8. CASE PostCycle \/ TriggerCi \/ LinkItems
  <2>1. ~settled /\ settled' = settled
    BY <1>8 DEF PostCycle, TriggerCi, Insert, LinkItems, Founded, SettledAfterPost
  <2> QED BY <2>1, <1>2
<1>9. CASE PostStops \/ \E i \in Item : PublishItem(i) \/ LoseReport(i)
  <2>1. CASE PostStops
    BY <2>1 DEF PostStops
  <2>2. CASE \E i \in Item : PublishItem(i) \/ LoseReport(i)
    BY <2>2, <1>1 DEF PublishItem, LoseReport, docVars, history
  <2> QED BY <1>9, <2>1, <2>2
<1>10. CASE UNCHANGED vars
  BY <1>10, <1>1 DEF vars
<1> QED BY <1>3, <1>4, <1>5, <1>6, <1>7, <1>8, <1>9, <1>10 DEF Next, Report, Put

\* Whichever of the concurrent updates came last read all of them back, so
\* completion is never missed while no handler fails.
THEOREM CompletionIsSeen == Spec => []CompletionNotMissed
<1>1. Init => Witnessed
  BY DEF Init, Witnessed
<1>2. Typed /\ Founded /\ Witnessed /\ [Next]_vars => Witnessed'
  BY NextWitnessed
<1>3. Witnessed => CompletionNotMissed
  BY DEF Witnessed, Closes, CompletionNotMissed, Quiescent, Busy
<1> QED BY <1>1, <1>2, <1>3, AlwaysFounded, PTL DEF Spec

\* A cycle stays COMPLETED and keeps its members, whoever writes it.
THEOREM CompletionIsFinal == Spec => CompletedForGood
<1>1. ASSUME Typed, Founded, [Next]_vars, status = "COMPLETED"
      PROVE  status' = "COMPLETED" /\ DOMAIN items' = DOMAIN items
  <2>1. ASSUME NEW kind, NEW initial, NEW doc, NEW todo, Insert(kind, initial, doc, todo)
        PROVE  FALSE
    BY <1>1, <2>1 DEF Insert, Founded, Untouched
  <2>2. CASE LinkItems
    BY <1>1, <2>2 DEF LinkItems, Founded, SameMembers
  <2>3. CASE PostStops \/ \E i \in Item : PublishItem(i) \/ LoseReport(i)
    BY <1>1, <2>3 DEF PostStops, PublishItem, LoseReport, docVars
  <2>4. ASSUME NEW h \in Handler, NEW kind, NEW i, NEW s, Begin(h, kind, i, s)
        PROVE  UNCHANGED <<status, items>>
    BY <2>4 DEF Begin, docVars
  <2>5. ASSUME NEW h \in Handler, Handle(h)
        PROVE  status' = "COMPLETED" /\ DOMAIN items' = DOMAIN items
    BY <1>1, <2>5 DEF Handle, UpdateItem, Refetch, WriteSummary, WriteSummaryAs,
                      HandlerStops, docVars
  <2>6. CASE UNCHANGED vars
    BY <1>1, <2>6 DEF vars
  <2> QED BY <1>1, <2>1, <2>2, <2>3, <2>4, <2>5, <2>6
          DEF Next, PostCycle, TriggerCi, Report, Put, Handle
<1>2. Typed /\ Founded /\ [Next]_vars
        => [status = "COMPLETED" => status' = "COMPLETED" /\ DOMAIN items' = DOMAIN items]_vars
  BY <1>1
<1> QED BY <1>2, AlwaysFounded, PTL DEF Spec, CompletedForGood

----------------------------------------------------------------------------
(***************************************************************************)
(* Handlers that do not overlap.                                           *)
(***************************************************************************)
Counted == summary \in {CallbackSummary(items), ComputeSummary(items)}

AllIdle == \A h \in Handler : handler[h].pc = "idle"

\* One handler at a time: the document is what that handler believes it to be.
Alone ==
    /\ \A g, h \in Handler : handler[g].pc # "idle" /\ handler[h].pc # "idle" => g = h
    /\ post.pc = "publishing" => AllIdle /\ items = post.items
    /\ AllIdle => Counted
    /\ \A h \in Handler : handler[h].pc = "write" => handler[h].snap = items

Serial == ~overlapped /\ stops = 0 => Alone

LEMMA InitSerial == Init => Serial
<1>1. Init => DOMAIN items = {} /\ AllIdle /\ post.pc = "none"
  BY DEF Init, AllIdle, Idle, NoPost
<1>2. \A statuses : DOMAIN items = {} => Having(items, statuses) = {}
  BY DEF Having
<1>3. Init => summary = ComputeSummary(items)
  BY <1>1, <1>2, FS_EmptySet DEF Init, ComputeSummary
<1> QED BY <1>1, <1>3 DEF Serial, Alone, Counted, AllIdle

LEMMA NextSerial == Typed /\ Founded /\ Serial /\ [Next]_vars => Serial'
<1> SUFFICES ASSUME Typed, Founded, Serial, [Next]_vars, ~overlapped', stops' = 0
             PROVE  Alone'
  BY DEF Serial
<1> USE DEF Serial, Alone, AllIdle, Counted
<1> handler \in [Handler -> HandlerState] /\ post \in PostState /\ stops \in Nat
  BY CycleAssumption DEF Typed, TypeOK
<1>1. ASSUME NEW kind, NEW initial, NEW doc, NEW todo, Insert(kind, initial, doc, todo)
      PROVE  Alone'
  BY <1>1 DEF Insert, Founded, Untouched
<1>2. CASE LinkItems
  <2>1. items' = items /\ summary' = summary /\ handler' = handler /\ post'.pc = "done"
    BY <1>2 DEF LinkItems, PostState
  <2>2. Alone
    BY <1>2 DEF LinkItems
  <2> QED BY <2>1, <2>2
<1>3. CASE PostStops
  BY <1>3 DEF PostStops
<1>4. ASSUME NEW i \in Item, PublishItem(i) PROVE Alone'
  <2>1. /\ post.pc = "publishing" /\ post'.items = post.items
        /\ UNCHANGED <<items, summary, handler>>
    BY <1>4 DEF PublishItem, PostState, docVars
  <2>2. Alone
    BY <1>4 DEF PublishItem, history
  <2> QED BY <2>1, <2>2
<1>5. ASSUME NEW i \in Item, LoseReport(i) PROVE Alone'
  BY <1>5 DEF LoseReport, docVars, history
<1>6. ASSUME NEW h \in Handler, NEW kind, NEW i, NEW s, Begin(h, kind, i, s) PROVE Alone'
  <2>1. AllIdle /\ post.pc # "publishing" /\ UNCHANGED <<items, summary, post>>
    BY <1>6 DEF Begin, Busy, docVars
  <2>2. handler'[h].pc = "update" /\ \A g \in Handler \ {h} : handler'[g] = handler[g]
    BY <1>6 DEF Begin, Idle
  <2> QED BY <2>1, <2>2
<1>7. ASSUME NEW h \in Handler, UpdateItem(h) PROVE Alone'
  <2>1. Alone /\ handler[h].pc # "idle" /\ post' = post
    BY <1>7 DEF UpdateItem
  <2>2. handler'[h].pc = "refetch" /\ \A g \in Handler \ {h} : handler'[g] = handler[g]
    BY <1>7 DEF UpdateItem, HandlerState
  <2> QED BY <2>1, <2>2
<1>8. ASSUME NEW h \in Handler, Refetch(h) PROVE Alone'
  <2>1. Alone /\ handler[h].pc # "idle" /\ UNCHANGED <<items, summary, post>>
    BY <1>8 DEF Refetch, docVars, history
  <2>2. /\ handler'[h].pc = "write" /\ handler'[h].snap = items
        /\ \A g \in Handler \ {h} : handler'[g] = handler[g]
    BY <1>8 DEF Refetch, HandlerState
  <2> QED BY <2>1, <2>2
<1>9. ASSUME NEW h \in Handler, WriteSummary(h) PROVE Alone'
  <2>1. Alone /\ handler[h].pc = "write" /\ UNCHANGED <<items, post>>
    BY <1>9 DEF WriteSummary, WriteSummaryAs, history
  <2>2. handler[h].snap = items
    BY <2>1
  <2>3. summary' \in {CallbackSummary(items), ComputeSummary(items)}
    BY <1>9, <2>2 DEF WriteSummary, WriteSummaryAs
  <2>4. handler'[h].pc = "idle" /\ \A g \in Handler \ {h} : handler'[g] = handler[g]
    BY <1>9 DEF WriteSummary, WriteSummaryAs, Idle
  <2>5. Counted'
    BY <2>1, <2>3
  <2> QED BY <2>1, <2>4, <2>5
<1>10. ASSUME NEW h \in Handler, HandlerStops(h) PROVE Alone'
  BY <1>10 DEF HandlerStops
<1>11. CASE UNCHANGED vars
  BY <1>11 DEF vars
<1> QED BY <1>1, <1>2, <1>3, <1>4, <1>5, <1>6, <1>7, <1>8, <1>9, <1>10, <1>11
        DEF Next, PostCycle, TriggerCi, Report, Put

\* While handlers run one after the other and none fails, the summary is the
\* one its last writer computes from the items.
THEOREM SerialSummaryIsExact == Spec => []SerialSummaryExact
<1>1. Serial => SerialSummaryExact
  BY DEF Serial, Alone, AllIdle, Counted, SerialSummaryExact, Quiescent, Busy
<1> QED BY <1>1, InitSerial, NextSerial, AlwaysFounded, PTL DEF Spec

=============================================================================
