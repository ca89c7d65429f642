------------------------------ MODULE TestLibrary ------------------------------
(***************************************************************************)
(* The test cases of one project and the page one user edits them on: the  *)
(* list it has fetched, the drawer that creates and edits, the generation  *)
(* of steps and suites by a language model, and the optimizer, whose       *)
(* suggestions are applied one by one or all together.  Another user edits *)
(* the same test cases.                                                    *)
(*                                                                         *)
(* Texts (title, suite, description, preconditions) and steps are numbers, *)
(* a new one for everything somebody types and the model writes.           *)
(***************************************************************************)
EXTENDS Naturals, FiniteSets

CONSTANTS
    TestCase,      \* ids of test cases, never used again
    MaxEditions,   \* bound: texts typed and steps written by the model
    MaxOpenings    \* bound: deletions and openings of the drawer, starts of the model

ASSUME TestLibraryAssumption == MaxEditions \in Nat /\ MaxOpenings \in Nat

VARIABLES
    library,       \* the collection: a body for each test case
    rows,          \* the list of the page
    drawer,        \* the drawer: open, on which test case (empty: a new one), the form
    saving,        \* the request of handleSave
    generating,    \* POST /api/ai/generate-test-steps in progress
    suite,         \* handleGenerateSuite in progress
    optimizing,    \* POST /api/ai/optimize-test-cases: the test cases it was asked for
    optimizer,     \* the modal: its suggestions, appliedIds, applyingId
    applies,       \* handleApply and handleApplyAll in progress
    created,       \* ids handed out
    edition, openings,
    typed,         \* history: the text somebody gave each test case last
    overtaken,     \* history: written from a copy older than its text
    reworked       \* history: applied earlier and suggested again, or changed since

libraryVars == <<library, rows, drawer, saving, generating, suite, optimizing, optimizer,
                 applies, created, edition, openings, typed, overtaken, reworked>>
pageVars == <<drawer, saving, generating, suite, optimizing, optimizer, applies>>

TestBody == [text : 0..MaxEditions, steps : 0..MaxEditions, type : {"MANUAL", "AUTOMATED"}]
Shelf == UNION {[s -> TestBody] : s \in SUBSET TestCase}
NoDrawer == [open |-> FALSE, of |-> {}, base |-> 0, text |-> 0, steps |-> 0]
NoSaving == [at |-> "idle", of |-> {}, base |-> 0, text |-> 0, steps |-> 0]

TestLibraryTypeOK ==
    /\ library \in Shelf /\ rows \in Shelf
    /\ drawer.open \in BOOLEAN /\ drawer.of \subseteq TestCase /\ Cardinality(drawer.of) <= 1
    /\ saving.at \in {"idle", "sent", "served", "failed"} /\ saving.of \subseteq TestCase
    /\ generating \in BOOLEAN /\ suite \in {"idle", "generating", "inserting"}
    /\ optimizing \subseteq TestCase
    /\ DOMAIN optimizer.suggestions \subseteq TestCase /\ optimizer.applied \subseteq TestCase
    /\ \A a \in applies : a.todo \cup a.done \cup a.applied \subseteq TestCase /\ a.rows \in Shelf
    /\ DOMAIN library \subseteq created /\ created \subseteq TestCase
    /\ edition \in 0..MaxEditions /\ openings \in 0..MaxOpenings /\ DOMAIN typed = created
    /\ overtaken \subseteq created /\ reworked \subseteq created

TestLibraryInit ==
    /\ created \in SUBSET TestCase
    /\ library \in {f \in [created -> TestBody] : \A i \in created : f[i].text = 0 /\ f[i].steps = 0}
    /\ rows = library /\ typed = [i \in created |-> 0]
    /\ drawer = NoDrawer /\ saving = NoSaving /\ generating = FALSE /\ suite = "idle"
    /\ optimizing = {} /\ optimizer = [suggestions |-> << >>, applied |-> {}, applying |-> {}]
    /\ applies = {} /\ edition = 0 /\ openings = 0 /\ overtaken = {} /\ reworked = {}

Edit == edition < MaxEditions /\ edition' = edition + 1
Open == openings < MaxOpenings /\ openings' = openings + 1
Shows == DOMAIN optimizer.suggestions # {}   \* the optimizer is open
Extended(f, i, x) == [j \in DOMAIN f \cup {i} |-> IF j = i THEN x ELSE f[j]]

\* GET /api/test-cases, whenever React Query fetches.
LoadList ==
    /\ rows' = library
    /\ UNCHANGED <<library, pageVars, created, edition, typed, overtaken, reworked, openings>>

\* Another user saves a form of the same drawer.
EditElsewhere ==
    /\ Edit
    /\ \E i \in DOMAIN library :
        /\ library' = [library EXCEPT ![i] = [text |-> edition', steps |-> edition', type |-> "MANUAL"]]
        /\ typed' = [typed EXCEPT ![i] = edition']
        /\ overtaken' = overtaken \ {i} /\ reworked' = reworked \cup {i}
    /\ UNCHANGED <<rows, pageVars, created, openings>>

\* DELETE /api/test-cases/:id.
DeleteTestCase ==
    /\ Open
    /\ ~drawer.open /\ ~Shows
    /\ \E i \in DOMAIN rows :
        /\ library' = [j \in DOMAIN library \ {i} |-> library[j]]
        /\ rows' \in {library', rows}
    /\ UNCHANGED <<pageVars, created, edition, typed, overtaken, reworked>>

\* handleOpenCreate, handleOpenEdit: the form is a copy of the row.
OpenTestDrawer ==
    /\ Open
    /\ ~drawer.open /\ ~Shows
    /\ \/ drawer' = [NoDrawer EXCEPT !.open = TRUE]
       \/ \E i \in DOMAIN rows :
            drawer' = [open |-> TRUE, of |-> {i}, base |-> rows[i].text,
                       text |-> rows[i].text, steps |-> rows[i].steps]
    /\ UNCHANGED <<library, rows, saving, generating, suite, optimizing, optimizer, applies,
                   created, edition, typed, overtaken, reworked>>

\* Closed without saving; requests under way go on.
CloseTestDrawer ==
    /\ drawer.open /\ drawer' = NoDrawer
    /\ UNCHANGED <<library, rows, saving, generating, suite, optimizing, optimizer, applies,
                   created, edition, typed, overtaken, reworked, openings>>

Type ==
    /\ drawer.open /\ Edit
    /\ \/ drawer' = [drawer EXCEPT !.text = edition']
       \/ drawer' = [drawer EXCEPT !.steps = edition']
    /\ UNCHANGED <<library, rows, saving, generating, suite, optimizing, optimizer, applies,
                   created, typed, overtaken, reworked, openings>>

StartGenerating ==
    /\ Open
    /\ drawer.open /\ ~generating /\ generating' = TRUE
    /\ UNCHANGED <<library, rows, drawer, saving, suite, optimizing, optimizer, applies,
                   created, edition, typed, overtaken, reworked>>

\* The steps replace those of the form, whichever it is by now; or the model or its
\* answer fails.  The drawer is never unmounted.
StepsGenerated ==
    /\ generating /\ generating' = FALSE
    /\ \/ Edit /\ drawer' = IF drawer.open THEN [drawer EXCEPT !.steps = edition'] ELSE drawer
       \/ UNCHANGED <<drawer, edition>>
    /\ UNCHANGED <<library, rows, saving, suite, optimizing, optimizer, applies,
                   created, typed, overtaken, reworked, openings>>

\* handleSave: one at a time.
StartSave ==
    /\ drawer.open /\ saving.at = "idle"
    /\ drawer.of # {} \/ drawer.text # 0    \* a title is required
    /\ saving' = [at |-> "sent", of |-> drawer.of, base |-> drawer.base,
                  text |-> drawer.text, steps |-> drawer.steps]
    /\ UNCHANGED <<library, rows, drawer, generating, suite, optimizing, optimizer, applies,
                   created, edition, typed, overtaken, reworked, openings>>

\* POST inserts and PUT replaces all of the fields; the type of the form is MANUAL.
ServeSave ==
    /\ saving.at = "sent"
    /\ \E i \in IF saving.of = {} THEN TestCase \ created ELSE saving.of \cap DOMAIN library :
        /\ saving' = [saving EXCEPT !.at = "served"]
        /\ library' = Extended(library, i, [text |-> saving.text, steps |-> saving.steps, type |-> "MANUAL"])
        /\ typed' = Extended(typed, i, IF saving.of = {} \/ saving.text # saving.base THEN saving.text
                                       ELSE typed[i])
        /\ overtaken' = IF saving.text # saving.base THEN overtaken \ {i}
                        ELSE IF saving.of # {} /\ library[i].text # saving.base THEN overtaken \cup {i}
                        ELSE overtaken
        /\ created' = created \cup {i} /\ reworked' = reworked \cup {i}
    /\ UNCHANGED <<rows, drawer, generating, suite, optimizing, optimizer, applies, edition, openings>>

\* 404 for a test case that is gone, or no answer.
SaveFails ==
    /\ saving.at = "sent" /\ saving' = [saving EXCEPT !.at = "failed"]
    /\ UNCHANGED <<library, rows, drawer, generating, suite, optimizing, optimizer, applies,
                   created, edition, typed, overtaken, reworked, openings>>

\* The list is fetched, if that works, before the drawer closes: whichever it is open on.
FinishSave ==
    /\ saving.at \in {"served", "failed"} /\ saving' = NoSaving
    /\ IF saving.at = "served" THEN rows' \in {library, rows} /\ drawer' = NoDrawer
       ELSE UNCHANGED <<rows, drawer>>
    /\ UNCHANGED <<library, generating, suite, optimizing, optimizer, applies,
                   created, edition, typed, overtaken, reworked, openings>>

\* handleGenerateSuite: the model writes test cases (here one), then they are inserted.
StartSuite ==
    /\ Open
    /\ ~drawer.open /\ ~Shows /\ suite = "idle" /\ suite' = "generating"
    /\ UNCHANGED <<library, rows, drawer, saving, generating, optimizing, optimizer, applies,
                   created, edition, typed, overtaken, reworked>>

SuiteGenerated ==
    /\ suite = "generating"
    /\ \/ Edit /\ suite' = "inserting"
       \/ suite' = "idle" /\ UNCHANGED edition
    /\ UNCHANGED <<library, rows, drawer, saving, generating, optimizing, optimizer, applies,
                   created, typed, overtaken, reworked, openings>>

InsertSuite ==
    /\ suite = "inserting" /\ suite' = "idle"
    /\ \/ \E i \in TestCase \ created :
            /\ library' = Extended(library, i, [text |-> edition, steps |-> edition, type |-> "MANUAL"])
            /\ typed' = Extended(typed, i, edition)
            /\ created' = created \cup {i} /\ rows' \in {library', rows}
       \/ UNCHANGED <<library, typed, created, rows>>
    /\ UNCHANGED <<drawer, saving, generating, optimizing, optimizer, applies, edition,
                   overtaken, reworked, openings>>

\* handleOptimize for the selected rows that are MANUAL.
StartOptimizing ==
    /\ Open
    /\ ~drawer.open /\ ~Shows /\ optimizing = {}
    /\ optimizing' \in (SUBSET {i \in DOMAIN rows : rows[i].type = "MANUAL"}) \ {{}}
    /\ UNCHANGED <<library, rows, drawer, saving, generating, suite, optimizer, applies,
                   created, edition, typed, overtaken, reworked>>

\* Two calls of the model; what it says of test cases it was not given is dropped.
\* appliedIds is not cleared.
Optimized ==
    /\ optimizing # {} /\ optimizing' = {}
    /\ \/ /\ Edit
          /\ \E s \in SUBSET (optimizing \cap DOMAIN library) :
                /\ optimizer' = [optimizer EXCEPT !.suggestions = [i \in s |-> edition']]
                /\ reworked' = reworked \cup
                       (s \cap (optimizer.applied \cup UNION {a.applied \cup a.done : a \in applies}))
       \/ UNCHANGED <<optimizer, reworked, edition>>
    /\ UNCHANGED <<library, rows, drawer, saving, generating, suite, applies, created, typed, overtaken, openings>>

CloseOptimizer ==
    /\ Shows /\ optimizer' = [optimizer EXCEPT !.suggestions = << >>]
    /\ UNCHANGED <<library, rows, drawer, saving, generating, suite, optimizing, applies,
                   created, edition, typed, overtaken, reworked, openings>>

\* handleApply, or handleApplyAll when several are left.  Each goes on with what the
\* modal knows now: suggestions, rows, appliedIds.
StartApply ==
    LET pending == DOMAIN optimizer.suggestions \ optimizer.applied
    IN  /\ Open
        /\ \E todo \in SUBSET pending :
            /\ \/ Cardinality(todo) = 1 /\ todo # optimizer.applying
               \/ Cardinality(todo) > 1 /\ todo = pending /\ optimizer.applying = {}
            /\ applies' = applies \cup
                 {[todo |-> todo, all |-> Cardinality(todo) > 1, done |-> {}, rows |-> rows,
                   applied |-> optimizer.applied, suggestions |-> optimizer.suggestions]}
            /\ \E i \in todo : optimizer' = [optimizer EXCEPT !.applying = {i}]
        /\ UNCHANGED <<library, rows, drawer, saving, generating, suite, optimizing,
                       created, edition, typed, overtaken, reworked>>

\* Mutant of Applied: only the title goes with the steps, and PUT unsets the rest.
AppliedWithoutText(row, steps) == [text |-> 0, steps |-> steps, type |-> row.type]

\* applyTestCase sends the whole test case: its row, with the steps suggested.
Applied(row, steps) == [row EXCEPT !.steps = steps]

ServeApply ==
    \E a \in applies : \E i \in a.todo \cap DOMAIN library :
        /\ i \in DOMAIN a.rows
        /\ library' = [library EXCEPT ![i] = Applied(a.rows[i], a.suggestions[i])]
        /\ applies' = (applies \ {a}) \cup {[a EXCEPT !.todo = @ \ {i}, !.done = @ \cup {i}]}
        /\ overtaken' = IF library[i].text # a.rows[i].text THEN overtaken \cup {i} ELSE overtaken
        /\ reworked' = IF a.suggestions = optimizer.suggestions THEN reworked \ {i} ELSE reworked \cup {i}
        /\ UNCHANGED <<rows, drawer, saving, generating, suite, optimizing, optimizer,
                       created, edition, typed, openings>>

\* The first failure ends it: the row or the test case is gone, or there is no answer.
ApplyFails ==
    \E a \in applies :
        /\ a.todo # {}
        /\ applies' = (applies \ {a}) \cup {[a EXCEPT !.todo = {}]}
        /\ UNCHANGED <<library, rows, drawer, saving, generating, suite, optimizing, optimizer,
                       created, edition, typed, overtaken, reworked, openings>>

\* appliedIds is what it was at the start and what was done since; after an "all" that
\* did something, the modal closes, also when it ended with an error.
FinishApply ==
    \E a \in applies :
        /\ a.todo = {} /\ applies' = applies \ {a}
        /\ optimizer' = [suggestions |-> IF a.all /\ a.done # {} THEN << >> ELSE optimizer.suggestions,
                         applied |-> IF a.done # {} THEN a.applied \cup a.done ELSE optimizer.applied,
                         applying |-> {}]
        /\ rows' \in {library, rows}
        /\ UNCHANGED <<library, drawer, saving, generating, suite, optimizing,
                       created, edition, typed, overtaken, reworked, openings>>

TestLibraryNext ==
    \/ LoadList \/ EditElsewhere \/ DeleteTestCase
    \/ OpenTestDrawer \/ CloseTestDrawer \/ Type \/ StartGenerating \/ StepsGenerated
    \/ StartSave \/ ServeSave \/ SaveFails \/ FinishSave
    \/ StartSuite \/ SuiteGenerated \/ InsertSuite
    \/ StartOptimizing \/ Optimized \/ CloseOptimizer
    \/ StartApply \/ ServeApply \/ ApplyFails \/ FinishApply

TestLibrarySpec == TestLibraryInit /\ [][TestLibraryNext]_libraryVars

----------------------------------------------------------------------------
\* A test case keeps the text somebody gave it last, whatever the optimizer and the
\* forms write over it (a whole test case each time), unless one of them started from
\* a copy older than that text; and what the optimizer shows as applied is what the
\* test case says, unless it was changed since or suggested a second time
\* (TestCases.tsx, TestCaseDrawer.tsx, OptimizedTestCasesModal.tsx).
LibraryKept ==
    /\ \A i \in DOMAIN library \ overtaken : library[i].text = typed[i]
    /\ \A i \in optimizer.applied \cap DOMAIN optimizer.suggestions \cap DOMAIN library :
            i \in reworked \/ library[i].steps = optimizer.suggestions[i]

=============================================================================
