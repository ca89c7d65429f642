------------------------------ MODULE VariablesTab ------------------------------
(***************************************************************************)
(* The tab that edits the environment variables of the project selected in *)
(* it.  The selector stays usable while lists, saves and deletions are     *)
(* under way, none of which is withdrawn; each goes on for the project it  *)
(* was started under.  EnvVars has what the routes do with a value.        *)
(*                                                                         *)
(* Variables and contents are numbered as they are made, 0 is none.        *)
(***************************************************************************)
EXTENDS Naturals, FiniteSets

CONSTANTS
    Shop,             \* projects
    MaxTabVars,       \* bound: variables added
    MaxTyped,         \* bound: contents typed into the form
    MaxActs,          \* bound: selections of a project, saves and deletions
    MaxVarFaults      \* bound: answers that get lost and requests that fail

ASSUME VariablesTabAssumption ==
    Shop # {} /\ {MaxTabVars, MaxTyped, MaxActs, MaxVarFaults} \subseteq Nat

VARIABLES
    varStored,        \* the collection: [id, shop, content]
    shopPicked,       \* selectedProjectId
    varRows,          \* envVars
    varLists,         \* lists under way
    varsLoading,      \* isLoadingVars: the rows are not on the screen
    varForm,          \* form and editingId
    varSave,          \* handleSubmit, one at a time
    varDrops,         \* handleDelete
    varDropping,      \* deletingId, of the deletion begun last
    \* history
    typedFor,         \* the project each content was typed for
    rowsUnsure,       \* two lists crossed, one is of another project, or an answer was lost
    varsMade, acts, varFaults

variablesTabVars == <<varStored, shopPicked, varRows, varLists, varsLoading, varForm, varSave,
                      varDrops, varDropping, typedFor, rowsUnsure, varsMade, acts, varFaults>>

VarId == 1..MaxTabVars
Texts == 1..MaxTyped
VarRow == [id : VarId, content : Texts]
EmptyForm == [id |-> 0, content |-> 0]
NoVarSave == [at |-> "none"]
RowsOf(s) == {[id |-> v.id, content |-> v.content] : v \in {w \in varStored : w.shop = s}}

VariablesTabTypeOK ==
    /\ varStored \subseteq [id : VarId, shop : Shop, content : Texts]
    /\ shopPicked \in Shop /\ varRows \subseteq VarRow /\ varsLoading \in BOOLEAN
    /\ \A q \in varLists : /\ q.at \in {"asked", "read"} /\ q.shop \in Shop
                           /\ q.found \subseteq VarRow
    /\ varForm \in [id : 0..MaxTabVars, content : 0..MaxTyped]
    /\ varSave.at \in {"none", "asked", "done"} /\ varDropping \in 0..MaxTabVars
    /\ \A d \in varDrops : d.at \in {"asked", "done"} /\ d.id \in VarId /\ d.shop \in Shop
    /\ typedFor \in [1..Cardinality(DOMAIN typedFor) -> Shop] /\ rowsUnsure \in BOOLEAN
    /\ varsMade \in 0..MaxTabVars /\ Cardinality(DOMAIN typedFor) <= MaxTyped
    /\ acts \in 0..MaxActs /\ varFaults \in 0..MaxVarFaults

\* The projects are there and the first is selected, which asks for its variables.
VariablesTabInit ==
    /\ varStored = {} /\ varRows = {}
    /\ shopPicked = CHOOSE s \in Shop : TRUE
    /\ varsLoading = TRUE
    /\ varLists = {[n |-> 0, shop |-> shopPicked, at |-> "asked", found |-> {}]}
    /\ varForm = EmptyForm /\ varSave = NoVarSave /\ varDrops = {} /\ varDropping = 0
    /\ typedFor = << >> /\ rowsUnsure = FALSE
    /\ varsMade = 0 /\ acts = 0 /\ varFaults = 0

Act == acts < MaxActs /\ acts' = acts + 1
VarFault == varFaults < MaxVarFaults /\ varFaults' = varFaults + 1

\* loadEnvVars as a handler begun under a project still has it: the list of that project.
LoadVars(s, picked) ==
    /\ LET free == CHOOSE k \in 0..Cardinality(varLists) : \A q \in varLists : q.n # k
       IN varLists' = varLists \cup {[n |-> free, shop |-> s, at |-> "asked", found |-> {}]}
    /\ varsLoading' = TRUE /\ rowsUnsure' = (varLists # {} \/ s # picked)

----------------------------------------------------------------------------
\* The selector: the form is emptied, the rows stay until the list arrives.
PickShop(s) ==
    /\ s # shopPicked /\ Act
    /\ shopPicked' = s /\ varForm' = EmptyForm /\ LoadVars(s, s)
    /\ UNCHANGED <<varStored, varRows, varSave, varDrops, varDropping, typedFor, varsMade,
                   varFaults>>

\* GET /api/projects/:projectId/env
ServeVars(q) ==
    /\ q.at = "asked"
    /\ varLists' = (varLists \ {q}) \cup {[q EXCEPT !.at = "read", !.found = RowsOf(q.shop)]}
    /\ UNCHANGED <<varStored, shopPicked, varRows, varsLoading, varForm, varSave, varDrops,
                   varDropping, typedFor, rowsUnsure, varsMade, acts, varFaults>>

\* Any list that arrives is shown.
VarsArrive(q) ==
    /\ q.at = "read" /\ varLists' = varLists \ {q} /\ varRows' = q.found /\ varsLoading' = FALSE
    /\ UNCHANGED <<varStored, shopPicked, varForm, varSave, varDrops, varDropping, typedFor,
                   rowsUnsure, varsMade, acts, varFaults>>

VarsFail(q) ==
    /\ VarFault /\ varLists' = varLists \ {q} /\ varsLoading' = FALSE /\ rowsUnsure' = TRUE
    /\ UNCHANGED <<varStored, shopPicked, varRows, varForm, varSave, varDrops, varDropping,
                   typedFor, varsMade, acts>>

----------------------------------------------------------------------------
\* startEdit, off while a deletion is under way.
EditVar(r) ==
    /\ ~varsLoading /\ varDropping = 0 /\ varForm' = r /\ varForm' # varForm
    /\ UNCHANGED <<varStored, shopPicked, varRows, varLists, varsLoading, varSave, varDrops,
                   varDropping, typedFor, rowsUnsure, varsMade, acts, varFaults>>

CancelEdit ==
    /\ varForm.id # 0 /\ varForm' = EmptyForm
    /\ UNCHANGED <<varStored, shopPicked, varRows, varLists, varsLoading, varSave, varDrops,
                   varDropping, typedFor, rowsUnsure, varsMade, acts, varFaults>>

\* The inputs, which stay usable while a save is under way.
TypeVar ==
    /\ Cardinality(DOMAIN typedFor) < MaxTyped
    /\ LET n == Cardinality(DOMAIN typedFor) + 1
       IN /\ typedFor' = [k \in 1..n |-> IF k = n THEN shopPicked ELSE typedFor[k]]
          /\ varForm' = [varForm EXCEPT !.content = n]
    /\ UNCHANGED <<varStored, shopPicked, varRows, varLists, varsLoading, varSave, varDrops,
                   varDropping, rowsUnsure, varsMade, acts, varFaults>>

\* handleSubmit: POST without an id, PUT with one.
SubmitVar ==
    /\ varSave = NoVarSave /\ varForm.content # 0 /\ Act
    /\ varSave' = [at |-> "asked", shop |-> shopPicked, id |-> varForm.id,
                   content |-> varForm.content]
    /\ UNCHANGED <<varStored, shopPicked, varRows, varLists, varsLoading, varForm, varDrops,
                   varDropping, typedFor, rowsUnsure, varsMade, varFaults>>

\* The documents a request names: of that id, and of the project in its path.
Named(id, s) == {v \in varStored : v.id = id /\ v.shop = s}

StoreVar ==
    /\ varSave.at = "asked" /\ varSave' = [varSave EXCEPT !.at = "done"]
    /\ LET named == Named(varSave.id, varSave.shop)
       IN \/ /\ varSave.id = 0 /\ varsMade < MaxTabVars /\ varsMade' = varsMade + 1
             /\ varStored' = varStored \cup
                    {[id |-> varsMade', shop |-> varSave.shop, content |-> varSave.content]}
          \/ /\ named # {} /\ UNCHANGED varsMade
             /\ varStored' = (varStored \ named) \cup
                    {[v EXCEPT !.content = varSave.content] : v \in named}
    /\ UNCHANGED <<shopPicked, varRows, varLists, varsLoading, varForm, varDrops, varDropping,
                   typedFor, rowsUnsure, acts, varFaults>>

\* resetForm, whatever is in the form by now, and the list of the project the save was for.
VarSaved ==
    /\ varSave.at = "done" /\ varSave' = NoVarSave
    /\ varForm' = EmptyForm /\ LoadVars(varSave.shop, shopPicked)
    /\ UNCHANGED <<varStored, shopPicked, varRows, varDrops, varDropping, typedFor, varsMade,
                   acts, varFaults>>

\* Refused (a name that is taken, the limit, 404), or the answer is lost; the form stays.
VarSaveFails ==
    /\ varSave # NoVarSave /\ varSave' = NoVarSave
    /\ IF varSave.at = "asked" THEN UNCHANGED <<rowsUnsure, varFaults>>
       ELSE VarFault /\ rowsUnsure' = TRUE
    /\ UNCHANGED <<varStored, shopPicked, varRows, varLists, varsLoading, varForm, varDrops,
                   varDropping, typedFor, varsMade, acts>>

----------------------------------------------------------------------------
\* handleDelete: only the button of the deletion begun last is off.
DropVar(r) ==
    /\ ~varsLoading /\ varDropping # r.id /\ Act
    /\ varDropping' = r.id
    /\ varDrops' = varDrops \cup {[n |-> acts, id |-> r.id, shop |-> shopPicked, at |-> "asked",
                                   editing |-> varForm.id = r.id]}
    /\ UNCHANGED <<varStored, shopPicked, varRows, varLists, varsLoading, varForm, varSave,
                   typedFor, rowsUnsure, varsMade, varFaults>>

RemoveVar(d) ==
    /\ d.at = "asked" /\ Named(d.id, d.shop) # {} /\ varStored' = varStored \ Named(d.id, d.shop)
    /\ varDrops' = (varDrops \ {d}) \cup {[d EXCEPT !.at = "done"]}
    /\ UNCHANGED <<shopPicked, varRows, varLists, varsLoading, varForm, varSave, varDropping,
                   typedFor, rowsUnsure, varsMade, acts, varFaults>>

\* The list of the project, and the form emptied if it held the variable at the click.
VarDropped(d) ==
    /\ d.at = "done" /\ varDrops' = varDrops \ {d} /\ varDropping' = 0
    /\ varForm' = IF d.editing THEN EmptyForm ELSE varForm
    /\ LoadVars(d.shop, shopPicked)
    /\ UNCHANGED <<varStored, shopPicked, varRows, varSave, typedFor, varsMade, acts, varFaults>>

VarDropFails(d) ==
    /\ varDrops' = varDrops \ {d} /\ varDropping' = 0
    /\ IF d.at = "asked" THEN UNCHANGED <<rowsUnsure, varFaults>>
       ELSE VarFault /\ rowsUnsure' = TRUE
    /\ UNCHANGED <<varStored, shopPicked, varRows, varLists, varsLoading, varForm, varSave,
                   typedFor, varsMade, acts>>

VariablesTabNext ==
    \/ CancelEdit \/ TypeVar \/ SubmitVar \/ StoreVar \/ VarSaved \/ VarSaveFails
    \/ \E s \in Shop : PickShop(s)
    \/ \E q \in varLists : ServeVars(q) \/ VarsArrive(q) \/ VarsFail(q)
    \/ \E r \in varRows : EditVar(r) \/ DropVar(r)
    \/ \E d \in varDrops : RemoveVar(d) \/ VarDropped(d) \/ VarDropFails(d)

VariablesTabSpec == VariablesTabInit /\ [][VariablesTabNext]_variablesTabVars

----------------------------------------------------------------------------
\* What is typed for a project is stored in no other, although rows and form may be another
\* project's; and once nothing is under way the rows are the variables of the project
\* selected, unless two lists crossed, the last was for a project left meanwhile or an answer
\* was lost (EnvironmentVariablesTab.tsx, project-env-vars.ts).
VariablesFit ==
    /\ \A v \in varStored : typedFor[v.content] = v.shop
    /\ (~rowsUnsure /\ varLists = {} /\ varSave = NoVarSave /\ varDrops = {}) =>
            varRows = RowsOf(shopPicked)

=============================================================================
