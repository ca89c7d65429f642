-------------------------------- MODULE EnvVars --------------------------------
(***************************************************************************)
(* The environment variables of one project: the handlers that create,     *)
(* change and delete them, and what an execution request injects.  A       *)
(* secret is stored encrypted; the flag and the stored form are two fields *)
(* of the document, and a PUT decides what to write from a document it     *)
(* read before.                                                            *)
(*                                                                         *)
(* Encryption is the flag sealed next to the value: encrypt and decrypt    *)
(* are inverses, and decrypt throws on a value that is not sealed.         *)
(***************************************************************************)
EXTENDS Naturals, FiniteSets

CONSTANTS
    EnvKey,        \* names of variables
    EnvValue,      \* their values
    EnvId,         \* ids of documents, never used again
    MaxVars,       \* MAX_ENV_VARS_PER_PROJECT (50 in the code)
    MaxEnvCalls    \* bound: POST and PUT requests

ASSUME EnvVarsAssumption == MaxVars \in Nat \ {0} /\ MaxEnvCalls \in Nat

VARIABLES
    envVars,     \* the documents of the project
    envPosts,    \* POSTs between the count and the insert
    envPuts,     \* PUTs between the read and the write
    envUsed,     \* ids handed out
    envCalls,
    meant,       \* history: the value a user gave each variable last
    torn,        \* history: variables written by two PUTs that overlapped
    crowded      \* history: two POSTs were between count and insert together

envVarsVars == <<envVars, envPosts, envPuts, envUsed, envCalls, meant, torn, crowded>>

EnvDoc == [id : EnvId, key : EnvKey, value : EnvValue, sealed : BOOLEAN, isSecret : BOOLEAN]
Content == [value : EnvValue, sealed : BOOLEAN]

\* A field a request leaves out is the empty set, a given one a set of one.
Optional(S) == {{}} \cup {{x} : x \in S}
Given(field, otherwise) == IF field = {} THEN otherwise ELSE CHOOSE x \in field : TRUE

EnvVarsTypeOK ==
    /\ envVars \subseteq EnvDoc
    /\ \A c, d \in envVars : c.id = d.id \/ c.key = d.key => c = d
    /\ envPosts \subseteq [call : Nat, key : EnvKey, value : EnvValue, isSecret : BOOLEAN]
    /\ envPuts \subseteq [call : Nat, seen : EnvDoc, key : SUBSET EnvKey, content : SUBSET Content,
                          isSecret : SUBSET BOOLEAN, typed : SUBSET EnvValue]
    /\ envUsed \subseteq EnvId /\ envCalls \in 0..MaxEnvCalls
    /\ meant \in [envUsed -> EnvValue]
    /\ torn \subseteq EnvId /\ crowded \in BOOLEAN

EnvVarsInit ==
    /\ envVars = {} /\ envPosts = {} /\ envPuts = {} /\ envUsed = {} /\ envCalls = 0
    /\ meant = << >> /\ torn = {} /\ crowded = FALSE

EnvCall == envCalls < MaxEnvCalls /\ envCalls' = envCalls + 1

\* POST: the variables are counted.
StartPost(key, value, isSecret) ==
    /\ Cardinality(envVars) < MaxVars
    /\ crowded' = (crowded \/ envPosts # {})
    /\ envPosts' = envPosts \cup
         {[call |-> envCalls, key |-> key, value |-> value, isSecret |-> isSecret]}
    /\ EnvCall
    /\ UNCHANGED <<envVars, envPuts, envUsed, meant, torn>>

\* The unique index on project and key refuses a second variable of that name: 409.
InsertVar ==
    \E p \in envPosts, id \in EnvId \ envUsed :
        /\ envPosts' = envPosts \ {p}
        /\ IF \E d \in envVars : d.key = p.key
           THEN UNCHANGED <<envVars, envUsed, meant>>
           ELSE /\ envVars' = envVars \cup
                     {[id |-> id, key |-> p.key, value |-> p.value,
                       sealed |-> p.isSecret, isSecret |-> p.isSecret]}
                /\ envUsed' = envUsed \cup {id}
                /\ meant' = [i \in envUsed' |-> IF i = id THEN p.value ELSE meant[i]]
        /\ UNCHANGED <<envPuts, envCalls, torn, crowded>>

\* Mutant of Rewritten: the mask of a secret means that nothing changes.
RewrittenIfTyped(d, typed, isSecret) ==
    IF typed # {} THEN {[value |-> Given(typed, d.value), sealed |-> Given(isSecret, d.isSecret)]}
    ELSE {}

\* What a PUT writes to value: the value that was typed, or, when only the flag
\* changes (the mask stands for the value), the old value in its new form.
Rewritten(d, typed, isSecret) ==
    IF typed # {} \/ Given(isSecret, d.isSecret) # d.isSecret
    THEN {[value |-> Given(typed, d.value), sealed |-> Given(isSecret, d.isSecret)]}
    ELSE {}

\* PUT: the document is read, and the update computed.  decrypt throws on a secret
\* that is not sealed: 500.
StartPut(d, key, typed, isSecret) ==
    /\ typed # {} \/ Given(isSecret, d.isSecret) = d.isSecret \/ (d.isSecret => d.sealed)
    /\ envPuts' = envPuts \cup
         {[call |-> envCalls, seen |-> d, key |-> key, isSecret |-> isSecret, typed |-> typed,
           content |-> Rewritten(d, typed, isSecret)]}
    /\ EnvCall
    /\ UNCHANGED <<envVars, envPosts, envUsed, meant, torn, crowded>>

Changed(d, p) ==
    LET c == Given(p.content, [value |-> d.value, sealed |-> d.sealed])
    IN  [id |-> d.id, key |-> Given(p.key, d.key), value |-> c.value, sealed |-> c.sealed,
         isSecret |-> Given(p.isSecret, d.isSecret)]

\* updateOne by _id; a name that is taken is refused by the index.
WritePut ==
    \E p \in envPuts :
        LET id == p.seen.id
        IN  /\ envPuts' = envPuts \ {p}
            /\ IF \E d \in envVars : d.id # id /\ d.key \in p.key
               THEN UNCHANGED <<envVars, meant, torn>>
               ELSE /\ envVars' = {IF d.id = id THEN Changed(d, p) ELSE d : d \in envVars}
                    /\ meant' = [meant EXCEPT ![id] = Given(p.typed, @)]
                    /\ torn' = IF \E q \in envPuts \ {p} : q.seen.id = id
                               THEN torn \cup {id} ELSE torn
            /\ UNCHANGED <<envPosts, envUsed, envCalls, crowded>>

DeleteVar ==
    \E d \in envVars :
        /\ envVars' = envVars \ {d}
        /\ UNCHANGED <<envPosts, envPuts, envUsed, envCalls, meant, torn, crowded>>

Readable(d) == d.isSecret => d.sealed

\* resolveProjectEnvVars: what an execution request may inject.  The documents come
\* in any order; the first that cannot be decrypted ends the loop, and the run goes
\* on with what there is.
Injections ==
    {[vars |-> {[key |-> d.key, value |-> d.value] : d \in done},
      secretKeys |-> {d.key : d \in {e \in done : e.isSecret}}] :
        done \in {s \in SUBSET envVars :
                    /\ \A d \in s : Readable(d)
                    /\ s = envVars \/ \E d \in envVars \ s : ~Readable(d)}}

EnvVarsNext ==
    \/ \E k \in EnvKey, v \in EnvValue, s \in BOOLEAN : StartPost(k, v, s)
    \/ \E d \in envVars, k \in Optional(EnvKey), v \in Optional(EnvValue), s \in Optional(BOOLEAN) :
            StartPut(d, k, v, s)
    \/ InsertVar \/ WritePut \/ DeleteVar

EnvVarsSpec == EnvVarsInit /\ [][EnvVarsNext]_envVarsVars

----------------------------------------------------------------------------
\* Whatever is changed (the name, the value, the secrecy alone), a variable keeps
\* the value a user gave it last and is encrypted exactly when it is a secret; a
\* run then gets all variables of the project, and the names of all its secrets to
\* mask (project-env-vars.ts).  Only PUTs of one variable that overlap break this,
\* and only POSTs that overlap exceed the limit.
EnvVarsKept ==
    /\ \A d \in envVars : d.id \notin torn => d.sealed = d.isSecret /\ d.value = meant[d.id]
    /\ crowded \/ Cardinality(envVars) <= MaxVars
    /\ (\A d \in envVars : d.id \notin torn) =>
            Injections = {[vars |-> {[key |-> d.key, value |-> meant[d.id]] : d \in envVars},
                           secretKeys |-> {d.key : d \in {e \in envVars : e.isSecret}}]}

=============================================================================
