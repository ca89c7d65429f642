------------------------------ MODULE ProfilePage ------------------------------
(***************************************************************************)
(* The profile tab of the settings and the routes behind it: the name of   *)
(* the user, and the API keys, whose list is asked for again after every   *)
(* change without waiting for the answer.  Keys are numbered as they are   *)
(* made, newest first in the list.                                         *)
(***************************************************************************)
EXTENDS Naturals, FiniteSetsExt

CONSTANTS
    PersonName,       \* names a user may take
    MaxKeys,          \* bound: keys made
    MaxNames,         \* bound: saves of the name
    MaxProfileVisits, \* bound: visits of the tab
    MaxKeyFaults      \* bound: answers that get lost and requests that fail

ASSUME ProfileAssumption ==
    PersonName # {} /\ {MaxKeys, MaxNames, MaxProfileVisits, MaxKeyFaults} \subseteq Nat

VARIABLES
    nameStored, keysStored,        \* users.name, the user's documents of apiKeys
    userName,         \* user.name of the auth context, read as the dashboard loads
    profileOpen, nameTyped, nameSaves,
    keysShown,        \* apiKeys
    keyLists,         \* lists asked for
    keyMaking,        \* POST /api/auth/api-keys, one at a time within a visit
    revoking,         \* DELETE /api/auth/api-keys/:id
    keyInModal,       \* newlyCreatedKey
    \* history
    keysSeen,         \* keys whose text the user has been given
    keysUnseen,       \* keys whose answer was lost, or came when the tab was left
    nameMoved,        \* a save of this load of the dashboard changed the name
    keysVague,        \* an answer was lost or late, or the tab was left under a request
    newestList,       \* the newest list that arrived
    keysMade, namesSaved, profileVisits, keyFaults

profilePageVars == <<nameStored, keysStored, userName, profileOpen, nameTyped, nameSaves,
                     keysShown, keyLists, keyMaking, revoking, keyInModal, keysSeen, keysUnseen,
                     nameMoved, keysVague, newestList, keysMade, namesSaved, profileVisits,
                     keyFaults>>
nameVars == <<nameStored, userName, nameTyped, nameSaves, nameMoved, namesSaved>>
keyPart == <<keysStored, keysShown, keyLists, keyMaking, revoking, keyInModal, keysSeen,
             keysUnseen, keysVague, newestList, keysMade>>

ApiKeyId == 1..MaxKeys

ProfileTypeOK ==
    /\ nameStored \in PersonName /\ userName \in PersonName /\ nameTyped \in PersonName
    /\ \A s \in nameSaves : s.name \in PersonName /\ s.visit \in 1..profileVisits
    /\ keysStored \cup keysShown \cup keysSeen \cup keysUnseen \subseteq ApiKeyId
    /\ profileOpen \in BOOLEAN /\ nameMoved \in BOOLEAN /\ keysVague \in BOOLEAN
    /\ \A q \in keyLists : q.at \in {"asked", "read"} /\ q.found \subseteq ApiKeyId
    /\ \A m \in keyMaking \cup revoking :
            m.at \in {"asked", "done"} /\ m.visit \in 1..profileVisits /\ m.key \in 0..MaxKeys
    /\ keyInModal \in 0..MaxKeys /\ newestList \in Nat
    /\ keysMade \in 0..MaxKeys /\ namesSaved \in 0..MaxNames
    /\ profileVisits \in 0..MaxProfileVisits /\ keyFaults \in 0..MaxKeyFaults

ProfileInit ==
    /\ nameStored = CHOOSE n \in PersonName : TRUE
    /\ userName = nameStored /\ nameTyped = nameStored /\ nameSaves = {}
    /\ profileOpen = FALSE /\ keysStored = {} /\ keysShown = {} /\ keyLists = {}
    /\ keyMaking = {} /\ revoking = {} /\ keyInModal = 0
    /\ keysSeen = {} /\ keysUnseen = {} /\ nameMoved = FALSE /\ keysVague = FALSE
    /\ newestList = 0
    /\ keysMade = 0 /\ namesSaved = 0 /\ profileVisits = 0 /\ keyFaults = 0

KeyFault == keyFaults < MaxKeyFaults /\ keyFaults' = keyFaults + 1

----------------------------------------------------------------------------
\* fetchApiKeys: the lists under way are not withdrawn.
NewestAsked(lists) == Max({newestList} \cup {q.n : q \in lists})
WithList(lists) ==
    lists \cup {[n |-> NewestAsked(lists) + 1, at |-> "asked", found |-> {}]}

\* The tab is opened; what an earlier visit still does is not waited for.
OpenProfile ==
    /\ ~profileOpen /\ profileVisits < MaxProfileVisits
    /\ profileOpen' = TRUE /\ profileVisits' = profileVisits + 1
    /\ nameTyped' = userName /\ keysShown' = {} /\ keyInModal' = 0
    /\ keyLists' = WithList({}) /\ keysVague' = (keyMaking \cup revoking # {})
    /\ UNCHANGED <<nameStored, keysStored, userName, nameSaves, keyMaking, revoking, keysSeen,
                   keysUnseen, nameMoved, newestList, keysMade, namesSaved, keyFaults>>

CloseProfile ==
    /\ profileOpen /\ profileOpen' = FALSE
    /\ keyLists' = {} /\ keyInModal' = 0 /\ keysShown' = {}
    /\ newestList' = NewestAsked(keyLists)
    /\ UNCHANGED <<nameVars, keysStored, keyMaking, revoking, keysSeen, keysUnseen, keysVague,
                   keysMade, profileVisits, keyFaults>>

\* The dashboard is loaded again: the context's user is the stored one.
ReloadDashboard ==
    /\ ~profileOpen /\ nameSaves = {} /\ nameMoved
    /\ userName' = nameStored /\ nameMoved' = FALSE
    /\ UNCHANGED <<nameStored, profileOpen, nameTyped, nameSaves, keyPart, namesSaved,
                   profileVisits, keyFaults>>

TypeName(n) ==
    /\ profileOpen /\ n # nameTyped /\ nameTyped' = n
    /\ UNCHANGED <<nameStored, userName, profileOpen, nameSaves, nameMoved, namesSaved, keyPart,
                   profileVisits, keyFaults>>

\* The button of handleSave: compared with the context's name, not with the stored one.
NameCanBeSaved == nameTyped # userName /\ \A s \in nameSaves : s.visit # profileVisits
SaveName ==
    /\ profileOpen /\ NameCanBeSaved /\ namesSaved < MaxNames
    /\ namesSaved' = namesSaved + 1
    /\ nameSaves' = nameSaves \cup {[name |-> nameTyped, visit |-> profileVisits]}
    /\ UNCHANGED <<nameStored, userName, profileOpen, nameTyped, nameMoved, keyPart,
                   profileVisits, keyFaults>>

\* PATCH /api/auth/profile; the context keeps the name it has, whatever the answer.
NameSaved(s) ==
    /\ nameSaves' = nameSaves \ {s}
    /\ \/ nameStored' = s.name /\ nameMoved' = TRUE /\ UNCHANGED keyFaults
       \/ KeyFault /\ UNCHANGED <<nameStored, nameMoved>>
    /\ UNCHANGED <<userName, profileOpen, nameTyped, namesSaved, keyPart, profileVisits>>

----------------------------------------------------------------------------
\* GET /api/auth/api-keys
ReadKeys(q) ==
    /\ q.at = "asked"
    /\ keyLists' = (keyLists \ {q}) \cup {[q EXCEPT !.at = "read", !.found = keysStored]}
    /\ UNCHANGED <<nameVars, profileOpen, keysStored, keysShown, keyMaking, revoking, keyInModal,
                   keysSeen, keysUnseen, keysVague, newestList, keysMade, profileVisits,
                   keyFaults>>

\* Whatever arrives is shown, an older list after a newer one too.
KeysArrive(q) ==
    /\ q.at = "read" /\ keyLists' = keyLists \ {q} /\ keysShown' = q.found
    /\ newestList' = IF q.n > newestList THEN q.n ELSE newestList
    /\ keysVague' = (keysVague \/ q.n < newestList \/ \E p \in keyLists : p.n < q.n)
    /\ UNCHANGED <<nameVars, profileOpen, keysStored, keyMaking, revoking, keyInModal, keysSeen,
                   keysUnseen, keysMade, profileVisits, keyFaults>>

\* A list that fails leaves the rows as they are, and nobody is told.
KeysFail(q) ==
    /\ KeyFault /\ keyLists' = keyLists \ {q} /\ keysVague' = TRUE
    /\ newestList' = IF q.n > newestList THEN q.n ELSE newestList
    /\ UNCHANGED <<nameVars, profileOpen, keysStored, keysShown, keyMaking, revoking, keyInModal,
                   keysSeen, keysUnseen, keysMade, profileVisits>>

\* handleGenerateKey
GenerateKey ==
    /\ profileOpen /\ keysMade < MaxKeys /\ keysMade' = keysMade + 1
    /\ \A m \in keyMaking : m.visit # profileVisits
    /\ keyMaking' = keyMaking \cup {[at |-> "asked", visit |-> profileVisits, key |-> keysMade']}
    /\ UNCHANGED <<nameVars, profileOpen, keysStored, keysShown, keyLists, revoking, keyInModal,
                   keysSeen, keysUnseen, keysVague, newestList, profileVisits, keyFaults>>

\* createApiKey: only the hash is kept, the answer is the one place the key's text is in.
StoreKey(m) ==
    /\ m.at = "asked" /\ keysStored' = keysStored \cup {m.key}
    /\ keyMaking' = (keyMaking \ {m}) \cup {[m EXCEPT !.at = "done"]}
    /\ UNCHANGED <<nameVars, profileOpen, keysShown, keyLists, revoking, keyInModal, keysSeen,
                   keysUnseen, keysVague, newestList, keysMade, profileVisits, keyFaults>>

InThisVisit(m) == profileOpen /\ m.visit = profileVisits

\* The answer opens the modal and asks for the list; in a tab that was left it does nothing.
KeyGiven(m) ==
    /\ m.at = "done" /\ keyMaking' = keyMaking \ {m}
    /\ IF InThisVisit(m)
       THEN /\ keyInModal' = m.key /\ keysSeen' = keysSeen \cup {m.key}
            /\ keyLists' = WithList(keyLists) /\ UNCHANGED keysUnseen
       ELSE keysUnseen' = keysUnseen \cup {m.key} /\ UNCHANGED <<keyInModal, keysSeen, keyLists>>
    /\ UNCHANGED <<nameVars, profileOpen, keysStored, keysShown, revoking, keysVague, newestList,
                   keysMade, profileVisits, keyFaults>>

\* The request fails, before the key is stored or after it.
KeyLost(m) ==
    /\ KeyFault /\ keyMaking' = keyMaking \ {m} /\ keysVague' = TRUE
    /\ keysUnseen' = keysUnseen \cup {m.key}
    /\ UNCHANGED <<nameVars, profileOpen, keysStored, keysShown, keyLists, revoking, keyInModal,
                   keysSeen, newestList, keysMade, profileVisits>>

CloseKeyModal ==
    /\ keyInModal # 0 /\ keyInModal' = 0
    /\ UNCHANGED <<nameVars, profileOpen, keysStored, keysShown, keyLists, keyMaking, revoking,
                   keysSeen, keysUnseen, keysVague, newestList, keysMade, profileVisits,
                   keyFaults>>

\* handleRevokeKey: the row stays, so it can be revoked again before the answer.
AskRevokeKey(k) ==
    /\ profileOpen
    /\ revoking' = revoking \cup {[at |-> "asked", visit |-> profileVisits, key |-> k]}
    /\ revoking' # revoking
    /\ UNCHANGED <<nameVars, profileOpen, keysStored, keysShown, keyLists, keyMaking, keyInModal,
                   keysSeen, keysUnseen, keysVague, newestList, keysMade, profileVisits,
                   keyFaults>>

\* DELETE /api/auth/api-keys/:id deletes it.
DeleteKey(m) ==
    /\ m.at = "asked" /\ m.key \in keysStored /\ keysStored' = keysStored \ {m.key}
    /\ revoking' = (revoking \ {m}) \cup {[m EXCEPT !.at = "done"]}
    /\ UNCHANGED <<nameVars, profileOpen, keysShown, keyLists, keyMaking, keyInModal, keysSeen,
                   keysUnseen, keysVague, newestList, keysMade, profileVisits, keyFaults>>

\* 404, when it was deleted before: an error, and the list is not asked for.
RevokeRefused(m) ==
    /\ m.at = "asked" /\ m.key \notin keysStored /\ revoking' = revoking \ {m}
    /\ UNCHANGED <<nameVars, profileOpen, keysStored, keysShown, keyLists, keyMaking, keyInModal,
                   keysSeen, keysUnseen, keysVague, newestList, keysMade, profileVisits,
                   keyFaults>>

KeyRevoked(m) ==
    /\ m.at = "done" /\ revoking' = revoking \ {m}
    /\ keyLists' = IF InThisVisit(m) THEN WithList(keyLists) ELSE keyLists
    /\ UNCHANGED <<nameVars, profileOpen, keysStored, keysShown, keyMaking, keyInModal, keysSeen,
                   keysUnseen, keysVague, newestList, keysMade, profileVisits, keyFaults>>

RevokeLost(m) ==
    /\ KeyFault /\ revoking' = revoking \ {m} /\ keysVague' = TRUE
    /\ UNCHANGED <<nameVars, profileOpen, keysStored, keysShown, keyLists, keyMaking, keyInModal,
                   keysSeen, keysUnseen, newestList, keysMade, profileVisits>>

ProfileNext ==
    \/ OpenProfile \/ CloseProfile \/ ReloadDashboard \/ SaveName \/ GenerateKey
    \/ CloseKeyModal
    \/ \E n \in PersonName : TypeName(n)
    \/ \E s \in nameSaves : NameSaved(s)
    \/ \E q \in keyLists : ReadKeys(q) \/ KeysArrive(q) \/ KeysFail(q)
    \/ \E m \in keyMaking : StoreKey(m) \/ KeyGiven(m) \/ KeyLost(m)
    \/ \E k \in keysShown : AskRevokeKey(k)
    \/ \E m \in revoking : DeleteKey(m) \/ RevokeRefused(m) \/ KeyRevoked(m) \/ RevokeLost(m)

ProfileSpec == ProfileInit /\ [][ProfileNext]_profilePageVars

----------------------------------------------------------------------------
\* Once nothing is under way the rows are the keys that open the API, unless an answer was
\* lost or late or the tab was left under a request: no revoked key is listed and no live one
\* is missing.  A live key nobody was given came of such a loss or of leaving the tab.  A name
\* that differs from the stored one can be saved, unless a save since the dashboard was
\* loaded moved it away from the name the button compares with (ProfileTab.tsx, auth.ts).
ProfileFits ==
    /\ (profileOpen /\ ~keysVague /\ keyLists = {} /\ keyMaking = {} /\ revoking = {}) =>
            keysShown = keysStored
    /\ keysStored \ {m.key : m \in keyMaking} \subseteq keysSeen \cup keysUnseen
    /\ keyInModal # 0 => keyInModal \in keysSeen \ keysUnseen
    /\ (nameTyped # nameStored /\ nameSaves = {} /\ ~nameMoved /\ profileOpen) =>
            NameCanBeSaved

=============================================================================
