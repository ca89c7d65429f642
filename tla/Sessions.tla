------------------------------- MODULE Sessions -------------------------------
(***************************************************************************)
(* How a request proves who sends it: session tokens with their            *)
(* revocation in Redis, and API keys.  Time is in seconds, the unit of a   *)
(* token's iat: a session is known to the blacklist by its user and the    *)
(* second it was issued in, and two keys a user creates in one second are  *)
(* the same string.                                                        *)
(*                                                                         *)
(* Redis keeps its keys on disk between snapshots, so a crash may forget   *)
(* some of them.  Left out: the profile endpoints and last-used stamps.    *)
(***************************************************************************)
EXTENDS Naturals, FiniteSets

CONSTANTS
    Account,       \* users
    Life,          \* lifetime of a session (24 h in the code)
    SessionTime,   \* bound: the clock
    MaxIssued,     \* bound: sessions and keys issued
    MaxCrashes     \* bound: Redis crashes

ASSUME SessionsAssumption ==
    /\ Life \in Nat \ {0} /\ SessionTime \in Nat /\ MaxIssued \in Nat /\ MaxCrashes \in Nat

VARIABLES
    time,
    sessions,    \* session tokens issued
    logouts,     \* POST /api/auth/logout between the token check and SETEX
    blacklist,   \* Redis: the revoked users and seconds, with their expiry
    apiKeys,     \* the apiKeys collection
    keysIssued,  \* keys handed out
    removed,     \* accounts that have been deleted
    issued, crashes,
    ended,       \* history: sessions whose logout was answered
    revocations, \* history: keys whose deletion was answered, and who asked for it
    forgotten    \* history: Redis has lost keys

sessionsVars == <<time, sessions, logouts, blacklist, apiKeys, keysIssued, removed,
                  issued, crashes, ended, revocations, forgotten>>
sessionVars == <<sessions, logouts, blacklist, crashes, ended, forgotten>>
keyVars == <<apiKeys, keysIssued, revocations, removed>>

Ticket == [no : Nat, user : Account, iat : Nat]

SessionsTypeOK ==
    /\ time \in 0..SessionTime
    /\ sessions \subseteq Ticket /\ ended \subseteq sessions
    /\ logouts \subseteq [session : Ticket, ttl : Nat]
    /\ blacklist \subseteq [user : Account, iat : Nat, ends : Nat]
    /\ keysIssued \subseteq Ticket /\ apiKeys \subseteq keysIssued
    /\ revocations \subseteq [key : keysIssued, by : Account]
    /\ removed \subseteq Account
    /\ issued \in 0..MaxIssued /\ crashes \in 0..MaxCrashes
    /\ forgotten \in BOOLEAN

SessionsInit ==
    /\ time = 0 /\ sessions = {} /\ logouts = {} /\ blacklist = {}
    /\ apiKeys = {} /\ keysIssued = {} /\ removed = {}
    /\ issued = 0 /\ crashes = 0
    /\ ended = {} /\ revocations = {} /\ forgotten = FALSE

Twins(s, t) == s.user = t.user /\ s.iat = t.iat
Unexpired(s) == time < s.iat + Life
Revoked(s) == \E b \in blacklist : Twins(b, s)

\* verifyToken: signature and expiry, then the blacklist.
Accepted(s) == Unexpired(s) /\ ~Revoked(s)

\* signToken at the end of a login or signup.
Issue ==
    \E u \in Account \ removed :
        /\ issued < MaxIssued /\ issued' = issued + 1
        /\ sessions' = sessions \cup {[no |-> issued, user |-> u, iat |-> time]}
        /\ UNCHANGED <<time, logouts, blacklist, crashes, ended, forgotten, keyVars>>

\* The remaining lifetime is computed before the call to Redis.
BeginLogout ==
    \E s \in sessions \ ended :
        /\ Accepted(s)
        /\ logouts' = logouts \cup {[session |-> s, ttl |-> s.iat + Life - time]}
        /\ UNCHANGED <<time, sessions, blacklist, issued, crashes, ended, forgotten, keyVars>>

\* Mutant of Blacklist: the entry lives for one second.
BlacklistBriefly ==
    \E l \in logouts :
        /\ logouts' = logouts \ {l}
        /\ blacklist' = {b \in blacklist : ~Twins(b, l.session)} \cup
             {[user |-> l.session.user, iat |-> l.session.iat, ends |-> time + 1]}
        /\ ended' = ended \cup {l.session}
        /\ UNCHANGED <<time, sessions, issued, crashes, forgotten, keyVars>>

\* SETEX; when the answer arrives the session has ended.
Blacklist ==
    \E l \in logouts :
        /\ logouts' = logouts \ {l}
        /\ blacklist' = {b \in blacklist : ~Twins(b, l.session)} \cup
             {[user |-> l.session.user, iat |-> l.session.iat, ends |-> time + l.ttl]}
        /\ ended' = ended \cup {l.session}
        /\ UNCHANGED <<time, sessions, issued, crashes, forgotten, keyVars>>

Second ==
    /\ time < SessionTime
    /\ time' = time + 1
    /\ blacklist' = {b \in blacklist : b.ends > time'}
    /\ UNCHANGED <<sessions, logouts, issued, crashes, ended, forgotten, keyVars>>

RedisCrash ==
    /\ crashes < MaxCrashes /\ crashes' = crashes + 1
    /\ blacklist' \in SUBSET blacklist
    /\ forgotten' = (forgotten \/ blacklist' # blacklist)
    /\ UNCHANGED <<time, sessions, logouts, issued, ended, keyVars>>

----------------------------------------------------------------------------
CreateKey ==
    \E s \in sessions :
        LET k == [no |-> issued, user |-> s.user, iat |-> time]
        IN  /\ Accepted(s)
            /\ issued < MaxIssued /\ issued' = issued + 1
            /\ apiKeys' = apiKeys \cup {k} /\ keysIssued' = keysIssued \cup {k}
            /\ UNCHANGED <<time, sessionVars, revocations, removed>>

\* Mutant of RevokeKey: the key is deleted by its id alone, without the user.
RevokeAnyKey ==
    \E k \in apiKeys, s \in sessions :
        /\ Accepted(s)
        /\ apiKeys' = apiKeys \ {k}
        /\ revocations' = revocations \cup {[key |-> k, by |-> s.user]}
        /\ UNCHANGED <<time, sessionVars, keysIssued, removed, issued>>

\* DELETE /api/auth/api-keys/:id deletes the key of this id and the caller; another's,
\* or one that is gone, is not found.
RevokeKey ==
    \E k \in apiKeys, s \in sessions :
        /\ Accepted(s) /\ s.user = k.user
        /\ apiKeys' = apiKeys \ {k}
        /\ revocations' = revocations \cup {[key |-> k, by |-> s.user]}
        /\ UNCHANGED <<time, sessionVars, keysIssued, removed, issued>>

\* validateApiKey: a document with the hash of the key, which twins share, and a
\* user that exists.
KeyAdmits(k) == k.user \notin removed /\ \E d \in apiKeys : Twins(d, k)

RemoveAccount ==
    \E u \in Account \ removed :
        /\ removed' = removed \cup {u}
        /\ UNCHANGED <<time, sessionVars, apiKeys, keysIssued, revocations, issued>>

SessionsNext ==
    \/ Issue \/ BeginLogout \/ Blacklist \/ Second \/ RedisCrash
    \/ CreateKey \/ RevokeKey \/ RemoveAccount

SessionsSpec == SessionsInit /\ [][SessionsNext]_sessionsVars

----------------------------------------------------------------------------
\* One of the users has revoked the key.
KeyRevoked(k, users) == \E u \in users : [key |-> k, by |-> u] \in revocations

\* A logout ends its session for the rest of the token's life, whatever Redis expires
\* meanwhile and unless it lost keys in a crash, and a key that was revoked is refused as
\* x-api-key, unless a twin of it has not been.  Nobody else ends them: a session refused
\* before its time has, or shares user and second with, one that logged out, and a key
\* refused was revoked by its own user, or that user is gone (auth.ts, jwt.ts, apiKeys.ts).
CredentialsEndAlone ==
    /\ \A s \in sessions : Unexpired(s) =>
        /\ s \in ended => ~Accepted(s) \/ forgotten
        /\ ~Accepted(s) => \E t \in ended : Twins(s, t)
    /\ \A k \in keysIssued :
        /\ KeyRevoked(k, Account) /\ KeyAdmits(k) =>
             \E d \in keysIssued : Twins(d, k) /\ ~KeyRevoked(d, Account)
        /\ ~KeyAdmits(k) => k.user \in removed \/ KeyRevoked(k, {k.user})

=============================================================================
