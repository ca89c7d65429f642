------------------------------ MODULE LoginLock ------------------------------
(***************************************************************************)
(* The login lock of one e-mail address: the counter of failures and the   *)
(* lock, two Redis keys with a TTL, and the login attempts that read and   *)
(* write them.  An attempt checks the lock, judges the password, and then  *)
(* increments, expires and locks (or deletes both keys) in one Redis call  *)
(* after the other, while other attempts run.                              *)
(*                                                                         *)
(* An unknown address goes the same way as a wrong password.  A failure    *)
(* after the judgement (a Redis error answers 500) leaves the rest undone. *)
(***************************************************************************)
EXTENDS Naturals, FiniteSets

CONSTANTS
    Attempt,       \* login requests that may be in progress at once
    Threshold,     \* failures that lock (5 in the code)
    Ttl,           \* lifetime of both keys (900 s in the code)
    LockTime,      \* bound: the clock
    MaxLogins,     \* bound: attempts
    MaxExceptions  \* bound: attempts ended by an exception

ASSUME LockAssumption ==
    /\ IsFiniteSet(Attempt)
    /\ Threshold \in Nat \ {0} /\ Ttl \in Nat \ {0}
    /\ LockTime \in Nat /\ MaxLogins \in Nat /\ MaxExceptions \in Nat

VARIABLES
    now,
    count,      \* login_failures, 0 when the key does not exist
    countEnds,  \* when it expires, 0 for never
    lockEnds,   \* when login_lock expires, 0 when the key does not exist
    attempt,    \* the attempts in progress: the next call, and the count read
    logins, exceptions,
    guesses,    \* history: passwords judged wrong since a lock ended or the count was reset
    strayed     \* history: an attempt ended between judgement and lock

lockVars == <<now, count, countEnds, lockEnds, attempt, logins, exceptions, guesses, strayed>>
keys == <<count, countEnds, lockEnds>>

Stage == {"idle", "judge", "incr", "expire", "lock", "reset", "unlock"}

LockTypeOK ==
    /\ now \in 0..LockTime
    /\ count \in Nat /\ countEnds \in Nat /\ lockEnds \in Nat
    /\ attempt \in [Attempt -> [at : Stage, seen : Nat]]
    /\ logins \in 0..MaxLogins /\ exceptions \in 0..MaxExceptions
    /\ guesses \in Nat /\ strayed \in BOOLEAN

Idle == [at |-> "idle", seen |-> 0]

LockInit ==
    /\ now = 0 /\ count = 0 /\ countEnds = 0 /\ lockEnds = 0
    /\ attempt = [a \in Attempt |-> Idle]
    /\ logins = 0 /\ exceptions = 0 /\ guesses = 0 /\ strayed = FALSE

At(a, step) == attempt[a].at = step
Goto(a, step) == attempt' = [attempt EXCEPT ![a].at = step]

\* Mutant of CheckLock: the lock is not consulted.
CheckNothing(a) ==
    /\ At(a, "idle") /\ logins < MaxLogins
    /\ Goto(a, "judge")
    /\ logins' = logins + 1
    /\ UNCHANGED <<now, keys, exceptions, guesses, strayed>>

\* redis.exists(lockKey); a locked account is answered with 429.
CheckLock(a) ==
    /\ At(a, "idle") /\ logins < MaxLogins /\ lockEnds = 0
    /\ Goto(a, "judge")
    /\ logins' = logins + 1
    /\ UNCHANGED <<now, keys, exceptions, guesses, strayed>>

\* findOne and comparePassword.
JudgeWrong(a) ==
    /\ At(a, "judge")
    /\ Goto(a, "incr")
    /\ guesses' = guesses + 1
    /\ UNCHANGED <<now, keys, logins, exceptions, strayed>>

JudgeRight(a) ==
    /\ At(a, "judge")
    /\ Goto(a, "reset")
    /\ UNCHANGED <<now, keys, logins, exceptions, guesses, strayed>>

\* INCR keeps the TTL the key has.
Increment(a) ==
    /\ At(a, "incr")
    /\ count' = count + 1
    /\ attempt' = [attempt EXCEPT ![a] = [at |-> "expire", seen |-> count + 1]]
    /\ UNCHANGED <<now, countEnds, lockEnds, logins, exceptions, guesses, strayed>>

\* EXPIRE on the counter, which may have been deleted meanwhile.
Expire(a) ==
    /\ At(a, "expire")
    /\ countEnds' = IF count = 0 THEN 0 ELSE now + Ttl
    /\ Goto(a, IF attempt[a].seen >= Threshold THEN "lock" ELSE "idle")
    /\ UNCHANGED <<now, count, lockEnds, logins, exceptions, guesses, strayed>>

\* The count returned by INCR decides, whatever the counter is now.
Lock(a) ==
    /\ At(a, "lock")
    /\ lockEnds' = now + Ttl
    /\ Goto(a, "idle")
    /\ UNCHANGED <<now, count, countEnds, logins, exceptions, guesses, strayed>>

\* A right password deletes the counter and then the lock, even one that was set
\* after this attempt looked.
ResetCount(a) ==
    /\ At(a, "reset")
    /\ count' = 0 /\ countEnds' = 0 /\ guesses' = 0
    /\ Goto(a, "unlock")
    /\ UNCHANGED <<now, lockEnds, logins, exceptions, strayed>>

Unlock(a) ==
    /\ At(a, "unlock")
    /\ lockEnds' = 0
    /\ guesses' = 0
    /\ Goto(a, "idle")
    /\ UNCHANGED <<now, count, countEnds, logins, exceptions, strayed>>

\* An exception ends the attempt.
AttemptFails(a) ==
    /\ ~At(a, "idle") /\ exceptions < MaxExceptions
    /\ exceptions' = exceptions + 1
    /\ strayed' = (strayed \/ attempt[a].at \in {"incr", "expire", "lock"})
    /\ Goto(a, "idle")
    /\ UNCHANGED <<now, keys, logins, guesses>>

\* Redis drops what has expired.
Tick ==
    /\ now < LockTime
    /\ now' = now + 1
    /\ IF countEnds = now' THEN count' = 0 /\ countEnds' = 0 ELSE UNCHANGED <<count, countEnds>>
    /\ lockEnds' = IF lockEnds = now' THEN 0 ELSE lockEnds
    /\ guesses' = IF countEnds = now' \/ lockEnds = now' THEN 0 ELSE guesses
    /\ UNCHANGED <<attempt, logins, exceptions, strayed>>

Proceed(a) ==
    \/ CheckLock(a) \/ JudgeWrong(a) \/ JudgeRight(a) \/ Increment(a) \/ Expire(a)
    \/ Lock(a) \/ ResetCount(a) \/ Unlock(a) \/ AttemptFails(a)

LockNext == Tick \/ \E a \in Attempt : Proceed(a)

LockSpec == LockInit /\ [][LockNext]_lockVars

----------------------------------------------------------------------------
\* The lock allows five failures (auth.ts).  From one reset, expiry or end of a
\* lock to the next, no more passwords are judged wrong than that and one for
\* every other attempt that was under way when the lock was set, unless an
\* attempt ended by an exception before it had set the lock.
GuessesBounded == strayed \/ guesses < Threshold + Cardinality(Attempt)

=============================================================================
