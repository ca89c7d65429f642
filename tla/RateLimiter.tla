----------------------------- MODULE RateLimiter -----------------------------
(***************************************************************************)
(* createRateLimiter for one key (an organization or an address): INCR,    *)
(* PEXPIRE if the counter was created, a comparison with the limit, and in *)
(* both branches PTTL before the answer.  A request whose Redis call       *)
(* throws passes, counted or not.  The window is the life of the key.      *)
(***************************************************************************)
EXTENDS Naturals, FiniteSets

CONSTANTS
    Slot,          \* requests that may be in the middleware at once
    MaxRequests,   \* the limit of a window (config.maxRequests)
    Window,        \* config.windowMs
    LimiterTime,   \* bound: the clock
    MaxArrivals,   \* bound: requests
    MaxErrors      \* bound: Redis errors and restarts of the producer

ASSUME LimiterAssumption ==
    /\ IsFiniteSet(Slot)
    /\ MaxRequests \in Nat \ {0} /\ Window \in Nat \ {0}
    /\ LimiterTime \in Nat /\ MaxArrivals \in Nat /\ MaxErrors \in Nat

VARIABLES
    clock,
    counter,   \* the key, 0 when it does not exist
    ends,      \* when it expires, 0 for never
    slot,      \* the requests in the middleware: the next step, and the count read
    arrivals, errors,
    life,      \* history: how many keys have expired
    passed,    \* history: requests counted in the life of this key and let through
    failed,    \* history: those of them for which a call to Redis threw
    stuck      \* history: the request that had to set the expiry ended before it did

limiterVars == <<clock, counter, ends, slot, arrivals, errors, life, passed, failed, stuck>>

Free == [at |-> "free", seen |-> 0, life |-> 0]

LimiterTypeOK ==
    /\ clock \in 0..LimiterTime
    /\ counter \in Nat /\ ends \in Nat
    /\ slot \in [Slot -> [at : {"free", "incr", "pexpire", "pttl"}, seen : Nat, life : Nat]]
    /\ arrivals \in 0..MaxArrivals /\ errors \in 0..MaxErrors
    /\ life \in Nat /\ passed \in Nat /\ failed \in Nat /\ stuck \in BOOLEAN

LimiterInit ==
    /\ clock = 0 /\ counter = 0 /\ ends = 0
    /\ slot = [s \in Slot |-> Free]
    /\ arrivals = 0 /\ errors = 0 /\ life = 0 /\ passed = 0 /\ failed = 0
    /\ stuck = FALSE

Arrive(s) ==
    /\ slot[s].at = "free" /\ arrivals < MaxArrivals
    /\ arrivals' = arrivals + 1
    /\ slot' = [slot EXCEPT ![s].at = "incr"]
    /\ UNCHANGED <<clock, counter, ends, errors, life, passed, failed, stuck>>

\* The request was counted in the life the key has.
InWindow(s) == slot[s].at \in {"pexpire", "pttl"} /\ slot[s].life = life

\* INCR creates the key, or counts in the life it has.
Incr(s) ==
    /\ slot[s].at = "incr"
    /\ counter' = counter + 1
    /\ slot' = [slot EXCEPT ![s] = [at |-> IF counter = 0 THEN "pexpire" ELSE "pttl",
                                    seen |-> counter + 1, life |-> life]]
    /\ UNCHANGED <<clock, ends, arrivals, errors, life, passed, failed, stuck>>

\* Only the request that created the key sets its expiry.
PExpire(s) ==
    /\ slot[s].at = "pexpire"
    /\ ends' = clock + Window
    /\ slot' = [slot EXCEPT ![s].at = "pttl"]
    /\ UNCHANGED <<clock, counter, arrivals, errors, life, passed, failed, stuck>>

\* Mutant of Over: the limit itself is refused one request late.
OverByOne(s) == slot[s].seen > MaxRequests + 1

Over(s) == slot[s].seen > MaxRequests

\* PTTL answers: 429, or on to the handler.
Decide(s) ==
    /\ slot[s].at = "pttl"
    /\ passed' = IF InWindow(s) /\ ~Over(s) THEN passed + 1 ELSE passed
    /\ slot' = [slot EXCEPT ![s] = Free]
    /\ UNCHANGED <<clock, counter, ends, arrivals, errors, life, failed, stuck>>

\* A call to Redis throws and was not executed, and the request passes: not counted,
\* counted without the expiry it was to set (nobody else will), or over the limit.  After
\* a PEXPIRE that was executed it passes as after a failed PTTL.
RedisError(s) ==
    /\ slot[s].at # "free" /\ errors < MaxErrors
    /\ errors' = errors + 1
    /\ stuck' = (stuck \/ slot[s].at = "pexpire")
    /\ passed' = IF InWindow(s) THEN passed + 1 ELSE passed
    /\ failed' = IF InWindow(s) THEN failed + 1 ELSE failed
    /\ slot' = [slot EXCEPT ![s] = Free]
    /\ UNCHANGED <<clock, counter, ends, arrivals, life>>

\* It throws after INCR was executed: the request passes, and a key it made stays.
IncrAnswerLost(s) ==
    /\ slot[s].at = "incr" /\ errors < MaxErrors
    /\ errors' = errors + 1
    /\ counter' = counter + 1 /\ stuck' = (stuck \/ counter = 0)
    /\ passed' = passed + 1 /\ failed' = failed + 1
    /\ slot' = [slot EXCEPT ![s] = Free]
    /\ UNCHANGED <<clock, ends, arrivals, life>>

\* The producer restarts: the requests in progress are gone, the key is not.
Restart ==
    /\ errors < MaxErrors
    /\ errors' = errors + 1
    /\ stuck' = (stuck \/ \E s \in Slot : slot[s].at = "pexpire")
    /\ slot' = [s \in Slot |-> Free]
    /\ UNCHANGED <<clock, counter, ends, arrivals, life, passed, failed>>

\* A key that expires takes its window with it.
Elapse ==
    /\ clock < LimiterTime
    /\ clock' = clock + 1
    /\ IF ends = clock'
       THEN /\ counter' = 0 /\ ends' = 0 /\ passed' = 0 /\ failed' = 0 /\ life' = life + 1
       ELSE UNCHANGED <<counter, ends, passed, failed, life>>
    /\ UNCHANGED <<slot, arrivals, errors, stuck>>

SlotStep(s) ==
    \/ Arrive(s) \/ Incr(s) \/ PExpire(s) \/ Decide(s)
    \/ RedisError(s) \/ IncrAnswerLost(s)

LimiterNext == Elapse \/ Restart \/ \E s \in Slot : SlotStep(s)

LimiterSpec == LimiterInit /\ [][LimiterNext]_limiterVars

----------------------------------------------------------------------------
\* A window lets through no more requests than the limit and one more for each request
\* for which a call to Redis threw (the limiter fails open), and it ends: a counter that exists
\* expires one window later at the latest, or the request that created it is about to see
\* to it.  Only if that request failed is the key there for ever, and its owner limited
\* for good (rateLimiter.ts promises a retryAfter).
WindowKept ==
    /\ passed <= MaxRequests + failed
    /\ counter > 0 => \/ ends > clock /\ ends <= clock + Window
                      \/ \E s \in Slot : slot[s].at = "pexpire"
                      \/ stuck

=============================================================================
