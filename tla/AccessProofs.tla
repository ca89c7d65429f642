---------------------------- MODULE AccessProofs ----------------------------
(***************************************************************************)
(* Proofs about what lets a request in: the rate limiter, the login lock,  *)
(* the credentials, and the plan with its limits, for any constants.       *)
(*                                                                         *)
(* Rate limiter. Passing collects the requests that have been counted in   *)
(* the life of the key and will be let through. Together with those that   *)
(* were, but for those that a Redis error let through,                    *)
(* they never outnumber the counter, nor the limit (Room). Timed says who  *)
(* is responsible for the end of the window.                               *)
(*                                                                         *)
(* Login lock. A wrong password is first a step of an attempt and then a   *)
(* number in the counter. Uncounted holds the attempts between the two,    *)
(* Accused those whose failure will reach the lock or has yet to be        *)
(* counted, Judging those that may still add a wrong password. While there *)
(* is no lock the guesses beyond the threshold are those of Accused; once  *)
(* there is one, nobody joins Judging.                                     *)
(*                                                                         *)
(* Credentials. An entry of the blacklist outlives the tokens it revokes   *)
(* (Outlived), because a lifetime computed early can only be too long.     *)
(* Owned follows an API key to the revocation by its user.                 *)
(*                                                                         *)
(* Limits. Reserved counts the requests between check and insert as if     *)
(* they had been served: what is created and what is about to be fits the  *)
(* plan.                                                                   *)
(*                                                                         *)
(* Plan. Followed says what the webhook can still put right: the document  *)
(* is what Stripe holds, or the event that says so has yet to be           *)
(* delivered. It needs that there is one customer and at most one live     *)
(* subscription, that nothing later than a pending event was written       *)
(* (InTurn), and that the events of the last moment agree with each other  *)
(* and with Stripe (UpToDate). Billed and Counted are what the types need: *)
(* who an event is for, and when it was emitted.                           *)
(***************************************************************************)
EXTENDS RateLimiter, LoginLock, Sessions, Subscription, FiniteSetTheorems, TLAPS

----------------------------------------------------------------------------
(***************************************************************************)
(* RateLimiter.                                                            *)
(***************************************************************************)
Passing == {s \in Slot : InWindow(s) /\ ~Over(s)}

Room ==
    /\ passed + Cardinality(Passing) <= counter + failed
    /\ passed + Cardinality(Passing) <= MaxRequests + failed
    /\ \A s \in Slot : slot[s].life <= life

\* At most one request has an expiry to set, and the key has none till then.
Timed ==
    /\ \A s \in Slot : slot[s].at = "pexpire" => ends = 0 /\ counter > 0
    /\ \A s, r \in Slot : slot[s].at = "pexpire" /\ slot[r].at = "pexpire" => s = r
    /\ ends # 0 => counter > 0 /\ ends > clock /\ ends <= clock + Window
    /\ counter > 0 => \/ ends # 0
                      \/ \E s \in Slot : slot[s].at = "pexpire"
                      \/ stuck

LimiterInv == LimiterTypeOK /\ Room /\ Timed

LEMMA PassingFinite ==
    IsFiniteSet(Passing) /\ Cardinality(Passing) \in Nat
<1>1. IsFiniteSet(Passing)
  BY LimiterAssumption, FS_Subset DEF Passing
<1> QED BY <1>1, FS_CardinalityType

LEMMA LimiterStarts == LimiterInit => LimiterInv
<1> SUFFICES ASSUME LimiterInit PROVE LimiterInv
  OBVIOUS
<1> USE LimiterAssumption DEF LimiterInit, Free
<1>1. LimiterTypeOK
  <2>1. \A s \in Slot : slot[s] \in [at : {"free", "incr", "pexpire", "pttl"},
                                   seen : Nat, life : Nat]
    OBVIOUS
  <2>2. slot \in [Slot -> [at : {"free", "incr", "pexpire", "pttl"}, seen : Nat, life : Nat]]
    BY <2>1
  <2>3. stuck \in BOOLEAN
    OBVIOUS
  <2>4. /\ clock \in 0..LimiterTime /\ arrivals \in 0..MaxArrivals /\ errors \in 0..MaxErrors
        /\ counter \in Nat /\ ends \in Nat /\ life \in Nat /\ passed \in Nat
        /\ failed \in Nat
    OBVIOUS
  <2> QED BY <2>2, <2>3, <2>4 DEF LimiterTypeOK
<1>2. Passing = {}
  BY DEF Passing, InWindow
<1>3. Room
  BY <1>2, FS_EmptySet DEF Room
<1>4. Timed
  BY DEF Timed
<1> QED BY <1>1, <1>3, <1>4 DEF LimiterInv

LEMMA LimiterTyped ==
    ASSUME LimiterTypeOK, [LimiterNext]_limiterVars
    PROVE  LimiterTypeOK'
<1> USE LimiterAssumption DEF LimiterTypeOK, Free
<1>1. ASSUME NEW s \in Slot, Arrive(s) PROVE LimiterTypeOK'
  BY <1>1 DEF Arrive
<1>2. ASSUME NEW s \in Slot, Incr(s) PROVE LimiterTypeOK'
  BY <1>2 DEF Incr
<1>3. ASSUME NEW s \in Slot, PExpire(s) PROVE LimiterTypeOK'
  BY <1>3 DEF PExpire
<1>4. ASSUME NEW s \in Slot, Decide(s) PROVE LimiterTypeOK'
  BY <1>4 DEF Decide
<1>5. ASSUME NEW s \in Slot, RedisError(s) PROVE LimiterTypeOK'
  BY <1>5 DEF RedisError
<1>9. ASSUME NEW s \in Slot, IncrAnswerLost(s) PROVE LimiterTypeOK'
  BY <1>9 DEF IncrAnswerLost
<1>6. CASE Restart
  <2>1. slot' \in [Slot -> {Free}]
    BY <1>6 DEF Restart
  <2>2. slot' \in [Slot -> [at : {"free", "incr", "pexpire", "pttl"}, seen : Nat, life : Nat]]
    BY <2>1
  <2>3. stuck' \in BOOLEAN
    BY <1>6 DEF Restart
  <2> QED BY <1>6, <2>2, <2>3 DEF Restart
<1>7. CASE Elapse
  BY <1>7 DEF Elapse
<1>8. CASE UNCHANGED limiterVars
  BY <1>8 DEF limiterVars
<1> QED BY <1>1, <1>2, <1>3, <1>4, <1>5, <1>6, <1>7, <1>8, <1>9 DEF LimiterNext, SlotStep

\* Nobody but the slot that moves enters or leaves Passing.
LEMMA OthersStay ==
    ASSUME LimiterTypeOK, NEW s \in Slot, NEW r, slot' = [slot EXCEPT ![s] = r], life' = life
    PROVE  Passing' \ {s} = Passing \ {s}
  BY DEF Passing, InWindow, LimiterTypeOK, Over

LEMMA Apart ==
    ASSUME NEW X, NEW Y, NEW s, X \ {s} = Y \ {s}, s \notin X, s \notin Y
    PROVE  X = Y
<1>1. X = X \ {s} /\ Y = Y \ {s}
  OBVIOUS
<1> QED BY <1>1

\* The counter is the rank of the request that incremented it, so a request within
\* the limit finds room for itself.
LEMMA RoomKept ==
    ASSUME LimiterInv, LimiterTypeOK', [LimiterNext]_limiterVars
    PROVE  Room'
<1> USE LimiterAssumption, PassingFinite DEF LimiterInv, Room, LimiterTypeOK
<1>1. ASSUME NEW s \in Slot, Arrive(s) PROVE Room'
  <2>1. Passing' = Passing
    BY <1>1 DEF Arrive, Passing, InWindow, Over
  <2> QED BY <1>1, <2>1 DEF Arrive
<1>2. ASSUME NEW s \in Slot, Incr(s) PROVE Room'
  <2>1. s \notin Passing
    BY <1>2 DEF Incr, Passing, InWindow
  <2>2. Passing' \ {s} = Passing
    BY <1>2, <2>1, OthersStay DEF Incr
  <2>3. \A r \in Slot : slot'[r].life <= life'
    BY <1>2 DEF Incr
  <2>4. CASE counter + 1 <= MaxRequests
    <3>1. s \in Passing'
      BY <1>2, <2>4 DEF Incr, Passing, InWindow, Over
    <3>2. Passing' = Passing \cup {s}
      BY <2>2, <3>1
    <3>3. Cardinality(Passing') = Cardinality(Passing) + 1
      BY <2>1, <3>2, FS_AddElement
    <3> QED BY <1>2, <2>3, <2>4, <3>3 DEF Incr
  <2>5. CASE counter + 1 > MaxRequests
    <3>1. s \notin Passing'
      BY <1>2, <2>5 DEF Incr, Passing, InWindow, Over
    <3>2. Passing' = Passing
      BY <2>2, <3>1
    <3> QED BY <1>2, <2>3, <3>2 DEF Incr
  <2> QED BY <2>4, <2>5
<1>3. ASSUME NEW s \in Slot, PExpire(s) PROVE Room'
  <2>1. Passing' = Passing
    BY <1>3 DEF PExpire, Passing, InWindow, Over
  <2> QED BY <1>3, <2>1 DEF PExpire
<1>4. ASSUME NEW s \in Slot, Decide(s) PROVE Room'
  <2>1. s \notin Passing' /\ slot' = [slot EXCEPT ![s] = Free] /\ life' = life
    BY <1>4 DEF Decide, Passing, InWindow, Free
  <2>2. Passing' = Passing \ {s}
    BY <2>1, OthersStay
  <2>3. s \in Passing <=> InWindow(s) /\ ~Over(s)
    BY DEF Passing
  <2>4. Cardinality(Passing') = IF s \in Passing THEN Cardinality(Passing) - 1
                                 ELSE Cardinality(Passing)
    BY ONLY <2>2, PassingFinite, FS_RemoveElement
  <2>5. passed' = IF s \in Passing THEN passed + 1 ELSE passed
    BY <1>4, <2>3 DEF Decide
  <2>6. passed' + Cardinality(Passing') = passed + Cardinality(Passing)
    BY <2>4, <2>5
  <2> QED BY <1>4, <2>6 DEF Decide, Free
<1>5. ASSUME NEW s \in Slot, RedisError(s) PROVE Room'
  <2>1. s \notin Passing' /\ slot' = [slot EXCEPT ![s] = Free] /\ life' = life
    BY <1>5 DEF RedisError, Passing, InWindow, Free
  <2>2. Passing' = Passing \ {s}
    BY <2>1, OthersStay
  <2>3. s \in Passing <=> InWindow(s) /\ ~(slot[s].seen > MaxRequests)
    BY DEF Passing, Over
  <2>4. Cardinality(Passing') = IF s \in Passing THEN Cardinality(Passing) - 1
                                 ELSE Cardinality(Passing)
    BY ONLY <2>2, PassingFinite, FS_RemoveElement
  <2>5. /\ s \in Passing => passed' = passed + 1 /\ failed' = failed + 1
        /\ s \notin Passing => \/ passed' = passed /\ failed' = failed
                               \/ passed' = passed + 1 /\ failed' = failed + 1
    BY <1>5, <2>3 DEF RedisError
  <2>6. /\ passed' + Cardinality(Passing') <= counter + failed'
        /\ passed' + Cardinality(Passing') <= MaxRequests + failed'
    BY <2>4, <2>5
  <2> QED BY <1>5, <2>6 DEF RedisError, Free
<1>9. ASSUME NEW s \in Slot, IncrAnswerLost(s) PROVE Room'
  <2>1. /\ s \notin Passing /\ s \notin Passing'
        /\ slot' = [slot EXCEPT ![s] = Free] /\ life' = life
    BY <1>9 DEF IncrAnswerLost, Passing, InWindow, Free
  <2>2. Passing' \ {s} = Passing \ {s}
    BY <2>1, OthersStay
  <2>5. Passing' = Passing
    BY ONLY <2>1, <2>2, Apart
  <2>3. /\ counter' = counter + 1 /\ passed' = passed + 1
        /\ failed' = failed + 1
    BY <1>9 DEF IncrAnswerLost
  <2>4. /\ passed' + Cardinality(Passing') <= counter' + failed'
        /\ passed' + Cardinality(Passing') <= MaxRequests + failed'
    BY <2>5, <2>3
  <2> QED BY <1>9, <2>4 DEF IncrAnswerLost, Free
<1>6. CASE Restart
  <2>1. Passing' = {}
    BY <1>6 DEF Restart, Passing, InWindow, Free
  <2>2. Cardinality(Passing') = 0
    BY <2>1, FS_EmptySet
  <2>3. /\ passed' + Cardinality(Passing') <= counter' + failed'
        /\ passed' + Cardinality(Passing') <= MaxRequests + failed'
    BY <1>6, <2>2 DEF Restart
  <2>4. \A s \in Slot : slot'[s].life <= life'
    BY <1>6 DEF Restart, Free
  <2> QED BY <2>3, <2>4
<1>7. CASE Elapse
  <2>1. CASE ends = clock'
    <3>1. Passing' = {}
      BY <1>7, <2>1 DEF Elapse, Passing, InWindow
    <3>2. Cardinality(Passing') = 0
      BY <3>1, FS_EmptySet
    <3> QED BY <1>7, <2>1, <3>2 DEF Elapse
  <2>2. CASE ends # clock'
    <3>1. Passing' = Passing
      BY <1>7, <2>2 DEF Elapse, Passing, InWindow, Over
    <3> QED BY <1>7, <2>2, <3>1 DEF Elapse
  <2> QED BY <2>1, <2>2
<1>8. CASE UNCHANGED limiterVars
  <2>1. Passing' = Passing
    BY <1>8 DEF limiterVars, Passing, InWindow, Over
  <2> QED BY <1>8, <2>1 DEF limiterVars
<1> QED BY <1>1, <1>2, <1>3, <1>4, <1>5, <1>6, <1>7, <1>8, <1>9 DEF LimiterNext, SlotStep

\* A key is only removed by its expiry, and only the request that created it sets
\* that, so nobody sets the expiry of a key it did not create.
LEMMA TimedKept ==
    ASSUME LimiterInv, LimiterTypeOK', [LimiterNext]_limiterVars
    PROVE  Timed'
<1> USE LimiterAssumption DEF LimiterInv, Timed, LimiterTypeOK, Free
<1>1. ASSUME NEW s \in Slot, Arrive(s) PROVE Timed'
  BY <1>1 DEF Arrive
<1>2. ASSUME NEW s \in Slot, Incr(s) PROVE Timed'
  BY <1>2 DEF Incr
<1>3. ASSUME NEW s \in Slot, PExpire(s) PROVE Timed'
  BY <1>3 DEF PExpire
<1>4. ASSUME NEW s \in Slot, Decide(s) PROVE Timed'
  BY <1>4 DEF Decide
<1>5. ASSUME NEW s \in Slot, RedisError(s) PROVE Timed'
  BY <1>5 DEF RedisError
<1>9. ASSUME NEW s \in Slot, IncrAnswerLost(s) PROVE Timed'
  <2>1. /\ slot[s].at = "incr" /\ slot' = [slot EXCEPT ![s] = Free]
        /\ counter' = counter + 1 /\ stuck' = (stuck \/ counter = 0)
        /\ UNCHANGED <<clock, ends>>
    BY <1>9 DEF IncrAnswerLost
  <2>2. \A r \in Slot : slot'[r].at = "pexpire" <=> slot[r].at = "pexpire"
    BY <2>1
  <2>3. CASE counter = 0
    <3>1. \A r \in Slot : slot'[r].at # "pexpire"
      BY <2>2, <2>3
    <3>2. ends' = 0 /\ counter' = 1
      BY <2>1, <2>3
    <3>3. stuck'
      BY ONLY <2>1, <2>3, Zenon
    <3> QED BY ONLY <3>1, <3>2, <3>3 DEF Timed
  <2>4. CASE counter # 0
    BY <2>1, <2>2, <2>4
  <2> QED BY <2>3, <2>4
<1>6. CASE Restart
  BY <1>6 DEF Restart
<1>7. CASE Elapse
  BY <1>7 DEF Elapse
<1>8. CASE UNCHANGED limiterVars
  BY <1>8 DEF limiterVars
<1> QED BY <1>1, <1>2, <1>3, <1>4, <1>5, <1>6, <1>7, <1>8, <1>9 DEF LimiterNext, SlotStep

LEMMA LimiterKept == LimiterInv /\ [LimiterNext]_limiterVars => LimiterInv'
  BY LimiterTyped, RoomKept, TimedKept DEF LimiterInv

\* Room and Timed hold in every state, whatever errors and restarts occur.
THEOREM LimiterInvariant == LimiterSpec => []LimiterInv
<1> QED BY LimiterStarts, LimiterKept, PTL DEF LimiterSpec

\* The rate limiter (rateLimiter.ts): however requests interleave between INCR, PEXPIRE
\* and PTTL, and whichever of these throw, a window admits no more than the limit and the
\* requests whose call to Redis threw; and it ends, unless the request that created the
\* counter failed before it set the expiry.
THEOREM WindowIsKept == LimiterSpec => []WindowKept
<1>1. LimiterInv => WindowKept
  <2> SUFFICES ASSUME LimiterInv PROVE WindowKept
    OBVIOUS
  <2>1. passed <= MaxRequests + failed
    BY PassingFinite, LimiterAssumption DEF LimiterInv, Room, LimiterTypeOK
  <2>2. counter > 0 => \/ ends > clock /\ ends <= clock + Window
                       \/ \E s \in Slot : slot[s].at = "pexpire"
                       \/ stuck
    BY DEF LimiterInv, Timed
  <2> QED BY <2>1, <2>2 DEF WindowKept
<1> QED BY LimiterInvariant, <1>1, PTL

----------------------------------------------------------------------------
(***************************************************************************)
(* LoginLock.                                                              *)
(***************************************************************************)
Uncounted == {a \in Attempt : At(a, "incr")}

Accused == {a \in Attempt : \/ At(a, "incr") \/ At(a, "lock")
                            \/ At(a, "expire") /\ attempt[a].seen >= Threshold}

Judging == {a \in Attempt : At(a, "judge")}

Bounded ==
    /\ guesses <= count + Cardinality(Uncounted)
    /\ lockEnds = 0 => guesses < Threshold + Cardinality(Accused)
    /\ lockEnds # 0 => guesses + Cardinality(Judging) < Threshold + Cardinality(Attempt)

LockInv == LockTypeOK /\ (strayed \/ Bounded)

LEMMA Counting ==
    /\ Cardinality(Attempt) \in Nat
    /\ \A S \in SUBSET Attempt : IsFiniteSet(S) /\ Cardinality(S) \in Nat
<1>1. \A S \in SUBSET Attempt : IsFiniteSet(S)
  BY LockAssumption, FS_Subset
<1> QED BY <1>1, FS_CardinalityType

Unit(p) == IF p THEN 1 ELSE 0

LEMMA OneMoves ==
    ASSUME NEW S \in SUBSET Attempt, NEW T \in SUBSET Attempt, NEW a \in Attempt,
           T \ {a} = S \ {a}
    PROVE  Cardinality(T) = Cardinality(S) + Unit(a \in T) - Unit(a \in S)
<1>1. CASE a \in T /\ a \notin S
  <2>1. T = S \cup {a}
    BY <1>1
  <2> QED BY <1>1, <2>1, Counting, FS_AddElement DEF Unit
<1>2. CASE a \notin T /\ a \in S
  <2>1. T = S \ {a}
    BY <1>2
  <2> QED BY <1>2, <2>1, Counting, FS_RemoveElement DEF Unit
<1>3. CASE a \in T <=> a \in S
  <2>1. T = S
    BY <1>3
  <2> QED BY <1>3, <2>1, Counting DEF Unit
<1> QED BY <1>1, <1>2, <1>3

\* An attempt that moves counts for itself; the others keep their place.
LEMMA Moves ==
    ASSUME NEW a \in Attempt, \A b \in Attempt \ {a} : attempt'[b] = attempt[b]
    PROVE  /\ Cardinality(Uncounted') =
                  Cardinality(Uncounted) + Unit(a \in Uncounted') - Unit(a \in Uncounted)
           /\ Cardinality(Accused') =
                  Cardinality(Accused) + Unit(a \in Accused') - Unit(a \in Accused)
           /\ Cardinality(Judging') =
                  Cardinality(Judging) + Unit(a \in Judging') - Unit(a \in Judging)
<1>1. /\ Uncounted \in SUBSET Attempt /\ Uncounted' \in SUBSET Attempt
      /\ Accused \in SUBSET Attempt /\ Accused' \in SUBSET Attempt
      /\ Judging \in SUBSET Attempt /\ Judging' \in SUBSET Attempt
  BY DEF Uncounted, Accused, Judging
<1>2. /\ Uncounted' \ {a} = Uncounted \ {a}
      /\ Accused' \ {a} = Accused \ {a}
      /\ Judging' \ {a} = Judging \ {a}
  BY DEF Uncounted, Accused, Judging, At
<1> QED BY <1>1, <1>2, OneMoves

LEMMA Numbers ==
    /\ Cardinality(Attempt) \in Nat
    /\ Cardinality(Uncounted) \in Nat /\ Cardinality(Accused) \in Nat
    /\ Cardinality(Judging) \in Nat
<1>1. /\ Uncounted \in SUBSET Attempt /\ Accused \in SUBSET Attempt
      /\ Judging \in SUBSET Attempt
  BY DEF Uncounted, Accused, Judging
<1> QED BY <1>1, Counting

\* Who is not yet counted is accused.
LEMMA UncountedAccused == Cardinality(Uncounted) <= Cardinality(Accused)
<1>1. Uncounted \in SUBSET Accused /\ Accused \in SUBSET Attempt
  BY DEF Uncounted, Accused
<1> QED BY <1>1, Counting, FS_Subset

\* Accused and Judging are different attempts.
LEMMA RoomForBoth ==
    ASSUME LockTypeOK
    PROVE  Cardinality(Accused) + Cardinality(Judging) <= Cardinality(Attempt)
<1>1. /\ Accused \in SUBSET Attempt /\ Judging \in SUBSET Attempt
      /\ Accused \cap Judging = {}
  BY DEF Accused, Judging, At
<1>2. Cardinality(Accused \cup Judging) = Cardinality(Accused) + Cardinality(Judging)
  <2>1. Cardinality(Accused \cap Judging) = 0
    BY <1>1, FS_EmptySet
  <2>2. /\ IsFiniteSet(Accused) /\ Cardinality(Accused) \in Nat
        /\ IsFiniteSet(Judging) /\ Cardinality(Judging) \in Nat
    BY <1>1, Counting
  <2>3. Cardinality(Accused \cup Judging) =
            Cardinality(Accused) + Cardinality(Judging) - Cardinality(Accused \cap Judging)
    BY ONLY <2>2, FS_Union
  <2> QED BY <2>1, <2>2, <2>3
<1>3. Cardinality(Accused \cup Judging) <= Cardinality(Attempt)
  BY <1>1, LockAssumption, FS_Subset
<1> QED BY <1>2, <1>3

LEMMA LockStarts == LockInit => LockInv
<1> SUFFICES ASSUME LockInit PROVE LockInv
  OBVIOUS
<1> USE LockAssumption, Counting DEF LockInit, Idle
<1>1. LockTypeOK
  <2>1. attempt \in [Attempt -> [at : Stage, seen : Nat]]
    BY DEF Stage
  <2>2. strayed \in BOOLEAN
    OBVIOUS
  <2>3. /\ now \in 0..LockTime /\ logins \in 0..MaxLogins /\ exceptions \in 0..MaxExceptions
        /\ count \in Nat /\ countEnds \in Nat /\ lockEnds \in Nat /\ guesses \in Nat
    OBVIOUS
  <2> QED BY <2>1, <2>2, <2>3 DEF LockTypeOK
<1>2. Uncounted \in SUBSET Attempt /\ Accused \in SUBSET Attempt
  BY DEF Uncounted, Accused
<1>3. Bounded
  BY <1>2 DEF Bounded
<1> QED BY <1>1, <1>3 DEF LockInv

LEMMA LockTyped ==
    ASSUME LockTypeOK, [LockNext]_lockVars
    PROVE  LockTypeOK'
<1> USE LockAssumption DEF LockTypeOK, Stage, At, Goto, keys
<1>1. ASSUME NEW a \in Attempt, CheckLock(a) PROVE LockTypeOK'
  BY <1>1 DEF CheckLock
<1>2. ASSUME NEW a \in Attempt, JudgeWrong(a) PROVE LockTypeOK'
  BY <1>2 DEF JudgeWrong
<1>3. ASSUME NEW a \in Attempt, JudgeRight(a) PROVE LockTypeOK'
  BY <1>3 DEF JudgeRight
<1>4. ASSUME NEW a \in Attempt, Increment(a) PROVE LockTypeOK'
  BY <1>4 DEF Increment
<1>5. ASSUME NEW a \in Attempt, Expire(a) PROVE LockTypeOK'
  BY <1>5 DEF Expire
<1>6. ASSUME NEW a \in Attempt, Lock(a) PROVE LockTypeOK'
  BY <1>6 DEF Lock
<1>7. ASSUME NEW a \in Attempt, ResetCount(a) PROVE LockTypeOK'
  BY <1>7 DEF ResetCount
<1>8. ASSUME NEW a \in Attempt, Unlock(a) PROVE LockTypeOK'
  BY <1>8 DEF Unlock
<1>9. ASSUME NEW a \in Attempt, AttemptFails(a) PROVE LockTypeOK'
  BY <1>9 DEF AttemptFails
<1>10. CASE Tick
  BY <1>10 DEF Tick
<1>11. CASE UNCHANGED lockVars
  BY <1>11 DEF lockVars
<1> QED BY <1>1, <1>2, <1>3, <1>4, <1>5, <1>6, <1>7, <1>8, <1>9, <1>10, <1>11
        DEF LockNext, Proceed

LEMMA StrayedForGood ==
    ASSUME LockTypeOK, [LockNext]_lockVars, strayed
    PROVE  strayed'
  BY DEF LockNext, Proceed, CheckLock, JudgeWrong, JudgeRight, Increment, Expire, Lock,
         ResetCount, Unlock, AttemptFails, Tick, lockVars, keys

LEMMA BoundedKept ==
    ASSUME LockTypeOK, LockTypeOK', Bounded, [LockNext]_lockVars, ~strayed'
    PROVE  Bounded'
<1> USE LockAssumption, Numbers, UncountedAccused, RoomForBoth DEF Bounded, Unit
<1>t. /\ count \in Nat /\ lockEnds \in Nat /\ guesses \in Nat /\ now \in Nat
      /\ count' \in Nat /\ lockEnds' \in Nat /\ guesses' \in Nat
  BY DEF LockTypeOK
<1>n. /\ Cardinality(Uncounted') \in Nat /\ Cardinality(Accused') \in Nat
      /\ Cardinality(Judging') \in Nat /\ Cardinality(Judging') <= Cardinality(Attempt)
      /\ Cardinality(Uncounted') <= Cardinality(Accused')
  <2>1. /\ Uncounted' \in SUBSET Accused' /\ Accused' \in SUBSET Attempt
        /\ Judging' \in SUBSET Attempt
    BY DEF Uncounted, Accused, Judging
  <2>2. Uncounted' \in SUBSET Attempt
    BY <2>1
  <2> QED BY <2>1, <2>2, Counting, FS_Subset
<1>m. ASSUME NEW a \in Attempt, Proceed(a)
      PROVE  /\ \A b \in Attempt \ {a} : attempt'[b] = attempt[b]
             /\ a \in Uncounted <=> At(a, "incr")
             /\ a \in Uncounted' <=> attempt'[a].at = "incr"
             /\ a \in Accused <=> \/ At(a, "incr") \/ At(a, "lock")
                                  \/ At(a, "expire") /\ attempt[a].seen >= Threshold
             /\ a \in Accused' <=> \/ attempt'[a].at \in {"incr", "lock"}
                                   \/ /\ attempt'[a].at = "expire"
                                      /\ attempt'[a].seen >= Threshold
             /\ a \in Judging <=> At(a, "judge")
             /\ a \in Judging' <=> attempt'[a].at = "judge"
  <2>1. \A b \in Attempt \ {a} : attempt'[b] = attempt[b]
    BY <1>m DEF Proceed, CheckLock, JudgeWrong, JudgeRight, Increment, Expire, Lock,
                ResetCount, Unlock, AttemptFails, Goto, LockTypeOK
  <2> QED BY <2>1 DEF Uncounted, Accused, Judging, At
<1>1. ASSUME NEW a \in Attempt, CheckLock(a) PROVE Bounded'
  <2>1. At(a, "idle") /\ attempt'[a].at = "judge"
    BY <1>1 DEF CheckLock, Goto, LockTypeOK
  <2> QED BY <1>1, <1>t, <1>m, <2>1, Moves DEF CheckLock, Proceed, At, keys
<1>2. ASSUME NEW a \in Attempt, JudgeWrong(a) PROVE Bounded'
  <2>1. At(a, "judge") /\ attempt'[a].at = "incr"
    BY <1>2 DEF JudgeWrong, Goto, LockTypeOK
  <2> QED BY <1>2, <1>t, <1>m, <2>1, Moves DEF JudgeWrong, Proceed, At, keys
<1>3. ASSUME NEW a \in Attempt, JudgeRight(a) PROVE Bounded'
  <2>1. At(a, "judge") /\ attempt'[a].at = "reset"
    BY <1>3 DEF JudgeRight, Goto, LockTypeOK
  <2> QED BY <1>3, <1>t, <1>m, <2>1, Moves DEF JudgeRight, Proceed, At, keys
<1>4. ASSUME NEW a \in Attempt, Increment(a) PROVE Bounded'
  <2>1. At(a, "incr") /\ attempt'[a].at = "expire" /\ attempt'[a].seen = count'
    BY <1>4 DEF Increment, LockTypeOK
  <2>2. /\ Cardinality(Uncounted') = Cardinality(Uncounted) - 1
        /\ Cardinality(Judging') = Cardinality(Judging)
        /\ count' >= Threshold => Cardinality(Accused') = Cardinality(Accused)
    BY <1>4, <1>m, <2>1, Moves DEF Proceed, At
  <2>3. guesses' <= count' + Cardinality(Uncounted')
    BY <1>4, <1>t, <2>2 DEF Increment
  <2>4. guesses' < Threshold + Cardinality(Accused') \/ lockEnds # 0
    BY <1>4, <1>t, <2>2, <2>3, <1>n DEF Increment
  <2> QED BY <1>4, <1>t, <2>2, <2>3, <2>4 DEF Increment
<1>5. ASSUME NEW a \in Attempt, Expire(a) PROVE Bounded'
  <2>1. /\ At(a, "expire") /\ attempt'[a].seen = attempt[a].seen
        /\ attempt'[a].at = IF attempt[a].seen >= Threshold THEN "lock" ELSE "idle"
    BY <1>5 DEF Expire, Goto, LockTypeOK
  <2> QED BY <1>5, <1>t, <1>m, <2>1, Moves DEF Expire, Proceed, At
<1>6. ASSUME NEW a \in Attempt, Lock(a) PROVE Bounded'
  <2>1. At(a, "lock") /\ attempt'[a].at = "idle" /\ lockEnds' # 0
    BY <1>6, <1>t DEF Lock, Goto, LockTypeOK
  <2> QED BY <1>6, <1>t, <1>m, <2>1, Moves DEF Lock, Proceed, At
<1>7. ASSUME NEW a \in Attempt, ResetCount(a) PROVE Bounded'
  BY <1>7, <1>t, <1>n DEF ResetCount
<1>8. ASSUME NEW a \in Attempt, Unlock(a) PROVE Bounded'
  BY <1>8, <1>t, <1>n DEF Unlock
<1>9. ASSUME NEW a \in Attempt, AttemptFails(a) PROVE Bounded'
  <2>1. /\ attempt[a].at \in {"judge", "reset", "unlock"} /\ attempt'[a].at = "idle"
    BY <1>9 DEF AttemptFails, Goto, LockTypeOK, Stage, At
  <2> QED BY <1>9, <1>t, <1>m, <2>1, Moves DEF AttemptFails, Proceed, At, keys
<1>10. CASE Tick
  <2>1. Uncounted' = Uncounted /\ Accused' = Accused /\ Judging' = Judging
    BY <1>10 DEF Tick, Uncounted, Accused, Judging, At
  <2> QED BY <1>10, <1>t, <2>1 DEF Tick
<1>11. CASE UNCHANGED lockVars
  <2>1. Uncounted' = Uncounted /\ Accused' = Accused /\ Judging' = Judging
    BY <1>11 DEF lockVars, Uncounted, Accused, Judging, At
  <2> QED BY <1>11, <2>1 DEF lockVars
<1> QED BY <1>1, <1>2, <1>3, <1>4, <1>5, <1>6, <1>7, <1>8, <1>9, <1>10, <1>11
        DEF LockNext, Proceed

LEMMA LockKept == LockInv /\ [LockNext]_lockVars => LockInv'
  BY LockTyped, StrayedForGood, BoundedKept DEF LockInv

\* The bound holds in every state until an attempt strays.
THEOREM LockInvariant == LockSpec => []LockInv
<1> QED BY LockStarts, LockKept, PTL DEF LockSpec

\* The login lock (auth.ts): attempts check the lock, judge and count in separate
\* Redis calls, and may overtake each other between them; still no more passwords
\* are judged wrong than the threshold and one for each other attempt under way.
THEOREM GuessesAreBounded == LockSpec => []GuessesBounded
<1>1. LockInv => GuessesBounded
  <2> SUFFICES ASSUME LockInv, ~strayed PROVE guesses < Threshold + Cardinality(Attempt)
    BY DEF GuessesBounded
  <2> QED BY Numbers, RoomForBoth, LockAssumption DEF LockInv, Bounded, LockTypeOK
<1> QED BY LockInvariant, <1>1, PTL

----------------------------------------------------------------------------
(***************************************************************************)
(* Sessions.                                                               *)
(***************************************************************************)
Ticketed ==
    /\ time \in Nat
    /\ sessions \subseteq Ticket /\ ended \subseteq Ticket
    /\ issued \in Nat
    /\ \A l \in logouts : /\ l.session \in Ticket /\ l.ttl \in Int
                         /\ l.session.iat + Life <= time + l.ttl
    /\ \A b \in blacklist : b.iat \in Nat /\ b.ends \in Int

Outlived ==
    forgotten \/ \A s \in ended : \/ s.iat + Life <= time
                                 \/ \E b \in blacklist : Twins(b, s) /\ s.iat + Life <= b.ends

\* Nobody is on the blacklist who has no ended session of that second.
Attributed == \A b \in blacklist : \E t \in ended : Twins(b, t)

\* A key is in the collection until its own user revokes it, and never again.
Owned ==
    /\ apiKeys \subseteq keysIssued
    /\ \A k \in keysIssued : k.no \in Nat /\ k.no < issued
    /\ \A k \in keysIssued \ apiKeys : [key |-> k, by |-> k.user] \in revocations
    /\ \A r \in revocations : r.key \in keysIssued \ apiKeys

SessionsInv == Ticketed /\ Outlived /\ Attributed /\ Owned

LEMMA SessionsStart == SessionsInit => SessionsInv
<1>1. SessionsInit => Ticketed /\ Outlived /\ Attributed
  BY DEF SessionsInit, Ticketed, Outlived, Attributed
<1>2. SessionsInit => Owned
  BY DEF SessionsInit, Owned
<1> QED BY <1>1, <1>2 DEF SessionsInv

\* The clock only makes the lifetime of a pending logout more generous.
LEMMA TicketedKept ==
    ASSUME Ticketed, [SessionsNext]_sessionsVars
    PROVE  Ticketed'
<1> USE SessionsAssumption DEF Ticketed, Ticket, sessionVars, keyVars
<1>1. CASE Issue
  BY <1>1 DEF Issue
<1>2. CASE BeginLogout
  BY <1>2 DEF BeginLogout
<1>3. CASE Blacklist
  BY <1>3 DEF Blacklist
<1>4. CASE Second
  BY <1>4 DEF Second
<1>5. CASE RedisCrash
  BY <1>5 DEF RedisCrash
<1>6. CASE CreateKey
  BY <1>6 DEF CreateKey
<1>7. CASE RevokeKey
  BY <1>7 DEF RevokeKey
<1>8. CASE RemoveAccount
  BY <1>8 DEF RemoveAccount
<1>9. CASE UNCHANGED sessionsVars
  BY <1>9 DEF sessionsVars
<1> QED BY <1>1, <1>2, <1>3, <1>4, <1>5, <1>6, <1>7, <1>8, <1>9 DEF SessionsNext

\* Redis drops an entry when the tokens it stands for have expired.
LEMMA OutlivedKept ==
    ASSUME Ticketed, Ticketed', Outlived, [SessionsNext]_sessionsVars
    PROVE  Outlived'
<1> USE SessionsAssumption DEF Ticketed, Outlived, Ticket, Twins, sessionVars, keyVars
<1>1. CASE Issue
  BY <1>1 DEF Issue
<1>2. CASE BeginLogout
  BY <1>2 DEF BeginLogout
<1>3. CASE Blacklist
  <2>1. PICK l \in logouts :
            /\ blacklist' = {b \in blacklist : ~Twins(b, l.session)} \cup
                 {[user |-> l.session.user, iat |-> l.session.iat, ends |-> time + l.ttl]}
            /\ ended' = ended \cup {l.session}
    BY <1>3 DEF Blacklist
  <2> DEFINE entry == [user |-> l.session.user, iat |-> l.session.iat, ends |-> time + l.ttl]
  <2>2. /\ entry \in blacklist' /\ entry.user = l.session.user /\ entry.iat = l.session.iat
        /\ l.session.iat + Life <= entry.ends
    BY <2>1
  <2>3. \A s \in ended' : Twins(s, l.session) =>
            \E b \in blacklist' : Twins(b, s) /\ s.iat + Life <= b.ends
    <3> HIDE DEF entry
    <3> QED BY <2>2
  <2>4. \A s \in ended' : ~Twins(s, l.session) =>
            s \in ended /\ \A b \in blacklist : Twins(b, s) => b \in blacklist'
    BY <2>1
  <2>5. forgotten' = forgotten /\ time' = time
    BY <1>3 DEF Blacklist
  <2> QED BY <2>3, <2>4, <2>5
<1>4. CASE Second
  BY <1>4 DEF Second
<1>5. CASE RedisCrash
  BY <1>5 DEF RedisCrash
<1>6. CASE CreateKey
  BY <1>6 DEF CreateKey
<1>7. CASE RevokeKey
  BY <1>7 DEF RevokeKey
<1>8. CASE RemoveAccount
  BY <1>8 DEF RemoveAccount
<1>9. CASE UNCHANGED sessionsVars
  BY <1>9 DEF sessionsVars
<1> QED BY <1>1, <1>2, <1>3, <1>4, <1>5, <1>6, <1>7, <1>8, <1>9 DEF SessionsNext

LEMMA AttributedKept ==
    ASSUME Attributed, [SessionsNext]_sessionsVars
    PROVE  Attributed'
<1> USE SessionsAssumption DEF Attributed, Twins, sessionVars, keyVars
<1>1. CASE Issue
  BY <1>1 DEF Issue
<1>2. CASE BeginLogout
  BY <1>2 DEF BeginLogout
<1>3. CASE Blacklist
  BY <1>3 DEF Blacklist
<1>4. CASE Second
  BY <1>4 DEF Second
<1>5. CASE RedisCrash
  BY <1>5 DEF RedisCrash
<1>6. CASE CreateKey
  BY <1>6 DEF CreateKey
<1>7. CASE RevokeKey
  BY <1>7 DEF RevokeKey
<1>8. CASE RemoveAccount
  BY <1>8 DEF RemoveAccount
<1>9. CASE UNCHANGED sessionsVars
  BY <1>9 DEF sessionsVars
<1> QED BY <1>1, <1>2, <1>3, <1>4, <1>5, <1>6, <1>7, <1>8, <1>9 DEF SessionsNext

\* A new key has a number no key had before, and a deletion names its author.
LEMMA OwnedKept ==
    ASSUME Ticketed, Owned, [SessionsNext]_sessionsVars
    PROVE  Owned'
<1> USE DEF Ticketed, Owned, sessionVars, keyVars
<1>1. CASE Issue
  BY <1>1 DEF Issue
<1>2. CASE BeginLogout
  BY <1>2 DEF BeginLogout
<1>3. CASE Blacklist
  BY <1>3 DEF Blacklist
<1>4. CASE Second
  BY <1>4 DEF Second
<1>5. CASE RedisCrash
  BY <1>5 DEF RedisCrash
<1>6. CASE CreateKey
  <2>1. PICK k : /\ k.no = issued /\ issued' = issued + 1
                 /\ apiKeys' = apiKeys \cup {k} /\ keysIssued' = keysIssued \cup {k}
    BY <1>6 DEF CreateKey
  <2>2. revocations' = revocations
    BY <1>6 DEF CreateKey
  <2>3. k \notin keysIssued
    BY <2>1
  <2>4. \A d \in keysIssued' : d.no \in Nat /\ d.no < issued'
    BY <2>1
  <2>5. keysIssued' \ apiKeys' = keysIssued \ apiKeys
    BY <2>1, <2>3
  <2> QED BY <2>1, <2>2, <2>4, <2>5
<1>7. CASE RevokeKey
  <2>1. PICK k \in apiKeys : /\ apiKeys' = apiKeys \ {k}
                            /\ revocations' = revocations \cup {[key |-> k, by |-> k.user]}
    BY <1>7 DEF RevokeKey
  <2>2. keysIssued' = keysIssued /\ issued' = issued
    BY <1>7 DEF RevokeKey
  <2> QED BY <2>1, <2>2
<1>8. CASE RemoveAccount
  BY <1>8 DEF RemoveAccount
<1>9. CASE UNCHANGED sessionsVars
  BY <1>9 DEF sessionsVars
<1> QED BY <1>1, <1>2, <1>3, <1>4, <1>5, <1>6, <1>7, <1>8, <1>9 DEF SessionsNext

\* The four parts hold in every state.
THEOREM SessionsInvariant == SessionsSpec => []SessionsInv
<1>1. SessionsInv /\ [SessionsNext]_sessionsVars => SessionsInv'
  BY TicketedKept, OutlivedKept, AttributedKept, OwnedKept DEF SessionsInv
<1> QED BY SessionsStart, <1>1, PTL DEF SessionsSpec

\* Logout and API keys (auth.ts, jwt.ts, apiKeys.ts): a session that was ended stays
\* ended although its lifetime was computed before the call to Redis, and a revoked key
\* is refused but for a twin; only the logout of a twin ends a session, and only its own
\* user's revocation, or the removal of that user, ends a key.
THEOREM CredentialsAlwaysEndAlone == SessionsSpec => []CredentialsEndAlone
<1>1. SessionsInv => CredentialsEndAlone
  <2> SUFFICES ASSUME SessionsInv PROVE CredentialsEndAlone
    OBVIOUS
  <2>1. \A s \in sessions : Unexpired(s) /\ s \in ended => ~Accepted(s) \/ forgotten
    BY SessionsAssumption
       DEF SessionsInv, Ticketed, Ticket, Outlived, Unexpired, Accepted, Revoked
  <2>2. \A s \in sessions : Unexpired(s) /\ ~Accepted(s) => \E t \in ended : Twins(s, t)
    BY DEF SessionsInv, Attributed, Accepted, Revoked, Twins
  <2>3. ASSUME NEW k \in keysIssued, KeyAdmits(k)
        PROVE  \E d \in keysIssued : Twins(d, k) /\ ~KeyRevoked(d, Account)
    <3>1. PICK d \in apiKeys : Twins(d, k)
      BY <2>3 DEF KeyAdmits
    <3>2. \A u : [key |-> d, by |-> u] \notin revocations
      BY DEF SessionsInv, Owned
    <3>3. d \in keysIssued
      BY DEF SessionsInv, Owned
    <3> QED BY <3>1, <3>2, <3>3 DEF KeyRevoked
  <2>4. ASSUME NEW k \in keysIssued, ~KeyAdmits(k), k.user \notin removed
        PROVE  KeyRevoked(k, {k.user})
    <3>1. k \notin apiKeys
      BY <2>4 DEF KeyAdmits, Twins
    <3> QED BY <3>1 DEF SessionsInv, Owned, KeyRevoked
  <2> QED BY <2>1, <2>2, <2>3, <2>4 DEF CredentialsEndAlone
<1> QED BY SessionsInvariant, <1>1, PTL

\* SessionsTypeOK is inductive once a pending logout is known to be of a session.
SessionTypes == SessionsTypeOK /\ \A l \in logouts : l.session \in sessions

LEMMA SessionTypesStart == SessionsInit => SessionTypes
<1>1. 0 \in 0..SessionTime /\ 0 \in 0..MaxIssued /\ 0 \in 0..MaxCrashes
  BY SessionsAssumption
<1> QED BY <1>1 DEF SessionsInit, SessionTypes, SessionsTypeOK

LEMMA SessionTypesStep == SessionTypes /\ [SessionsNext]_sessionsVars => SessionTypes'
<1> SUFFICES ASSUME SessionTypes, [SessionsNext]_sessionsVars PROVE SessionTypes'
  OBVIOUS
<1> USE SessionsAssumption DEF SessionTypes, SessionsTypeOK, Ticket, sessionVars, keyVars
<1>1. CASE Issue
  <2>1. PICK u \in Account \ removed :
          /\ issued < MaxIssued /\ issued' = issued + 1
          /\ sessions' = sessions \cup {[no |-> issued, user |-> u, iat |-> time]}
    BY <1>1 DEF Issue
  <2>2. [no |-> issued, user |-> u, iat |-> time] \in Ticket /\ issued + 1 \in 0..MaxIssued
    BY <2>1
  <2> QED BY <1>1, <2>1, <2>2 DEF Issue
<1>2. CASE BeginLogout
  <2>1. PICK s \in sessions : /\ Unexpired(s)
                              /\ logouts' = logouts \cup {[session |-> s, ttl |-> s.iat + Life - time]}
    BY <1>2 DEF BeginLogout, Accepted
  <2>2. s \in Ticket /\ s.iat \in Nat /\ s.iat + Life - time \in Nat
    BY <2>1 DEF Unexpired
  <2>3. [session |-> s, ttl |-> s.iat + Life - time] \in [session : Ticket, ttl : Nat]
    BY <2>2
  <2> QED BY <1>2, <2>1, <2>3 DEF BeginLogout
<1>3. CASE Blacklist
  <2>1. PICK l \in logouts :
          /\ logouts' = logouts \ {l}
          /\ blacklist' = {b \in blacklist : ~Twins(b, l.session)} \cup
               {[user |-> l.session.user, iat |-> l.session.iat, ends |-> time + l.ttl]}
          /\ ended' = ended \cup {l.session}
    BY <1>3 DEF Blacklist
  <2>2. l.session \in Ticket /\ l.ttl \in Nat /\ l.session \in sessions
    OBVIOUS
  <2>3. [user |-> l.session.user, iat |-> l.session.iat, ends |-> time + l.ttl]
          \in [user : Account, iat : Nat, ends : Nat]
    BY <2>2
  <2> QED BY <1>3, <2>1, <2>2, <2>3 DEF Blacklist
<1>4. CASE Second
  BY <1>4 DEF Second
<1>5. CASE RedisCrash
  BY <1>5 DEF RedisCrash
<1>6. CASE CreateKey
  <2>1. PICK s \in sessions :
          /\ issued < MaxIssued /\ issued' = issued + 1
          /\ apiKeys' = apiKeys \cup {[no |-> issued, user |-> s.user, iat |-> time]}
          /\ keysIssued' = keysIssued \cup {[no |-> issued, user |-> s.user, iat |-> time]}
    BY <1>6 DEF CreateKey
  <2>2. [no |-> issued, user |-> s.user, iat |-> time] \in Ticket /\ issued + 1 \in 0..MaxIssued
    BY <2>1
  <2> QED BY <1>6, <2>1, <2>2 DEF CreateKey
<1>7. CASE RevokeKey
  BY <1>7 DEF RevokeKey
<1>8. CASE RemoveAccount
  BY <1>8 DEF RemoveAccount
<1>9. CASE UNCHANGED sessionsVars
  BY <1>9 DEF sessionsVars
<1> QED BY <1>1, <1>2, <1>3, <1>4, <1>5, <1>6, <1>7, <1>8, <1>9 DEF SessionsNext

LEMMA SessionTypesFit == SessionTypes => SessionsTypeOK
BY DEF SessionTypes

----------------------------------------------------------------------------
(*********************** The plan of an organization ***********************)

Session == [call : Nat, customer : Customer \cup {NoCustomer}, plan : Paid]

Notice == [n : Nat, kind : Kind, sub : Sub, customer : Customer \cup {NoCustomer},
           plan : Plan, status : {"active", "past_due", "canceled"}]

\* The part of the types that the limit of the document depends on.
Typed ==
    /\ org \in OrgDoc
    /\ stripe \in [Sub -> Contract]
    /\ openSessions \subseteq Session
    /\ events \subseteq Notice /\ emitted \in Nat
    /\ checkouts \subseteq Checkout
    /\ cancels \subseteq [call : Nat, sub : Sub, at : {"stripe", "save"}]
    /\ calls \in Nat

Metered ==
    /\ used \in [Resource -> Nat]
    /\ IsFiniteSet(creations)
    /\ creations \subseteq [call : Nat, resource : Resource]

Reserved ==
    \A r \in Resource \ overrun : used[r] + Cardinality(InFlight(r)) <= org.limits

LimitInv == Typed /\ Metered /\ Reserved

----------------------------------------------------------------------------
\* An event carries what Stripe knows of a subscription that exists.
LEMMA EmitTyped ==
    ASSUME Typed, NEW s \in Sub, NEW kinds \in SUBSET Kind, Emit(kinds, s),
           stripe' \in [Sub -> Contract], stripe'[s].status # "none"
    PROVE  events' \subseteq Notice /\ emitted' \in Nat
<1>1. emitted' \in Nat
  BY DEF Emit, Typed
<1>2. /\ stripe'[s].customer \in Customer \cup {NoCustomer} /\ stripe'[s].plan \in Plan
      /\ stripe'[s].status \in {"active", "past_due", "canceled"}
  BY DEF Contract
<1>3. \A k \in kinds : [n |-> emitted', kind |-> k, sub |-> s, customer |-> stripe'[s].customer,
                       plan |-> stripe'[s].plan, status |-> stripe'[s].status] \in Notice
  BY <1>1, <1>2 DEF Notice
<1> QED BY <1>1, <1>3 DEF Emit, Typed

LEMMA OutcomeTyped ==
    ASSUME org \in OrgDoc, NEW e \in Notice
    PROVE  Outcome(e) \in OrgDoc
<1> USE SubscriptionAssumption
        DEF Outcome, OrgDoc, Notice, Kind, Plan, Paid, UpdateSubscription, DowngradeToFree
<1>1. e.kind \in Kind /\ e.plan \in Plan /\ e.sub \in Sub
      /\ Limit[e.plan] \in Nat /\ Limit["free"] \in Nat
  OBVIOUS
<1>2. CASE e.kind = "updated"
  <2>1. Outcome(e) = UpdateSubscription(e)
    BY <1>2
  <2> QED BY <1>1, <2>1
<1>3. CASE e.kind = "deleted"
  <2>1. Outcome(e) = DowngradeToFree
    BY <1>3
  <2> QED BY <1>1, <2>1
<1>4. CASE e.kind = "paid"
  BY <1>4
<1>5. CASE e.kind = "failed"
  BY <1>5
<1> QED BY <1>1, <1>2, <1>3, <1>4, <1>5

LEMMA TypedKept ==
    ASSUME Typed, [SubscriptionNext]_subscriptionVars
    PROVE  Typed'
<1> USE SubscriptionAssumption
    DEF Typed, OrgDoc, Session, Checkout, Plan, Paid, Call, Fault, account, traffic, metering
<1>1. CASE StartCheckout
  <2>1. PICK p \in Paid :
            checkouts' = checkouts \cup
              {[call |-> calls, plan |-> p, customer |-> org.customer,
                at |-> IF org.customer = NoCustomer THEN "customer" ELSE "session"]}
    BY <1>1 DEF StartCheckout
  <2>2. org.customer \in Customer \cup {NoCustomer}
    OBVIOUS
  <2>3. checkouts' \subseteq Checkout
    BY <2>1, <2>2
  <2> QED BY <1>1, <2>3 DEF StartCheckout
<1>2. CASE CreateCustomer
  <2>1. NextOf(Customer \ customers) \subseteq Customer
    BY DEF NextOf
  <2>2. PICK k \in checkouts, c \in Customer :
            checkouts' = (checkouts \ {k}) \cup {[k EXCEPT !.customer = c, !.at = "save"]}
    BY <1>2, <2>1 DEF CreateCustomer
  <2>3. checkouts' \subseteq Checkout
    BY <2>2
  <2> QED BY <1>2, <2>3 DEF CreateCustomer
<1>3. CASE SaveCustomer
  BY <1>3 DEF SaveCustomer
<1>4. CASE CreateSession
  BY <1>4 DEF CreateSession
<1>5. CASE StartCancel
  BY <1>5 DEF StartCancel
<1>6. CASE CancelAtStripe
  <2>1. PICK k \in cancels :
            /\ k.at = "stripe"
            /\ cancels' \subseteq cancels \cup {[k EXCEPT !.at = "save"]}
    BY <1>6 DEF CancelAtStripe
  <2>2. cancels' \subseteq [call : Nat, sub : Sub, at : {"stripe", "save"}]
    BY <2>1
  <2>3. CASE UNCHANGED <<stripe, events, emitted>>
    BY <1>6, <2>2, <2>3 DEF CancelAtStripe
  <2>4. CASE ~UNCHANGED <<stripe, events, emitted>>
    <3>1. PICK s \in Live : /\ stripe' = [stripe EXCEPT ![s].ending = TRUE]
                          /\ Emit({"updated"}, s)
      BY <1>6, <2>4 DEF CancelAtStripe
    <3>2. s \in Sub /\ stripe[s].status # "none"
      BY <3>1 DEF Live
    <3>21. [stripe[s] EXCEPT !.ending = TRUE] \in Contract
      <4>1. stripe[s] \in Contract
        BY <3>2
      <4>2. \A c \in Contract : [c EXCEPT !.ending = TRUE] \in Contract
        BY DEF Contract
      <4> QED BY <4>1, <4>2
    <3>22. stripe' = [stripe EXCEPT ![s] = [stripe[s] EXCEPT !.ending = TRUE]]
      BY <3>1
    <3>23. stripe' \in [Sub -> Contract]
      BY <3>2, <3>21, <3>22
    <3>24. stripe'[s].status # "none"
      BY <3>2, <3>22 DEF Contract
    <3>3. events' \subseteq Notice /\ emitted' \in Nat
      BY <3>1, <3>2, <3>23, <3>24, EmitTyped DEF Kind
    <3> QED BY <1>6, <2>2, <3>23, <3>3 DEF CancelAtStripe
  <2> QED BY <2>3, <2>4
<1>7. CASE SaveCancel
  BY <1>7 DEF SaveCancel
<1>8. CASE Subscribe
  <2>1. PICK p \in openSessions, s \in Sub :
            /\ stripe' = [stripe EXCEPT ![s] = [customer |-> p.customer, plan |-> p.plan,
                                                status |-> "active", ending |-> FALSE]]
            /\ Emit({"updated", "paid"}, s)
    <3>1. NextOf({t \in Sub : stripe[t].status = "none"}) \subseteq Sub
      BY DEF NextOf
    <3> QED BY <1>8, <3>1 DEF Subscribe
  <2>2. stripe' \in [Sub -> Contract] /\ stripe'[s].status # "none"
    BY <2>1 DEF Contract
  <2>3. events' \subseteq Notice /\ emitted' \in Nat
    BY <2>1, <2>2, EmitTyped DEF Kind
  <2> QED BY <1>8, <2>2, <2>3 DEF Subscribe
<1>9. CASE ChangePlan
  <2>1. PICK s \in Sub :
            /\ Emit({"updated"}, s) /\ s \in Live
            /\ \E p \in Paid : stripe' = [stripe EXCEPT ![s].plan = p]
    BY <1>9 DEF ChangePlan, Live, NextOf
  <2>2. stripe' \in [Sub -> Contract] /\ stripe'[s].status # "none"
    BY <2>1 DEF Contract, Live
  <2>3. events' \subseteq Notice /\ emitted' \in Nat
    BY <2>1, <2>2, EmitTyped DEF Kind
  <2> QED BY <1>9, <2>2, <2>3 DEF ChangePlan
<1>10. CASE PaymentFails
  <2>1. PICK s \in Sub :
            /\ Emit({"updated", "failed"}, s) /\ s \in Live
            /\ stripe' = [stripe EXCEPT ![s].status = "past_due"]
    BY <1>10 DEF PaymentFails, Live, NextOf
  <2>11. [stripe[s] EXCEPT !.status = "past_due"] \in Contract
    BY <2>1 DEF Contract
  <2>12. stripe' = [stripe EXCEPT ![s] = [stripe[s] EXCEPT !.status = "past_due"]]
    BY <2>1
  <2>13. stripe' \in [Sub -> Contract]
    BY <2>11, <2>12
  <2>14. stripe'[s].status # "none"
    BY <2>12 DEF Contract
  <2>2. stripe' \in [Sub -> Contract] /\ stripe'[s].status # "none"
    BY <2>13, <2>14
  <2>3. events' \subseteq Notice /\ emitted' \in Nat
    BY <2>1, <2>2, EmitTyped DEF Kind
  <2> QED BY <1>10, <2>2, <2>3 DEF PaymentFails
<1>11. CASE PaymentSucceeds
  <2>1. PICK s \in Sub :
            /\ Emit({"updated", "paid"}, s) /\ s \in Live
            /\ stripe' = [stripe EXCEPT ![s].status = "active"]
    BY <1>11 DEF PaymentSucceeds, Live, NextOf
  <2>11. [stripe[s] EXCEPT !.status = "active"] \in Contract
    BY <2>1 DEF Contract
  <2>12. stripe' = [stripe EXCEPT ![s] = [stripe[s] EXCEPT !.status = "active"]]
    BY <2>1
  <2>13. stripe' \in [Sub -> Contract]
    BY <2>11, <2>12
  <2>14. stripe'[s].status # "none"
    BY <2>12 DEF Contract
  <2>2. stripe' \in [Sub -> Contract] /\ stripe'[s].status # "none"
    BY <2>13, <2>14
  <2>3. events' \subseteq Notice /\ emitted' \in Nat
    BY <2>1, <2>2, EmitTyped DEF Kind
  <2> QED BY <1>11, <2>2, <2>3 DEF PaymentSucceeds
<1>12. CASE PeriodEnds
  <2>1. PICK s \in Sub :
            /\ Emit({"deleted"}, s) /\ s \in Live
            /\ stripe' = [stripe EXCEPT ![s].status = "canceled"]
    BY <1>12 DEF PeriodEnds, Live, NextOf
  <2>11. [stripe[s] EXCEPT !.status = "canceled"] \in Contract
    BY <2>1 DEF Contract
  <2>12. stripe' = [stripe EXCEPT ![s] = [stripe[s] EXCEPT !.status = "canceled"]]
    BY <2>1
  <2>13. stripe' \in [Sub -> Contract]
    BY <2>11, <2>12
  <2>14. stripe'[s].status # "none"
    BY <2>12 DEF Contract
  <2>2. stripe' \in [Sub -> Contract] /\ stripe'[s].status # "none"
    BY <2>13, <2>14
  <2>3. events' \subseteq Notice /\ emitted' \in Nat
    BY <2>1, <2>2, EmitTyped DEF Kind
  <2> QED BY <1>12, <2>2, <2>3 DEF PeriodEnds
<1>13. CASE Handle
  <2>1. PICK e \in events : org' = Outcome(e) \/ org' = org
    BY <1>13 DEF Handle
  <2>2. org' \in OrgDoc
    BY <2>1, OutcomeTyped
  <2>3. events' \subseteq events
    BY <1>13 DEF Handle, Deliver
  <2> QED BY <1>13, <2>2, <2>3 DEF Handle
<1>14. CASE HandleFails
  BY <1>14 DEF HandleFails
<1>15. CASE CallFails
  BY <1>15 DEF CallFails
<1>16. CASE CheckLimit
  BY <1>16 DEF CheckLimit
<1>17. CASE CheckFailsOpen
  BY <1>17 DEF CheckFailsOpen
<1>18. CASE Create
  BY <1>18 DEF Create
<1>19. CASE RunUnmetered
  BY <1>19 DEF RunUnmetered
<1>20. CASE UNCHANGED subscriptionVars
  BY <1>20 DEF subscriptionVars
<1> QED BY <1>1, <1>2, <1>3, <1>4, <1>5, <1>6, <1>7, <1>8, <1>9, <1>10, <1>11, <1>12,
           <1>13, <1>14, <1>15, <1>16, <1>17, <1>18, <1>19, <1>20
        DEF SubscriptionNext

\* More or fewer creations change how many are in flight accordingly.
LEMMA InFlightFinite ==
    ASSUME Metered, NEW r \in Resource
    PROVE  IsFiniteSet(InFlight(r)) /\ Cardinality(InFlight(r)) \in Nat
<1>1. IsFiniteSet(InFlight(r))
  BY FS_Subset DEF Metered, InFlight
<1> QED BY <1>1, FS_CardinalityType

LEMMA InFlightAdds ==
    ASSUME Metered, NEW r \in Resource, NEW k, k.resource = r,
           creations' = creations \cup {k}
    PROVE  /\ Cardinality(InFlight(r)') <= Cardinality(InFlight(r)) + 1
           /\ \A q \in Resource \ {r} : InFlight(q)' = InFlight(q)
<1>1. InFlight(r)' = InFlight(r) \cup {k}
  BY DEF InFlight
<1>2. \A q \in Resource \ {r} : InFlight(q)' = InFlight(q)
  BY DEF InFlight
<1>3. Cardinality(InFlight(r) \cup {k}) = IF k \in InFlight(r) THEN Cardinality(InFlight(r))
                                        ELSE Cardinality(InFlight(r)) + 1
  BY InFlightFinite, FS_AddElement
<1> QED BY <1>1, <1>2, <1>3, InFlightFinite

LEMMA InFlightLeaves ==
    ASSUME Metered, NEW k \in creations, creations' = creations \ {k}
    PROVE  /\ Cardinality(InFlight(k.resource)') = Cardinality(InFlight(k.resource)) - 1
           /\ \A q \in Resource \ {k.resource} : InFlight(q)' = InFlight(q)
<1>1. k.resource \in Resource /\ k \in InFlight(k.resource)
  BY DEF Metered, InFlight
<1>2. InFlight(k.resource)' = InFlight(k.resource) \ {k}
  BY DEF InFlight
<1>3. \A q \in Resource \ {k.resource} : InFlight(q)' = InFlight(q)
  BY DEF InFlight
<1>4. Cardinality(InFlight(k.resource) \ {k}) = Cardinality(InFlight(k.resource)) - 1
  BY <1>1, InFlightFinite, FS_RemoveElement
<1> QED BY <1>2, <1>3, <1>4

LEMMA SubscriptionStarts == SubscriptionInit => LimitInv
<1> SUFFICES ASSUME SubscriptionInit PROVE LimitInv
  OBVIOUS
<1> USE SubscriptionAssumption DEF SubscriptionInit, Plan, Paid
<1>1. Typed
  BY DEF Typed, OrgDoc, Contract
<1>2. Metered
  BY FS_EmptySet DEF Metered
<1>3. \A r \in Resource : Cardinality(InFlight(r)) = 0
  <2>1. \A r \in Resource : InFlight(r) = {}
    BY DEF InFlight
  <2> QED BY <2>1, FS_EmptySet
<1>4. Reserved
  BY <1>3 DEF Reserved
<1> QED BY <1>1, <1>2, <1>4 DEF LimitInv

LEMMA MeteredKept ==
    ASSUME Metered, calls \in Nat, [SubscriptionNext]_subscriptionVars
    PROVE  Metered'
<1> USE DEF Metered, Resource, Call
<1>1. CASE CheckLimit
  <2>1. PICK r \in Resource :
            creations' = creations \cup {[call |-> calls, resource |-> r]}
    BY <1>1 DEF CheckLimit
  <2>2. IsFiniteSet(creations')
    BY <2>1, FS_AddElement
  <2> QED BY <1>1, <2>1, <2>2 DEF CheckLimit, traffic, account
<1>2. CASE CheckFailsOpen
  <2>1. IsFiniteSet(creations')
    BY <1>2, FS_AddElement DEF CheckFailsOpen
  <2> QED BY <1>2, <2>1 DEF CheckFailsOpen
<1>3. CASE Create
  <2>1. PICK k \in creations :
            creations' = creations \ {k} /\ used' = [used EXCEPT ![k.resource] = @ + 1]
    BY <1>3 DEF Create
  <2>2. IsFiniteSet(creations')
    BY <2>1, FS_RemoveElement
  <2> QED BY <2>1, <2>2
<1>4. CASE RunUnmetered
  BY <1>4 DEF RunUnmetered
<1>5. CASE UNCHANGED <<used, creations>>
  BY <1>5
<1> QED
  BY <1>1, <1>2, <1>3, <1>4, <1>5
     DEF SubscriptionNext, subscriptionVars, metering, StartCheckout, CreateCustomer,
         SaveCustomer, CreateSession, StartCancel, CancelAtStripe, SaveCancel, Subscribe,
         ChangePlan, PaymentFails, PaymentSucceeds, PeriodEnds, Handle, HandleFails, CallFails

\* A reservation is made below the limit, and by nobody else at the same time.
LEMMA ReservedKept ==
    ASSUME Typed, Typed', Metered, Metered', Reserved, [SubscriptionNext]_subscriptionVars
    PROVE  Reserved'
<1> USE InFlightFinite DEF Reserved
<1>t. org.limits \in Nat /\ org'.limits \in Nat
  BY DEF Typed, OrgDoc
<1>u. \A r \in Resource : used[r] \in Nat
  BY DEF Metered
<1>1. CASE CheckLimit
  <2>1. PICK r \in Resource :
            /\ ~Exceeded(r)
            /\ overrun' = IF InFlight(r) = {} THEN overrun ELSE overrun \cup {r}
            /\ creations' = creations \cup {[call |-> calls, resource |-> r]}
    BY <1>1 DEF CheckLimit
  <2>2. /\ Cardinality(InFlight(r)') <= Cardinality(InFlight(r)) + 1
        /\ \A q \in Resource \ {r} : InFlight(q)' = InFlight(q)
    BY <2>1, InFlightAdds
  <2>3. used' = used /\ org' = org
    BY <1>1 DEF CheckLimit, account
  <2>4. CASE InFlight(r) = {}
    <3>1. Cardinality(InFlight(r)) = 0
      BY <2>4, FS_EmptySet
    <3>2. used[r] + 1 <= org.limits
      BY <2>1, <1>t, <1>u DEF Exceeded
    <3>3. Cardinality(InFlight(r)') \in Nat
      BY <2>2, FS_CardinalityType, <2>1, FS_Subset DEF InFlight, Metered
    <3> QED BY <1>t, <1>u, <2>1, <2>2, <2>3, <2>4, <3>1, <3>2, <3>3
  <2>5. CASE InFlight(r) # {}
    BY <2>1, <2>2, <2>3, <2>5
  <2> QED BY <2>4, <2>5
<1>2. CASE CheckFailsOpen
  <2>1. \A q \in Resource \ {"runs"} : InFlight(q)' = InFlight(q)
    BY <1>2, InFlightAdds DEF CheckFailsOpen, Resource
  <2> QED BY <1>2, <2>1 DEF CheckFailsOpen, account
<1>3. CASE Create
  <2>1. PICK k \in creations :
            creations' = creations \ {k} /\ used' = [used EXCEPT ![k.resource] = @ + 1]
    BY <1>3 DEF Create
  <2>2. /\ Cardinality(InFlight(k.resource)') = Cardinality(InFlight(k.resource)) - 1
        /\ \A q \in Resource \ {k.resource} : InFlight(q)' = InFlight(q)
    BY <2>1, InFlightLeaves
  <2>3. k.resource \in Resource /\ used'[k.resource] = used[k.resource] + 1
        /\ \A q \in Resource \ {k.resource} : used'[q] = used[q]
    BY <2>1 DEF Metered
  <2>4. org' = org /\ overrun' = overrun
    BY <1>3 DEF Create, account
  <2>5. \A q \in Resource \ overrun : used'[q] + Cardinality(InFlight(q)') <= org.limits
    BY <1>t, <1>u, <2>2, <2>3
  <2> QED BY <2>4, <2>5
<1>4. CASE RunUnmetered
  <2>1. InFlight("runs")' = InFlight("runs") /\ InFlight("projects")' = InFlight("projects")
    BY <1>4 DEF RunUnmetered, InFlight
  <2>2. "runs" \notin overrun' => used["runs"] < org.limits /\ Cardinality(InFlight("runs")) = 0
    BY <1>4, <1>t, <1>u, FS_EmptySet DEF RunUnmetered, Exceeded, Resource
  <2>3. used'["runs"] = used["runs"] + 1 /\ used'["projects"] = used["projects"]
    BY <1>4 DEF RunUnmetered, Metered, Resource
  <2>4. org' = org /\ overrun \subseteq overrun'
    BY <1>4 DEF RunUnmetered, account
  <2> QED BY <1>t, <1>u, <2>1, <2>2, <2>3, <2>4 DEF Resource
<1>5. CASE Handle
  <2>1. \A r \in Resource : InFlight(r)' = InFlight(r)
    BY <1>5 DEF Handle, InFlight
  <2>2. used' = used
    BY <1>5 DEF Handle
  <2>3. \/ org' = org /\ overrun' = overrun
        \/ overrun' = overrun \cup TooSmall(org'.limits)
    BY <1>5 DEF Handle
  <2> QED BY <1>t, <1>u, <2>1, <2>2, <2>3 DEF TooSmall
<1>6. CASE org'.limits = org.limits /\ UNCHANGED <<used, creations, overrun>>
  <2>1. \A r \in Resource : InFlight(r)' = InFlight(r)
    BY <1>6 DEF InFlight
  <2> QED BY <1>6, <2>1
<1>7. CASE SaveCustomer \/ SaveCancel
  <2>1. org'.limits = org.limits
    BY <1>7 DEF SaveCustomer, SaveCancel, Typed, OrgDoc
  <2> QED BY <1>6, <1>7, <2>1 DEF SaveCustomer, SaveCancel, metering
<1> QED
  BY <1>1, <1>2, <1>3, <1>4, <1>5, <1>6, <1>7
     DEF SubscriptionNext, subscriptionVars, metering, account, StartCheckout, CreateCustomer,
         CreateSession, StartCancel, CancelAtStripe, Subscribe, ChangePlan, PaymentFails,
         PaymentSucceeds, PeriodEnds, HandleFails, CallFails

----------------------------------------------------------------------------
\* What is created and what is reserved fits the plan in every state.
THEOREM LimitInvariant == SubscriptionSpec => []LimitInv
<1>1. LimitInv /\ [SubscriptionNext]_subscriptionVars => LimitInv'
  <2>1. Typed => calls \in Nat
    BY DEF Typed
  <2> QED BY <2>1, TypedKept, MeteredKept, ReservedKept DEF LimitInv
<1> QED BY SubscriptionStarts, <1>1, PTL DEF SubscriptionSpec

\* Limits of a plan (planLimits.ts, projects.ts): the handlers count first and insert
\* later; a resource is beyond its limit only if one of the named exceptions was met.
THEOREM UsageIsWithinPlan == SubscriptionSpec => []UsedWithinPlan
<1>1. LimitInv => UsedWithinPlan
  <2> SUFFICES ASSUME LimitInv, NEW r \in Resource \ overrun PROVE used[r] <= org.limits
    BY DEF UsedWithinPlan
  <2>1. Cardinality(InFlight(r)) \in Nat
    BY InFlightFinite DEF LimitInv
  <2> QED BY <2>1 DEF LimitInv, Reserved, Metered, Typed, OrgDoc
<1> QED BY LimitInvariant, <1>1, PTL

----------------------------------------------------------------------------
(***************************************************************************)
(* The plan that Stripe knows.                                             *)
(***************************************************************************)
\* One customer, whom the document names as soon as anything is bought.
Named == org.customer \in customers

OneCustomer ==
    /\ customers \subseteq Customer /\ \A c, d \in customers : c = d
    /\ org.customer \in customers \cup {NoCustomer}
    /\ \A k \in checkouts : /\ k.at # "customer" => k.customer \in customers
                            /\ k.at = "session" => Named
    /\ \A p \in openSessions : p.customer \in customers /\ Named
    /\ \A s \in Sub : stripe[s].status # "none" => stripe[s].customer \in customers /\ Named
    /\ \A e \in events : e.customer \in customers /\ Named

OneLive == \A s, t \in Live : s = t

\* The event that says what Stripe holds since it last emitted any.
Latest(e) == e.n = emitted /\ e.kind \in {"updated", "deleted"}

\* What was emitted later than anything written is still to be delivered.
InTurn ==
    /\ applied \in Nat /\ applied <= emitted
    /\ \A e \in events : applied <= e.n /\ e.n <= emitted
    /\ applied < emitted => \E e \in events : Latest(e)

\* The events of the last moment agree with Stripe.
UpToDate ==
    \A e \in events : e.n = emitted =>
        /\ e.kind = "deleted" => Live = {}
        /\ e.kind # "deleted" => /\ e.sub \in Live
                                 /\ e.plan = stripe[e.sub].plan
                                 /\ e.status = stripe[e.sub].status
        /\ e.kind = "paid" => e.status = "active"
        /\ e.kind = "failed" => e.status = "past_due"

Settled ==
    IF Live = {} THEN org.plan = "free" /\ org.sub = NoSub /\ org.status # "active"
    ELSE \A s \in Live : /\ org.plan = stripe[s].plan /\ org.sub = s
                         /\ org.status = stripe[s].status

\* The document is right, or the event that corrects it is on its way.
Followed == Settled \/ \E e \in events : Latest(e)

FollowInv == astray = {} => OneCustomer /\ OneLive /\ InTurn /\ UpToDate /\ Followed

LEMMA AstrayStays ==
    ASSUME [SubscriptionNext]_subscriptionVars
    PROVE  astray \subseteq astray'
  BY DEF SubscriptionNext, subscriptionVars, StartCheckout, CreateCustomer, SaveCustomer,
         CreateSession, StartCancel, CancelAtStripe, SaveCancel, Subscribe, ChangePlan,
         PaymentFails, PaymentSucceeds, PeriodEnds, Handle, HandleFails, CallFails, CheckLimit,
         CheckFailsOpen, Create, RunUnmetered

\* New events are the latest.
LEMMA EmitFollows ==
    ASSUME Typed, InTurn, NEW s \in Sub, NEW kinds \in SUBSET Kind, Emit(kinds, s),
           applied' = applied,
           \/ kinds = {"deleted"} /\ Live' = {}
           \/ "updated" \in kinds /\ "deleted" \notin kinds /\ s \in Live',
           "paid" \in kinds => stripe'[s].status = "active",
           "failed" \in kinds => stripe'[s].status = "past_due"
    PROVE  InTurn' /\ UpToDate' /\ Followed'
<1> DEFINE New(k) == [n |-> emitted', kind |-> k, sub |-> s, customer |-> stripe'[s].customer,
                      plan |-> stripe'[s].plan, status |-> stripe'[s].status]
<1>1. emitted \in Nat /\ emitted' = emitted + 1 /\ applied \in Nat /\ applied <= emitted
  BY DEF Typed, InTurn, Emit
<1>2. events' = events \cup {New(k) : k \in kinds}
  BY DEF Emit
<1>3. \A k \in kinds : /\ New(k).n = emitted' /\ New(k).kind = k /\ New(k).sub = s
                       /\ New(k).plan = stripe'[s].plan /\ New(k).status = stripe'[s].status
  OBVIOUS
<1> HIDE DEF New
<1>4. \A e \in events : applied <= e.n /\ e.n <= emitted /\ e.n \in Nat
  BY DEF Typed, InTurn, Notice
<1>5. \E e \in events' : Latest(e)'
  <2>1. PICK k \in kinds : k \in {"updated", "deleted"}
    OBVIOUS
  <2> QED BY <1>2, <1>3, <2>1 DEF Latest
<1>6. \A e \in events' : applied <= e.n /\ e.n <= emitted'
  BY <1>1, <1>2, <1>3, <1>4
<1>7. \A e \in events' : e.n = emitted' => \E k \in kinds : e = New(k)
  BY <1>1, <1>2, <1>4
<1>8. UpToDate'
  BY <1>3, <1>7 DEF UpToDate
<1> QED BY <1>1, <1>5, <1>6, <1>8 DEF InTurn, Followed

\* Nothing that matters to Stripe or to its events happens.
LEMMA QuietFollows ==
    ASSUME OneLive, InTurn, UpToDate, Followed,
           UNCHANGED <<stripe, events, emitted, applied>>,
           org'.plan = org.plan, org'.sub = org.sub, org'.status = org.status
    PROVE  OneLive' /\ InTurn' /\ UpToDate' /\ Followed'
<1>1. Live' = Live
  BY DEF Live
<1>2. \A e : Latest(e)' <=> Latest(e)
  BY DEF Latest
<1>3. Settled' <=> Settled
  BY <1>1 DEF Settled
<1>4. OneLive'
  BY <1>1 DEF OneLive
<1>5. InTurn'
  BY <1>2 DEF InTurn
<1>6. UpToDate'
  BY <1>1 DEF UpToDate
<1>7. Followed'
  BY <1>2, <1>3 DEF Followed
<1> QED BY <1>4, <1>5, <1>6, <1>7

\* An event of the customer, written in turn.
LEMMA WrittenInTurn ==
    ASSUME Typed, OneLive, InTurn, UpToDate, Followed, NEW e \in events,
           ~OutOfTurn(e), Deliver(e), org' = Outcome(e),
           applied' = IF e.n > applied THEN e.n ELSE applied, UNCHANGED <<stripe, emitted>>
    PROVE  OneLive' /\ InTurn' /\ UpToDate' /\ Followed'
<1>1. /\ e.n \in Nat /\ emitted \in Nat /\ applied \in Nat
      /\ applied <= e.n /\ e.n <= emitted /\ applied' = e.n
      /\ e.kind \in Kind /\ e.sub \in Sub
  BY DEF Typed, InTurn, Notice
<1>2. Live' = Live /\ emitted' = emitted /\ stripe' = stripe
  BY DEF Live
<1>3. events' \subseteq events /\ \A d \in events : d # e => d \in events'
  BY DEF Deliver
<1>4. \A d \in events : d.n \in Nat /\ e.n <= d.n /\ d.n <= emitted
  <2>1. \A d \in events : d.n \in Nat /\ d.n <= emitted
    BY DEF Typed, InTurn, Notice
  <2>2. \A d \in events : ~(d.n < e.n)
    BY DEF OutOfTurn
  <2> QED BY <1>1, <2>1, <2>2
<1>5. OneLive' /\ UpToDate'
  BY <1>2, <1>3 DEF OneLive, UpToDate
<1>6. CASE e.n < emitted
  <2>1. PICK d \in events : Latest(d)
    BY <1>1, <1>6 DEF InTurn
  <2>2. d \in events' /\ Latest(d)'
    BY <1>1, <1>2, <1>3, <1>6, <2>1 DEF Latest
  <2>3. InTurn'
    BY <1>1, <1>2, <1>3, <1>4, <2>2 DEF InTurn
  <2> QED BY <1>5, <2>2, <2>3 DEF Followed
<1>7. CASE e.n = emitted
  <2>1. InTurn'
    BY <1>1, <1>2, <1>3, <1>4, <1>7 DEF InTurn
  <2>2. CASE e.kind = "deleted"
    <3>1. Live = {} /\ org' = DowngradeToFree
      BY <1>7, <2>2 DEF UpToDate, Outcome
    <3>2. org'.plan = "free" /\ org'.sub = NoSub /\ org'.status = "canceled"
      BY <3>1 DEF DowngradeToFree, Typed, OrgDoc
    <3>3. Settled'
      BY <1>2, <3>1, <3>2 DEF Settled
    <3> QED BY <1>5, <2>1, <3>3 DEF Followed
  <2>3. CASE e.kind = "updated"
    <3>1. /\ e.sub \in Live /\ e.plan = stripe[e.sub].plan /\ e.status = stripe[e.sub].status
          /\ org' = UpdateSubscription(e)
      BY <1>7, <2>3 DEF UpToDate, Outcome
    <3>2. org'.plan = e.plan /\ org'.sub = e.sub /\ org'.status = e.status
      BY <3>1 DEF UpdateSubscription, Typed, OrgDoc
    <3>3. \A s \in Live : s = e.sub
      BY <3>1 DEF OneLive
    <3>4. Settled'
      BY <1>2, <3>1, <3>2, <3>3 DEF Settled
    <3> QED BY <1>5, <2>1, <3>4 DEF Followed
  <2>4. CASE e.kind \in {"paid", "failed"}
    <3>1. /\ e.sub \in Live /\ org'.status = stripe[e.sub].status
          /\ org'.plan = org.plan /\ org'.sub = org.sub
      <4>1. CASE e.kind = "paid"
        <5>1. org' = [org EXCEPT !.status = "active"]
          BY <4>1 DEF Outcome
        <5> QED BY <1>7, <4>1, <5>1 DEF UpToDate, Typed, OrgDoc
      <4>2. CASE e.kind = "failed"
        <5>1. org' = [org EXCEPT !.status = "past_due"]
          BY <4>2 DEF Outcome
        <5> QED BY <1>7, <4>2, <5>1 DEF UpToDate, Typed, OrgDoc
      <4> QED BY <2>4, <4>1, <4>2
    <3>2. CASE Settled
      <4>1. Settled'
        BY <1>2, <3>1, <3>2 DEF Settled, OneLive
      <4> QED BY <1>5, <2>1, <4>1 DEF Followed
    <3>3. CASE ~Settled
      <4>1. PICK d \in events : Latest(d)
        BY <3>3 DEF Followed
      <4>2. d \in events' /\ Latest(d)'
        BY <1>2, <1>3, <2>4, <4>1 DEF Latest
      <4> QED BY <1>5, <2>1, <4>2 DEF Followed
    <3> QED BY <3>2, <3>3
  <2> QED BY <1>1, <2>2, <2>3, <2>4 DEF Kind
<1> QED BY <1>1, <1>6, <1>7

\* While no second customer is made, everybody is the one the document names.
LEMMA OneCustomerKept ==
    ASSUME Typed, OneCustomer, astray' = {}, [SubscriptionNext]_subscriptionVars
    PROVE  OneCustomer'
<1> USE NoStripeAssumption DEF Named
<1>0. astray = {}
  BY AstrayStays
<1>1. CASE StartCheckout
  <2>1. PICK p \in Paid :
            checkouts' = checkouts \cup
              {[call |-> calls, plan |-> p, customer |-> org.customer,
                at |-> IF org.customer = NoCustomer THEN "customer" ELSE "session"]}
    BY <1>1 DEF StartCheckout
  <2>2. UNCHANGED <<org, stripe, customers, openSessions, events>>
    BY <1>1 DEF StartCheckout, account
  <2> DEFINE new == [call |-> calls, plan |-> p, customer |-> org.customer,
                     at |-> IF org.customer = NoCustomer THEN "customer" ELSE "session"]
  <2>3. /\ new.customer = org.customer
        /\ org.customer = NoCustomer => new.at = "customer"
    OBVIOUS
  <2>4. checkouts' = checkouts \cup {new}
    BY <2>1
  <2> HIDE DEF new
  <2> QED BY <2>2, <2>3, <2>4 DEF OneCustomer
<1>2. CASE CreateCustomer
  <2>1. NextOf(Customer \ customers) \subseteq Customer
    BY DEF NextOf
  <2>2. PICK k \in checkouts, c \in Customer :
           /\ customers' = customers \cup {c} /\ k.at = "customer"
           /\ checkouts' = (checkouts \ {k}) \cup {[k EXCEPT !.customer = c, !.at = "save"]}
           /\ astray' = IF customers = {} THEN astray ELSE astray \cup {"customers"}
    BY <1>2, <2>1 DEF CreateCustomer
  <2>3. customers = {}
    BY <2>2
  <2>4. /\ UNCHANGED <<org, stripe, openSessions, events>>
    BY <1>2 DEF CreateCustomer
  <2> DEFINE saving == [k EXCEPT !.customer = c, !.at = "save"]
  <2>5. saving.customer = c /\ saving.at = "save"
    BY DEF Typed, Checkout
  <2>6. checkouts' = (checkouts \ {k}) \cup {saving}
    BY <2>2
  <2> HIDE DEF saving
  <2>7. \A l \in checkouts : l.at = "customer"
    BY <2>3 DEF OneCustomer
  <2> QED BY <2>2, <2>3, <2>4, <2>5, <2>6, <2>7 DEF OneCustomer
<1>3. CASE SaveCustomer
  <2>1. PICK k \in checkouts :
           /\ k.at = "save"
           /\ org' = [org EXCEPT !.customer = k.customer]
           /\ checkouts' = (checkouts \ {k}) \cup {[k EXCEPT !.at = "session"]}
    BY <1>3 DEF SaveCustomer
  <2>2. UNCHANGED <<stripe, customers, openSessions, events>>
    BY <1>3 DEF SaveCustomer
  <2>3. org'.customer = k.customer /\ k.customer \in customers
    BY <2>1 DEF OneCustomer, Typed, OrgDoc
  <2> DEFINE buying == [k EXCEPT !.at = "session"]
  <2>4. buying.customer = k.customer
    BY DEF Typed, Checkout
  <2>5. checkouts' = (checkouts \ {k}) \cup {buying}
    BY <2>1
  <2> HIDE DEF buying
  <2> QED BY <2>2, <2>3, <2>4, <2>5 DEF OneCustomer
<1>4. CASE CreateSession
  <2>1. PICK k \in checkouts :
           /\ k.at = "session"
           /\ openSessions' = openSessions \cup
                {[call |-> k.call, customer |-> k.customer, plan |-> k.plan]}
           /\ checkouts' = checkouts \ {k}
    BY <1>4 DEF CreateSession
  <2>2. UNCHANGED <<org, stripe, customers, events>>
    BY <1>4 DEF CreateSession, account
  <2>3. k.customer \in customers /\ Named
    BY <2>1 DEF OneCustomer
  <2> QED BY <2>1, <2>2, <2>3 DEF OneCustomer
<1>5. ASSUME NEW s \in Sub, NEW kinds, Emit(kinds, s), stripe'[s].customer \in customers, Named,
             \A t \in Sub \ {s} : stripe'[t] = stripe[t],
             UNCHANGED <<org, customers, checkouts>>, openSessions' \subseteq openSessions
      PROVE  OneCustomer'
  <2>1. \A e \in events' : e \in events \/ e.customer = stripe'[s].customer
    BY <1>5 DEF Emit
  <2> QED BY <1>5, <2>1 DEF OneCustomer
<1>6. CASE CancelAtStripe
  <2>1. CASE UNCHANGED <<stripe, events, emitted>>
    BY <1>6, <2>1 DEF CancelAtStripe, OneCustomer
  <2>2. CASE ~UNCHANGED <<stripe, events, emitted>>
    <3>1. PICK s \in Live : /\ stripe' = [stripe EXCEPT ![s].ending = TRUE]
                          /\ Emit({"updated"}, s)
      BY <1>6, <2>2 DEF CancelAtStripe
    <3>2. /\ s \in Sub /\ stripe'[s].customer = stripe[s].customer /\ stripe[s].status # "none"
          /\ \A t \in Sub \ {s} : stripe'[t] = stripe[t]
      BY <3>1 DEF Live, Typed, Contract
    <3> QED BY <1>5, <1>6, <3>1, <3>2 DEF CancelAtStripe, OneCustomer
  <2> QED BY <2>1, <2>2
<1>7. CASE Subscribe
  <2>1. PICK p \in openSessions, s \in Sub :
            /\ stripe' = [stripe EXCEPT ![s] = [customer |-> p.customer, plan |-> p.plan,
                                                status |-> "active", ending |-> FALSE]]
            /\ Emit({"updated", "paid"}, s)
    <3>1. NextOf({t \in Sub : stripe[t].status = "none"}) \subseteq Sub
      BY DEF NextOf
    <3> QED BY <1>7, <3>1 DEF Subscribe
  <2>2. /\ stripe'[s].customer = p.customer /\ p.customer \in customers /\ Named
        /\ \A t \in Sub \ {s} : stripe'[t] = stripe[t]
    BY <2>1 DEF Typed, OneCustomer
  <2> QED BY <1>5, <1>7, <2>1, <2>2 DEF Subscribe
<1>8. CASE ChangePlan
  <2>1. PICK s \in Live, p \in Paid :
           stripe' = [stripe EXCEPT ![s].plan = p] /\ Emit({"updated"}, s)
    BY <1>8 DEF ChangePlan
  <2>2. /\ s \in Sub /\ stripe'[s].customer = stripe[s].customer /\ stripe[s].status # "none"
        /\ \A t \in Sub \ {s} : stripe'[t] = stripe[t]
    BY <2>1 DEF Live, Typed, Contract
  <2> QED BY <1>5, <1>8, <2>1, <2>2 DEF ChangePlan, OneCustomer
<1>9. CASE PaymentFails \/ PaymentSucceeds \/ PeriodEnds
  <2>1. PICK s \in Live : /\ \E w : stripe' = [stripe EXCEPT ![s].status = w]
                          /\ \E kinds : Emit(kinds, s)
    BY <1>9 DEF PaymentFails, PaymentSucceeds, PeriodEnds
  <2>2. /\ s \in Sub /\ stripe'[s].customer = stripe[s].customer /\ stripe[s].status # "none"
        /\ \A t \in Sub \ {s} : stripe'[t] = stripe[t]
    BY <2>1 DEF Live, Typed, Contract
  <2>3. UNCHANGED <<org, customers, checkouts, openSessions>>
    BY <1>9 DEF PaymentFails, PaymentSucceeds, PeriodEnds
  <2> QED BY <1>5, <2>1, <2>2, <2>3 DEF OneCustomer
<1>10. CASE Handle
  <2>1. PICK e \in events : org' = Outcome(e) \/ org' = org
    BY <1>10 DEF Handle
  <2>2. e.kind \in Kind /\ org'.customer = org.customer
    BY <2>1 DEF Outcome, UpdateSubscription, DowngradeToFree, Typed, OrgDoc, Notice, Kind
  <2>3. events' \subseteq events /\ UNCHANGED <<stripe, customers, openSessions, checkouts>>
    BY <1>10 DEF Handle, Deliver
  <2> QED BY <2>2, <2>3 DEF OneCustomer
<1>11. CASE SaveCancel
  <2>1. org'.customer = org.customer
    BY <1>11 DEF SaveCancel, Typed, OrgDoc
  <2> QED BY <1>11, <2>1 DEF SaveCancel, OneCustomer
<1>12. CASE CallFails
  BY <1>12 DEF CallFails, OneCustomer, account
<1>13. CASE HandleFails
  BY <1>13 DEF HandleFails
<1>14. CASE UNCHANGED <<org, stripe, customers, openSessions, events, checkouts>>
  BY <1>14 DEF OneCustomer
<1> QED BY <1>1, <1>2, <1>3, <1>4, <1>6, <1>7, <1>8, <1>9, <1>10, <1>11, <1>12, <1>13, <1>14
        DEF SubscriptionNext, subscriptionVars, StartCancel, CheckLimit, CheckFailsOpen, Create,
            RunUnmetered, account, traffic

\* What Stripe emits is on its way, and what is written in turn is right.
LEMMA FollowKept ==
    ASSUME Typed, Typed', OneCustomer, OneLive, InTurn, UpToDate, Followed, astray' = {},
           [SubscriptionNext]_subscriptionVars
    PROVE  OneLive' /\ InTurn' /\ UpToDate' /\ Followed'
<1>0. astray = {}
  BY AstrayStays
<1>1. CASE Subscribe
  <2>1. PICK p \in openSessions, s \in Sub :
            /\ stripe' = [stripe EXCEPT ![s] = [customer |-> p.customer, plan |-> p.plan,
                                                status |-> "active", ending |-> FALSE]]
            /\ Emit({"updated", "paid"}, s)
    <3>1. NextOf({t \in Sub : stripe[t].status = "none"}) \subseteq Sub
      BY DEF NextOf
    <3> QED BY <1>1, <3>1 DEF Subscribe
  <2>2. Live = {} /\ applied' = applied
    BY <1>0, <1>1 DEF Subscribe
  <2>3. Live' = {s} /\ stripe'[s].status = "active"
    BY <2>1, <2>2 DEF Live, Typed
  <2>4. InTurn' /\ UpToDate' /\ Followed'
    BY <2>1, <2>2, <2>3, EmitFollows DEF Kind
  <2> QED BY <2>3, <2>4 DEF OneLive
<1>2. CASE ChangePlan
  <2>1. PICK s \in Live, p \in Paid :
           stripe' = [stripe EXCEPT ![s].plan = p] /\ Emit({"updated"}, s)
    BY <1>2 DEF ChangePlan
  <2>2. s \in Sub /\ Live' = Live /\ applied' = applied
    BY <1>2, <2>1 DEF Live, Typed, Contract, ChangePlan
  <2>3. InTurn' /\ UpToDate' /\ Followed'
    BY <2>1, <2>2, EmitFollows DEF Kind
  <2> QED BY <2>2, <2>3 DEF OneLive
<1>3. CASE PaymentFails
  <2>1. PICK s \in Live :
           stripe' = [stripe EXCEPT ![s].status = "past_due"] /\ Emit({"updated", "failed"}, s)
    BY <1>3 DEF PaymentFails
  <2>2. s \in Sub /\ Live' = Live /\ applied' = applied /\ stripe'[s].status = "past_due"
    BY <1>3, <2>1 DEF Live, Typed, Contract, PaymentFails
  <2>3. InTurn' /\ UpToDate' /\ Followed'
    BY <2>1, <2>2, EmitFollows DEF Kind
  <2> QED BY <2>2, <2>3 DEF OneLive
<1>4. CASE PaymentSucceeds
  <2>1. PICK s \in Live :
           stripe' = [stripe EXCEPT ![s].status = "active"] /\ Emit({"updated", "paid"}, s)
    BY <1>4 DEF PaymentSucceeds
  <2>2. s \in Sub /\ Live' = Live /\ applied' = applied /\ stripe'[s].status = "active"
    BY <1>4, <2>1 DEF Live, Typed, Contract, PaymentSucceeds
  <2>3. InTurn' /\ UpToDate' /\ Followed'
    BY <2>1, <2>2, EmitFollows DEF Kind
  <2> QED BY <2>2, <2>3 DEF OneLive
<1>5. CASE PeriodEnds
  <2>1. PICK s \in Live :
           stripe' = [stripe EXCEPT ![s].status = "canceled"] /\ Emit({"deleted"}, s)
    BY <1>5 DEF PeriodEnds
  <2>2. s \in Sub /\ Live' = {} /\ applied' = applied
    BY <1>5, <2>1 DEF Live, Typed, Contract, PeriodEnds, OneLive
  <2>3. InTurn' /\ UpToDate' /\ Followed'
    BY <2>1, <2>2, EmitFollows DEF Kind
  <2> QED BY <2>2, <2>3 DEF OneLive
<1>6. CASE CancelAtStripe
  <2>1. org' = org /\ applied' = applied
    BY <1>6 DEF CancelAtStripe
  <2>2. CASE UNCHANGED <<stripe, events, emitted>>
    BY <2>1, <2>2, QuietFollows
  <2>3. CASE ~UNCHANGED <<stripe, events, emitted>>
    <3>1. PICK s \in Live : /\ stripe' = [stripe EXCEPT ![s].ending = TRUE]
                          /\ Emit({"updated"}, s)
      BY <1>6, <2>3 DEF CancelAtStripe
    <3>2. s \in Sub /\ Live' = Live
      BY <3>1 DEF Live, Typed, Contract
    <3>3. InTurn' /\ UpToDate' /\ Followed'
      BY <2>1, <3>1, <3>2, EmitFollows DEF Kind
    <3> QED BY <3>2, <3>3 DEF OneLive
  <2> QED BY <2>2, <2>3
<1>7. CASE Handle
  <2>1. PICK e \in events :
           /\ Deliver(e)
           /\ IF e.customer = org.customer
              THEN /\ org' = Outcome(e)
                   /\ applied' = IF e.n > applied THEN e.n ELSE applied
                   /\ astray' = IF OutOfTurn(e) THEN astray \cup {"order"} ELSE astray
              ELSE UNCHANGED <<org, applied, astray>>
           /\ UNCHANGED <<stripe, emitted>>
    BY <1>7 DEF Handle
  <2>2. e.customer = org.customer
    BY DEF OneCustomer, Named
  <2>3. ~OutOfTurn(e)
    BY <2>1, <2>2
  <2> QED BY <2>1, <2>2, <2>3, WrittenInTurn
<1>8. CASE SaveCustomer \/ SaveCancel
  <2>1. org'.plan = org.plan /\ org'.sub = org.sub /\ org'.status = org.status
    BY <1>8 DEF SaveCustomer, SaveCancel, Typed, OrgDoc
  <2> QED BY <1>8, <2>1, QuietFollows DEF SaveCustomer, SaveCancel
<1>9. CASE HandleFails
  BY <1>9 DEF HandleFails
<1>10. CASE UNCHANGED <<org, stripe, events, emitted, applied>>
  BY <1>10, QuietFollows
<1> QED BY <1>1, <1>2, <1>3, <1>4, <1>5, <1>6, <1>7, <1>8, <1>9, <1>10
        DEF SubscriptionNext, subscriptionVars, StartCheckout, CreateCustomer, CreateSession,
            StartCancel, CallFails, CheckLimit, CheckFailsOpen, Create, RunUnmetered, account,
            traffic

\* Unless something went astray, the document is right or will be corrected.
THEOREM FollowInvariant == SubscriptionSpec => [](Typed /\ FollowInv)
<1>1. SubscriptionInit => FollowInv
  <2> SUFFICES ASSUME SubscriptionInit PROVE FollowInv
    OBVIOUS
  <2>1. Live = {}
    BY DEF SubscriptionInit, Live
  <2>2. OneCustomer
    BY DEF SubscriptionInit, OneCustomer
  <2>3. OneLive /\ InTurn /\ UpToDate
    BY <2>1 DEF SubscriptionInit, OneLive, InTurn, UpToDate
  <2>4. Settled
    BY <2>1 DEF SubscriptionInit, Settled
  <2> QED BY <2>2, <2>3, <2>4 DEF FollowInv, Followed
<1>2. SubscriptionInit => Typed
  BY SubscriptionStarts DEF LimitInv
<1>3. Typed /\ FollowInv /\ [SubscriptionNext]_subscriptionVars => (Typed /\ FollowInv)'
  BY AstrayStays, TypedKept, OneCustomerKept, FollowKept DEF FollowInv
<1> QED BY <1>1, <1>2, <1>3, PTL DEF SubscriptionSpec

\* PlanFollowsStripe: once every event has been handled, the plan, the subscription and
\* the status of the organization are those Stripe holds (webhooks.ts), unless one of
\* the named accidents happened.
THEOREM StripeIsFollowed == SubscriptionSpec => []PlanFollowsStripe
<1>1. FollowInv => PlanFollowsStripe
  BY DEF FollowInv, Followed, Settled, PlanFollowsStripe
<1> QED BY <1>1, FollowInvariant, PTL

----------------------------------------------------------------------------
\* A customer is named as soon as there is a session, a subscription or an event.
Billed ==
    /\ \A k \in checkouts : k.at # "customer" => k.customer \in Customer
    /\ \A p \in openSessions : p.customer \in Customer
    /\ \A s \in Sub : stripe[s].status # "none" => stripe[s].customer \in Customer
    /\ \A e \in events : e.customer \in Customer

\* An event is no later than the last moment at which Stripe emitted one.
Counted ==
    /\ calls <= MaxCalls /\ emitted <= MaxEvents /\ faults \in 0..MaxFaults
    /\ \A e \in events : e.n <= emitted
    /\ applied \in Nat /\ applied <= emitted
    /\ customers \subseteq Customer /\ astray \subseteq Reason /\ overrun \subseteq Resource

SubscriptionTypes == Typed /\ Metered /\ Billed /\ Counted

LEMMA SubscriptionTypesStart == SubscriptionInit => SubscriptionTypes
<1> SUFFICES ASSUME SubscriptionInit PROVE SubscriptionTypes
  OBVIOUS
<1>1. Typed /\ Metered
  BY SubscriptionStarts DEF LimitInv
<1>2. Billed
  BY DEF SubscriptionInit, Billed
<1>3. 0 \in 0..MaxFaults
  BY SubscriptionAssumption
<1>4. Counted
  BY <1>3, SubscriptionAssumption DEF SubscriptionInit, Counted
<1> QED BY <1>1, <1>2, <1>4 DEF SubscriptionTypes

\* An event names the customer of its subscription and the moment it is emitted.
LEMMA EmitBilled ==
    ASSUME Typed, Billed, NEW s \in Sub, NEW kinds, Emit(kinds, s),
           stripe'[s].customer \in Customer
    PROVE  \A e \in events' : e.customer \in Customer
<1> SUFFICES ASSUME NEW e \in events' PROVE e.customer \in Customer
  OBVIOUS
<1>1. CASE e \in events
  BY <1>1 DEF Billed
<1>2. CASE e \notin events
  <2>1. PICK k \in kinds :
           e = [n |-> emitted', kind |-> k, sub |-> s, customer |-> stripe'[s].customer,
                plan |-> stripe'[s].plan, status |-> stripe'[s].status]
    BY <1>2 DEF Emit
  <2> QED BY <2>1
<1> QED BY <1>1, <1>2

LEMMA EmitCounted ==
    ASSUME Typed, Counted, NEW s \in Sub, NEW kinds, Emit(kinds, s)
    PROVE  /\ emitted' <= MaxEvents /\ applied <= emitted'
           /\ \A e \in events' : e.n <= emitted'
<1>1. /\ emitted \in Nat /\ applied \in Nat /\ applied <= emitted
      /\ emitted < MaxEvents /\ emitted' = emitted + 1
  BY DEF Typed, Counted, Emit
<1>2. emitted' <= MaxEvents /\ applied <= emitted' /\ emitted' \in Nat
  BY <1>1, SubscriptionAssumption
<1>3. \A e \in events' : e.n <= emitted'
  <2> SUFFICES ASSUME NEW e \in events' PROVE e.n <= emitted'
    OBVIOUS
  <2>1. CASE e \in events
    <3>1. e.n \in Nat /\ e.n <= emitted
      BY <2>1 DEF Typed, Notice, Counted
    <3> QED BY <3>1, <1>1
  <2>2. CASE e \notin events
    <3>1. PICK k \in kinds :
             e = [n |-> emitted', kind |-> k, sub |-> s, customer |-> stripe'[s].customer,
                  plan |-> stripe'[s].plan, status |-> stripe'[s].status]
      BY <2>2 DEF Emit
    <3>2. e.n = emitted'
      BY <3>1
    <3> QED BY <3>2, <1>2
  <2> QED BY <2>1, <2>2
<1> QED BY <1>2, <1>3

LEMMA BilledKept ==
    ASSUME Typed, Billed, [SubscriptionNext]_subscriptionVars
    PROVE  Billed'
<1> USE DEF account, traffic, metering
<1>1. CASE StartCheckout
  <2>1. PICK p \in Paid :
            checkouts' = checkouts \cup
              {[call |-> calls, plan |-> p, customer |-> org.customer,
                at |-> IF org.customer = NoCustomer THEN "customer" ELSE "session"]}
    BY <1>1 DEF StartCheckout
  <2>2. org.customer \in Customer \cup {NoCustomer}
    BY DEF Typed, OrgDoc
  <2>3. \A k \in checkouts' : k.at # "customer" => k.customer \in Customer
    BY <2>1, <2>2 DEF Billed
  <2> QED BY <1>1, <2>3 DEF StartCheckout, Billed
<1>2. CASE CreateCustomer
  <2>1. NextOf(Customer \ customers) \subseteq Customer
    BY DEF NextOf
  <2>2. PICK k \in checkouts, c \in Customer :
            checkouts' = (checkouts \ {k}) \cup {[k EXCEPT !.customer = c, !.at = "save"]}
    BY <1>2, <2>1 DEF CreateCustomer
  <2>3. [k EXCEPT !.customer = c, !.at = "save"].customer = c
    BY DEF Typed, Checkout
  <2>4. \A j \in checkouts' : j.at # "customer" => j.customer \in Customer
    BY <2>2, <2>3 DEF Billed
  <2> QED BY <1>2, <2>4 DEF CreateCustomer, Billed
<1>3. CASE SaveCustomer
  <2>1. PICK k \in checkouts :
            /\ k.at = "save"
            /\ checkouts' = (checkouts \ {k}) \cup {[k EXCEPT !.at = "session"]}
    BY <1>3 DEF SaveCustomer
  <2>2. [k EXCEPT !.at = "session"].customer = k.customer /\ k.customer \in Customer
    BY <2>1 DEF Typed, Checkout, Billed
  <2>3. \A j \in checkouts' : j.at # "customer" => j.customer \in Customer
    BY <2>1, <2>2 DEF Billed
  <2> QED BY <1>3, <2>3 DEF SaveCustomer, Billed
<1>4. CASE CreateSession
  <2>1. PICK k \in checkouts :
            /\ k.at = "session" /\ checkouts' = checkouts \ {k}
            /\ openSessions' = openSessions \cup
                 {[call |-> k.call, customer |-> k.customer, plan |-> k.plan]}
    BY <1>4 DEF CreateSession
  <2>2. k.customer \in Customer
    BY <2>1 DEF Billed
  <2>3. \A p \in openSessions' : p.customer \in Customer
    BY <2>1, <2>2 DEF Billed
  <2> QED BY <1>4, <2>1, <2>3 DEF CreateSession, Billed
<1>5. CASE StartCancel
  BY <1>5 DEF StartCancel, Billed
<1>6. CASE CancelAtStripe
  <2>1. CASE UNCHANGED <<stripe, events, emitted>>
    BY <1>6, <2>1 DEF CancelAtStripe, Billed
  <2>2. CASE ~UNCHANGED <<stripe, events, emitted>>
    <3>1. PICK s \in Live : /\ stripe' = [stripe EXCEPT ![s].ending = TRUE]
                          /\ Emit({"updated"}, s)
      BY <1>6, <2>2 DEF CancelAtStripe
    <3>2. /\ s \in Sub /\ stripe'[s].customer = stripe[s].customer
          /\ stripe'[s].status = stripe[s].status /\ stripe[s].status # "none"
          /\ \A t \in Sub \ {s} : stripe'[t] = stripe[t]
      BY <3>1 DEF Typed, Contract, Live
    <3>3. \A t \in Sub : stripe'[t].status # "none" => stripe'[t].customer \in Customer
      BY <3>2 DEF Billed
    <3>4. \A e \in events' : e.customer \in Customer
      BY <3>1, <3>2, <3>3, EmitBilled
    <3> QED BY <1>6, <3>3, <3>4 DEF CancelAtStripe, Billed
  <2> QED BY <2>1, <2>2
<1>7. CASE SaveCancel
  BY <1>7 DEF SaveCancel, Billed
<1>8. CASE Subscribe
  <2>1. PICK p \in openSessions, s \in Sub :
            /\ openSessions' = openSessions \ {p}
            /\ stripe' = [stripe EXCEPT ![s] = [customer |-> p.customer, plan |-> p.plan,
                                                status |-> "active", ending |-> FALSE]]
            /\ Emit({"updated", "paid"}, s)
    <3>1. NextOf({t \in Sub : stripe[t].status = "none"}) \subseteq Sub
      BY DEF NextOf
    <3> QED BY <1>8, <3>1 DEF Subscribe
  <2>2. stripe'[s].customer \in Customer /\ \A t \in Sub \ {s} : stripe'[t] = stripe[t]
    BY <2>1 DEF Typed, Billed
  <2>3. \A t \in Sub : stripe'[t].status # "none" => stripe'[t].customer \in Customer
    BY <2>2 DEF Billed
  <2>4. \A e \in events' : e.customer \in Customer
    BY <2>1, <2>2, EmitBilled
  <2> QED BY <1>8, <2>1, <2>3, <2>4 DEF Subscribe, Billed
<1>9. CASE ChangePlan \/ PaymentFails \/ PaymentSucceeds \/ PeriodEnds
  <2>1. PICK s \in Sub, kinds \in SUBSET Kind :
            /\ Emit(kinds, s) /\ s \in Live
            /\ \/ \E p \in Paid : stripe' = [stripe EXCEPT ![s].plan = p]
               \/ \E q \in {"past_due", "active", "canceled"} :
                     stripe' = [stripe EXCEPT ![s].status = q]
    <3>1. {"updated"} \in SUBSET Kind /\ {"updated", "failed"} \in SUBSET Kind
          /\ {"updated", "paid"} \in SUBSET Kind /\ {"deleted"} \in SUBSET Kind
      BY DEF Kind
    <3>2. Live \subseteq Sub
      BY DEF Live
    <3>3. CASE ChangePlan
      BY <3>1, <3>2, <3>3 DEF ChangePlan
    <3>4. CASE PaymentFails
      BY <3>1, <3>2, <3>4 DEF PaymentFails
    <3>5. CASE PaymentSucceeds
      BY <3>1, <3>2, <3>5 DEF PaymentSucceeds
    <3>6. CASE PeriodEnds
      BY <3>1, <3>2, <3>6 DEF PeriodEnds
    <3> QED BY <1>9, <3>3, <3>4, <3>5, <3>6
  <2>2. stripe'[s].customer = stripe[s].customer /\ stripe[s].status # "none"
        /\ \A t \in Sub \ {s} : stripe'[t] = stripe[t]
    BY <2>1 DEF Typed, Contract, Live
  <2>3. \A t \in Sub : stripe'[t].status # "none" => stripe'[t].customer \in Customer
    BY <2>2 DEF Billed
  <2>4. \A e \in events' : e.customer \in Customer
    BY <2>1, <2>2, EmitBilled DEF Billed
  <2>5. UNCHANGED <<openSessions, checkouts>>
    BY <1>9 DEF ChangePlan, PaymentFails, PaymentSucceeds, PeriodEnds
  <2> QED BY <2>3, <2>4, <2>5 DEF Billed
<1>10. CASE Handle \/ HandleFails
  <2>1. events' \subseteq events /\ UNCHANGED <<stripe, openSessions, checkouts>>
    BY <1>10 DEF Handle, HandleFails, Deliver
  <2> QED BY <2>1 DEF Billed
<1>11. CASE CallFails
  <2>1. checkouts' \subseteq checkouts /\ UNCHANGED <<stripe, openSessions, events>>
    BY <1>11 DEF CallFails
  <2> QED BY <2>1 DEF Billed
<1>12. CASE UNCHANGED <<stripe, openSessions, events, checkouts>>
  BY <1>12 DEF Billed
<1> QED BY <1>1, <1>2, <1>3, <1>4, <1>5, <1>6, <1>7, <1>8, <1>9, <1>10, <1>11, <1>12
        DEF SubscriptionNext, subscriptionVars, CheckLimit, CheckFailsOpen, Create, RunUnmetered

LEMMA CountedKept ==
    ASSUME Typed, Counted, [SubscriptionNext]_subscriptionVars
    PROVE  Counted'
<1> USE DEF account, traffic, metering
<1>1. calls' <= MaxCalls
  <2>1. calls' = calls \/ (calls < MaxCalls /\ calls' = calls + 1)
    BY DEF SubscriptionNext, subscriptionVars, StartCheckout, CreateCustomer, SaveCustomer,
         CreateSession, StartCancel, CancelAtStripe, SaveCancel, Subscribe, ChangePlan,
         PaymentFails, PaymentSucceeds, PeriodEnds, Handle, HandleFails, CallFails,
         CheckLimit, CheckFailsOpen, Create, RunUnmetered, Call
  <2>2. calls \in Nat /\ calls <= MaxCalls
    BY DEF Typed, Counted
  <2> QED BY <2>1, <2>2, SubscriptionAssumption
<1>2. faults' \in 0..MaxFaults
  <2>1. faults' = faults \/ (faults < MaxFaults /\ faults' = faults + 1)
    BY DEF SubscriptionNext, subscriptionVars, StartCheckout, CreateCustomer, SaveCustomer,
         CreateSession, StartCancel, CancelAtStripe, SaveCancel, Subscribe, ChangePlan,
         PaymentFails, PaymentSucceeds, PeriodEnds, Handle, HandleFails, CallFails,
         CheckLimit, CheckFailsOpen, Create, RunUnmetered, Fault, Deliver
  <2>2. faults \in 0..MaxFaults
    BY DEF Counted
  <2> QED BY <2>1, <2>2, SubscriptionAssumption
<1>3. customers' \subseteq Customer
  <2>1. NextOf(Customer \ customers) \subseteq Customer
    BY DEF NextOf
  <2>2. CASE CreateCustomer
    BY <2>1, <2>2 DEF CreateCustomer, Counted
  <2>3. CASE ~CreateCustomer
    <3>1. customers' = customers
      BY <2>3 DEF SubscriptionNext, subscriptionVars, StartCheckout, SaveCustomer,
         CreateSession, StartCancel, CancelAtStripe, SaveCancel, Subscribe, ChangePlan,
         PaymentFails, PaymentSucceeds, PeriodEnds, Handle, HandleFails, CallFails,
         CheckLimit, CheckFailsOpen, Create, RunUnmetered
    <3> QED BY <3>1 DEF Counted
  <2> QED BY <2>2, <2>3
<1>4. astray' \subseteq Reason
  <2>1. \E r \in Reason : astray' \subseteq astray \cup {r}
    BY DEF SubscriptionNext, subscriptionVars, StartCheckout, CreateCustomer, SaveCustomer,
         CreateSession, StartCancel, CancelAtStripe, SaveCancel, Subscribe, ChangePlan,
         PaymentFails, PaymentSucceeds, PeriodEnds, Handle, HandleFails, CallFails,
         CheckLimit, CheckFailsOpen, Create, RunUnmetered, Reason
  <2> QED BY <2>1 DEF Counted
<1>5. overrun' \subseteq Resource
  <2>1. CASE Handle
    <3>1. \A n : TooSmall(n) \subseteq Resource
      BY DEF TooSmall
    <3>2. PICK e \in events : overrun' = overrun \cup TooSmall(Outcome(e).limits)
                              \/ overrun' = overrun
      BY <2>1 DEF Handle
    <3>3. TooSmall(Outcome(e).limits) \subseteq Resource
      BY <3>1
    <3> QED BY <3>2, <3>3 DEF Counted
  <2>2. CASE ~Handle
    <3>1. \E r \in Resource : overrun' \subseteq overrun \cup {r}
      BY <2>2 DEF SubscriptionNext, subscriptionVars, StartCheckout, CreateCustomer, SaveCustomer,
         CreateSession, StartCancel, CancelAtStripe, SaveCancel, Subscribe, ChangePlan,
         PaymentFails, PaymentSucceeds, PeriodEnds, HandleFails, CallFails,
         CheckLimit, CheckFailsOpen, Create, RunUnmetered, Resource
    <3> QED BY <3>1 DEF Counted
  <2> QED BY <2>1, <2>2
<1>6. /\ emitted' <= MaxEvents /\ applied' \in Nat /\ applied' <= emitted'
      /\ \A e \in events' : e.n <= emitted'
  <2>1. CASE \E s \in Sub, kinds \in SUBSET Kind : Emit(kinds, s) /\ applied' = applied
    <3>1. PICK s \in Sub, kinds \in SUBSET Kind : Emit(kinds, s) /\ applied' = applied
      BY <2>1
    <3> QED BY <3>1, EmitCounted DEF Counted
  <2>2. CASE Handle
    <3>1. PICK e \in events : applied' = applied \/ applied' = e.n
      BY <2>2 DEF Handle
    <3>2. e.n \in Nat /\ e.n <= emitted
      BY DEF Typed, Notice, Counted
    <3>3. events' \subseteq events /\ emitted' = emitted
      BY <2>2 DEF Handle, Deliver
    <3>4. applied' \in Nat /\ applied' <= emitted'
      BY <3>1, <3>2, <3>3 DEF Counted
    <3> QED BY <3>3, <3>4 DEF Counted
  <2>3. CASE events' \subseteq events /\ emitted' = emitted /\ applied' = applied
    BY <2>3 DEF Counted
  <2>4. \/ \E s \in Sub, kinds \in SUBSET Kind : Emit(kinds, s) /\ applied' = applied
        \/ Handle
        \/ events' \subseteq events /\ emitted' = emitted /\ applied' = applied
    <3>1. {"updated"} \in SUBSET Kind /\ {"updated", "failed"} \in SUBSET Kind
          /\ {"updated", "paid"} \in SUBSET Kind /\ {"deleted"} \in SUBSET Kind
      BY DEF Kind
    <3>2. Live \subseteq Sub
      BY DEF Live
    <3>3. CASE ChangePlan
      BY <3>1, <3>2, <3>3 DEF ChangePlan
    <3>4. CASE PaymentFails
      BY <3>1, <3>2, <3>4 DEF PaymentFails
    <3>5. CASE PaymentSucceeds
      BY <3>1, <3>2, <3>5 DEF PaymentSucceeds
    <3>6. CASE PeriodEnds
      BY <3>1, <3>2, <3>6 DEF PeriodEnds
    <3>7. CASE Subscribe
      <4>1. NextOf({t \in Sub : stripe[t].status = "none"}) \subseteq Sub
        BY DEF NextOf
      <4>2. \E s \in Sub : Emit({"updated", "paid"}, s)
        BY <3>7, <4>1 DEF Subscribe
      <4> QED BY <3>1, <3>7, <4>2 DEF Subscribe
    <3>8. CASE CancelAtStripe
      BY <3>1, <3>2, <3>8 DEF CancelAtStripe
    <3>9. CASE ~(ChangePlan \/ PaymentFails \/ PaymentSucceeds \/ PeriodEnds
                 \/ Subscribe \/ CancelAtStripe \/ Handle)
      BY <3>9 DEF SubscriptionNext, subscriptionVars, StartCheckout, CreateCustomer,
         SaveCustomer, CreateSession, StartCancel, SaveCancel, HandleFails, CallFails,
         CheckLimit, CheckFailsOpen, Create, RunUnmetered
    <3> QED BY <3>3, <3>4, <3>5, <3>6, <3>7, <3>8, <3>9
  <2> QED BY <2>1, <2>2, <2>3, <2>4
<1> QED BY <1>1, <1>2, <1>3, <1>4, <1>5, <1>6 DEF Counted

LEMMA SubscriptionTypesStep ==
    SubscriptionTypes /\ [SubscriptionNext]_subscriptionVars => SubscriptionTypes'
<1> SUFFICES ASSUME SubscriptionTypes, [SubscriptionNext]_subscriptionVars
             PROVE  SubscriptionTypes'
  OBVIOUS
<1>1. Typed /\ Metered /\ Billed /\ Counted
  BY DEF SubscriptionTypes
<1>2. calls \in Nat
  BY <1>1 DEF Typed
<1>3. Typed'
  BY <1>1, TypedKept
<1>4. Metered'
  BY <1>1, <1>2, MeteredKept
<1>5. Billed'
  BY <1>1, BilledKept
<1>6. Counted'
  BY <1>1, CountedKept
<1> QED BY <1>3, <1>4, <1>5, <1>6 DEF SubscriptionTypes

LEMMA SubscriptionTypesFit == SubscriptionTypes => SubscriptionTypeOK
<1> SUFFICES ASSUME Typed, Metered, Billed, Counted PROVE SubscriptionTypeOK
  BY DEF SubscriptionTypes
<1>1. org \in OrgDoc /\ stripe \in [Sub -> Contract] /\ checkouts \subseteq Checkout
      /\ cancels \subseteq [call : Nat, sub : Sub, at : {"stripe", "save"}]
      /\ emitted \in Nat /\ calls \in Nat
  BY DEF Typed
<1>2. openSessions \subseteq [call : Nat, customer : Customer, plan : Paid]
  <2>1. \A p \in openSessions : p \in Session /\ p.customer \in Customer
    BY DEF Typed, Billed
  <2> QED BY <2>1 DEF Session
<1>3. events \subseteq Event
  <2>1. \A e \in events : e \in Notice /\ e.customer \in Customer
    BY DEF Typed, Billed
  <2> QED BY <2>1 DEF Notice, Event
<1>4. emitted \in 0..MaxEvents /\ calls \in 0..MaxCalls /\ applied \in 0..MaxEvents
  <2>1. emitted <= MaxEvents /\ calls <= MaxCalls /\ applied \in Nat /\ applied <= emitted
    BY DEF Counted
  <2> QED BY <1>1, <2>1, SubscriptionAssumption
<1>5. used \in [Resource -> Nat] /\ creations \subseteq [call : Nat, resource : Resource]
  BY DEF Metered
<1>6. faults \in 0..MaxFaults /\ customers \subseteq Customer /\ astray \subseteq Reason
      /\ overrun \subseteq Resource
  BY DEF Counted
<1> QED BY <1>1, <1>2, <1>3, <1>4, <1>5, <1>6 DEF SubscriptionTypeOK

=============================================================================
