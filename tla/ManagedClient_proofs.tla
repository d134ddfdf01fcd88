------------------------- MODULE ManagedClient_proofs -------------------------
(***************************************************************************)
(* Proofs about the call layer, for any limits and any outages.           *)
(***************************************************************************)
EXTENDS ManagedClient, TLAPS

(* The level of the bucket pays for what the window may still let through. *)
Inv ==
  /\ TypeOK
  /\ taken + Level <= Burst + elapsed
  /\ ClosedIsHealthy

LEMMA Limits ==
  /\ Burst \in Nat /\ Burst >= 1 /\ MaxRetries \in Nat
  /\ Threshold \in Nat /\ Threshold >= 1 /\ ResetTimeout \in Nat /\ Ttl \in Nat
  /\ Replies \subseteq {"value", "none"} /\ MaxWindow \in Nat /\ Backoff \in Nat
  /\ \A n \in 0..MaxRetries : Backoff * 2 ^ n \in Nat
  BY ClientAssumption DEF ClientAssumption

LEMMA BurstType == Burst \in Nat /\ Burst >= 1
  BY Limits

(* Arithmetic, stated of values so that it applies to primed variables.    *)
LEMMA SumType ==
  \A a \in 0..Burst, b \in 0..Burst : a + b \in Nat /\ (b = 0 => a + b = a /\ a <= Burst)
  BY BurstType

LEMMA EmptyWindow ==
  \A a \in 0..Burst : 0 + a <= Burst + 0
  BY BurstType

LEMMA SmallerThanBurst ==
  ASSUME NEW n \in Nat
  PROVE  /\ Smaller(Burst, n) \in 0..Burst
         /\ Smaller(Burst, n) <= n
         /\ n <= Burst => Smaller(Burst, n) = n
         /\ \A m \in Nat : n <= m + 1 => Smaller(Burst, n) <= Smaller(Burst, m) + 1
  BY BurstType DEF Smaller

LEMMA LevelType ==
  ASSUME TypeOK
  PROVE  Level \in 0..Burst /\ Level <= tokens + sinceRefill
  <1>1. tokens + sinceRefill \in Nat
    BY BurstType DEF TypeOK
  <1>2. QED BY <1>1, SmallerThanBurst DEF Level

(* The same of the level after a step.                                     *)
LEMMA NewLevelType ==
  ASSUME TypeOK'
  PROVE  /\ Level' \in 0..Burst
         /\ tokens' + sinceRefill' \in Nat
         /\ Level' = Smaller(Burst, tokens' + sinceRefill')
  <1>1. tokens' + sinceRefill' \in Nat
    <2>1. tokens' \in 0..Burst /\ sinceRefill' \in 0..Burst
      BY DEF TypeOK
    <2>2. QED BY <2>1, SumType
  <1>2. Level' = Smaller(Burst, tokens' + sinceRefill')
    BY DEF Level, Smaller
  <1>3. QED BY <1>1, <1>2, SmallerThanBurst

LEMMA InitInv == Init => Inv
  <1> SUFFICES ASSUME Init PROVE Inv
    OBVIOUS
  <1>1. TypeOK
    <2>1. keyed \in BOOLEAN /\ up \in BOOLEAN
      BY Zenon DEF Init
    <2>2. QED BY <2>1, Limits DEF Init, TypeOK
  <1>2. taken + Level <= Burst + elapsed
    BY <1>1, Limits, LevelType DEF Init
  <1>3. ClosedIsHealthy
    BY Limits DEF Init, ClosedIsHealthy
  <1>4. QED BY <1>1, <1>2, <1>3 DEF Inv

LEMMA CallInv ==
  ASSUME Inv, NEW key \in BOOLEAN, Call(key)
  PROVE  Inv'
  <1>1. /\ UNCHANGED <<up, outages, rejections, tokens, sinceRefill, state, failures,
                       sinceOpened, ttlLeft, taken, elapsed>>
        /\ cached' = IF key /\ ttlLeft = 0 THEN "nothing" ELSE cached
    BY DEF Call, endpoint, limiter, breaker, window
  <1>2. /\ pc' \in {"idle", "acquire", "request"}
        /\ attempt' \in 0..MaxRetries
        /\ sleep' \in Nat
        /\ keyed' \in BOOLEAN
    BY Limits DEF Call, caller, Inv, TypeOK
  <1>3. TypeOK'
    BY <1>1, <1>2 DEF Inv, TypeOK
  <1>4. QED BY <1>1, <1>3 DEF Inv, Level, ClosedIsHealthy

LEMMA AcquireInv ==
  ASSUME Inv, Acquire
  PROVE  Inv'
  <1>1. /\ UNCHANGED <<up, outages, rejections, failures, sinceOpened, cached, ttlLeft, elapsed>>
        /\ sinceRefill' = 0
    BY DEF Acquire, endpoint, cache
  <1>2. Level \in 0..Burst /\ taken + Level <= Burst + elapsed /\ taken \in Nat /\ elapsed \in Nat
    BY LevelType DEF Inv, TypeOK
  <1>3. CASE Level >= 1
    <2>1. tokens' = Level - 1 /\ taken' = taken + 1 /\ Admit
      BY <1>3 DEF Acquire
    <2>2. /\ pc' \in {"idle", "acquire", "request"}
          /\ UNCHANGED <<attempt, sleep, keyed>>
          /\ state' \in {"closed", "open", "half_open"}
          /\ state' = "closed" => state = "closed"
      BY <2>1 DEF Admit, Leave, Inv, TypeOK
    <2>3. tokens' \in 0..Burst /\ taken' \in Nat
      BY <1>2, <1>3, <2>1, Limits
    <2>4. TypeOK'
      BY <1>1, <2>2, <2>3, Limits DEF Inv, TypeOK
    <2>5. Level' = tokens'
      <3>1. tokens' + sinceRefill' = tokens' /\ tokens' \in Nat /\ tokens' <= Burst
        <4>1. sinceRefill' = 0 /\ sinceRefill' \in 0..Burst /\ tokens' \in 0..Burst
          BY <1>1, <2>3, BurstType
        <4>2. QED BY <4>1, SumType
      <3>2. Level' = Smaller(Burst, tokens')
        BY <2>4, <3>1, NewLevelType
      <3>3. QED BY <3>1, <3>2, SmallerThanBurst
    <2>6. QED BY <1>1, <1>2, <1>3, <2>1, <2>2, <2>4, <2>5, Limits DEF Inv, ClosedIsHealthy
  <1>4. CASE ~(Level >= 1)
    <2>1. /\ tokens' = Level /\ sleep' = 1 - Level
          /\ UNCHANGED <<state, pc, attempt, keyed, taken>>
      BY <1>4 DEF Acquire
    <2>2. 1 - Level \in Nat
      BY <1>2, <1>4, Limits
    <2>3. TypeOK'
      BY <1>1, <1>2, <2>1, <2>2, Limits DEF Inv, TypeOK
    <2>4. Level' = Level
      BY <1>1, <1>2, <2>1, Limits DEF Level, Smaller
    <2>5. QED BY <1>1, <1>2, <2>1, <2>3, <2>4 DEF Inv, ClosedIsHealthy
  <1>5. QED BY <1>3, <1>4

(* A failure keeps a circuit closed only below the threshold.              *)
LEMMA FailureCounts ==
  ASSUME TypeOK, ClosedIsHealthy, OnFailure
  PROVE  /\ state' \in {"closed", "open", "half_open"}
         /\ failures' \in 0..Threshold /\ sinceOpened' \in 0..ResetTimeout
         /\ ClosedIsHealthy'
  BY Limits DEF OnFailure, Later, TypeOK, ClosedIsHealthy

LEMMA AnswerInv ==
  ASSUME Inv, Answer
  PROVE  Inv'
  <1>1. UNCHANGED <<up, outages, tokens, sinceRefill, taken, elapsed>>
    BY DEF Answer, Fail, Reject, Succeed, endpoint, limiter, window
  <1>2. Level' = Level
    BY <1>1 DEF Level
  <1>3. CASE \E reply \in Replies : Succeed(reply)
    <2>1. PICK reply \in Replies : Succeed(reply)
      BY <1>3
    <2>2. /\ state' = "closed" /\ failures' = 0 /\ sinceOpened' = sinceOpened
          /\ rejections' = rejections
          /\ pc' = "idle" /\ UNCHANGED <<attempt, sleep, keyed>>
      BY <2>1 DEF Succeed, Leave, endpoint
    <2>3. cached' \in {"nothing", "value", "none"} /\ ttlLeft' \in 0..Ttl
      BY <2>1, Limits DEF Succeed, cache, Inv, TypeOK
    <2>4. TypeOK'
      BY <1>1, <2>2, <2>3, Limits DEF Inv, TypeOK
    <2>5. QED BY <1>1, <1>2, <2>2, <2>4, Limits DEF Inv, ClosedIsHealthy
  <1>4. CASE Reject
    <2>1. /\ rejections' = rejections + 1 /\ OnFailure
          /\ pc' = "idle" /\ UNCHANGED <<attempt, sleep, keyed, cached, ttlLeft>>
      BY <1>4 DEF Reject, Leave, cache
    <2>2. TypeOK' /\ ClosedIsHealthy'
      BY <1>1, <2>1, FailureCounts DEF Inv, TypeOK
    <2>3. QED BY <1>1, <1>2, <2>2 DEF Inv
  <1>5. CASE Fail
    <2>1. /\ rejections' = rejections /\ OnFailure /\ Retry
          /\ UNCHANGED <<cached, ttlLeft>>
      BY <1>5 DEF Fail, cache, endpoint
    <2>2. attempt \in 0..MaxRetries /\ Backoff * 2 ^ attempt \in Nat
      BY Limits DEF Inv, TypeOK
    <2>3. /\ pc' \in {"idle", "acquire", "request"}
          /\ attempt' \in 0..MaxRetries
          /\ sleep' \in Nat
          /\ keyed' \in BOOLEAN
      <3>1. CASE attempt + 1 > MaxRetries
        BY <2>1, <3>1 DEF Retry, Leave, Inv, TypeOK
      <3>2. CASE ~(attempt + 1 > MaxRetries)
        <4>1. attempt + 1 \in 0..MaxRetries
          BY <2>2, <3>2, Limits
        <4>2. QED BY <2>1, <2>2, <3>2, <4>1 DEF Retry, Inv, TypeOK
      <3>3. QED BY <3>1, <3>2
    <2>4. TypeOK' /\ ClosedIsHealthy'
      BY <1>1, <2>1, <2>3, FailureCounts DEF Inv, TypeOK
    <2>5. QED BY <1>1, <1>2, <2>4 DEF Inv
  <1>6. QED BY <1>3, <1>4, <1>5 DEF Answer

(* A tick adds at most one token to what may pass, and one to the window.  *)
LEMMA TickInv ==
  ASSUME Inv, Tick
  PROVE  Inv'
  <1>1. /\ sinceRefill' = Later(sinceRefill, Burst)
        /\ sinceOpened' = Later(sinceOpened, ResetTimeout)
        /\ ttlLeft' = Sooner(ttlLeft)
        /\ sleep' = Sooner(sleep)
        /\ IF elapsed < MaxWindow
             THEN elapsed' = elapsed + 1 /\ UNCHANGED taken
             ELSE elapsed' = 0 /\ taken' = 0
        /\ UNCHANGED <<up, outages, rejections, tokens, state, failures, cached, pc, attempt, keyed>>
    BY DEF Tick, endpoint
  <1>2. /\ sinceRefill' \in 0..Burst /\ sinceOpened' \in 0..ResetTimeout /\ ttlLeft' \in 0..Ttl
        /\ taken' \in Nat /\ elapsed' \in Nat
    BY <1>1, Limits DEF Inv, TypeOK, Later, Sooner
  <1>3. sleep' \in Nat
    BY <1>1 DEF Inv, TypeOK, Sooner
  <1>4. TypeOK'
    BY <1>1, <1>2, <1>3 DEF Inv, TypeOK
  <1>5. Level' <= Level + 1 /\ Level' \in 0..Burst /\ Level \in 0..Burst
    <2>1. sinceRefill' <= sinceRefill + 1
      BY <1>1, Limits DEF Inv, TypeOK, Later
    <2>2. Level' \in 0..Burst /\ Level \in 0..Burst
      BY <1>4, LevelType, NewLevelType DEF Inv
    <2>3. Level' <= Level + 1
      <3>1. /\ tokens + sinceRefill \in Nat /\ tokens' + sinceRefill' \in Nat
            /\ tokens' + sinceRefill' <= (tokens + sinceRefill) + 1
        BY <1>1, <1>2, <2>1, BurstType DEF Inv, TypeOK
      <3>2. Level' = Smaller(Burst, tokens' + sinceRefill')
        BY <1>4, NewLevelType
      <3>3. QED BY <3>1, <3>2, SmallerThanBurst DEF Level
    <2>4. QED BY <2>2, <2>3
  <1>6. taken' + Level' <= Burst + elapsed'
    BY <1>1, <1>5, Limits DEF Inv, TypeOK
  <1>7. QED BY <1>1, <1>4, <1>6 DEF Inv, ClosedIsHealthy

LEMMA NextInv == Inv /\ [Next]_vars => Inv'
  <1> SUFFICES ASSUME Inv, [Next]_vars PROVE Inv'
    OBVIOUS
  <1>1. CASE \E key \in BOOLEAN : Call(key)
    BY <1>1, CallInv
  <1>2. CASE Acquire
    BY <1>2, AcquireInv
  <1>3. CASE Answer
    BY <1>3, AnswerInv
  <1>4. CASE Tick
    BY <1>4, TickInv
  <1>5. CASE NewWindow
    <2>1. /\ taken' = 0 /\ elapsed' = 0
          /\ UNCHANGED <<up, outages, rejections, tokens, sinceRefill, state, failures, sinceOpened,
                         cached, ttlLeft, pc, attempt, sleep, keyed>>
      BY <1>5 DEF NewWindow, endpoint, limiter, breaker, cache, caller
    <2>2. TypeOK'
      BY <2>1 DEF Inv, TypeOK
    <2>3. taken' + Level' <= Burst + elapsed'
      <3>1. Level' \in 0..Burst
        BY <2>2, NewLevelType
      <3>2. taken' = 0 /\ elapsed' = 0
        BY <2>1
      <3>3. QED BY <3>1, <3>2, EmptyWindow
    <2>4. ClosedIsHealthy'
      BY <2>1 DEF Inv, ClosedIsHealthy
    <2>5. QED BY <2>2, <2>3, <2>4 DEF Inv
  <1>6. CASE GoDown \/ GoUp \/ UNCHANGED vars
    <2>1. /\ up' \in BOOLEAN /\ outages' \in Nat
          /\ UNCHANGED <<rejections, tokens, sinceRefill, state, failures, sinceOpened,
                         cached, ttlLeft, pc, attempt, sleep, keyed, taken, elapsed>>
      <3>1. CASE GoDown
        <4>1. outages \in Nat
          BY DEF Inv, TypeOK
        <4>2. up' = FALSE /\ outages' = outages + 1
          BY <3>1 DEF GoDown
        <4>3. UNCHANGED <<rejections, limiter, breaker, cache, caller, window>>
          BY <3>1 DEF GoDown
        <4>4. outages' \in Nat
          BY <4>1, <4>2
        <4>5. QED BY <4>2, <4>3, <4>4 DEF limiter, breaker, cache, caller, window
      <3>2. CASE GoUp
        BY <3>2 DEF GoUp, Inv, TypeOK, limiter, breaker, cache, caller, window
      <3>3. CASE UNCHANGED vars
        BY <3>3 DEF vars, Inv, TypeOK, endpoint, limiter, breaker, cache, caller, window
      <3>4. QED BY <1>6, <3>1, <3>2, <3>3
    <2>2. TypeOK'
      BY <2>1 DEF Inv, TypeOK
    <2>3. QED BY <2>1, <2>2 DEF Inv, ClosedIsHealthy, Level
  <1>7. QED BY <1>1, <1>2, <1>3, <1>4, <1>5, <1>6 DEF Next

THEOREM SpecInv == Spec => []Inv
  BY InitInv, NextInv, PTL DEF Spec

-----------------------------------------------------------------------------
(* The bucket stays within its capacity and the retries within max_retries.*)
THEOREM ClientTypes == Spec => []TypeOK
  <1>1. Inv => TypeOK
    BY DEF Inv
  <1>2. QED BY SpecInv, <1>1, PTL

(* No window sees more requests than the burst and its refills.            *)
THEOREM CeilingHolds == Spec => []RequestCeiling
  <1>1. Inv => RequestCeiling
    <2> SUFFICES ASSUME Inv PROVE RequestCeiling
      OBVIOUS
    <2>1. Level \in 0..Burst /\ taken \in Nat /\ elapsed \in Nat
      BY LevelType DEF Inv, TypeOK
    <2>2. QED BY <2>1, BurstType DEF Inv, RequestCeiling
  <1>2. QED BY SpecInv, <1>1, PTL

(* A closed circuit is below its threshold.                                *)
THEOREM ClosedHolds == Spec => []ClosedIsHealthy
  <1>1. Inv => ClosedIsHealthy
    BY DEF Inv
  <1>2. QED BY SpecInv, <1>1, PTL

-----------------------------------------------------------------------------
(* What a fresh entry holds is a value, and who is on his way to fetch the *)
(* key again has found none.                                               *)
Fresh ==
  /\ ttlLeft > 0 => cached = "value"
  /\ keyed /\ pc # "idle" => ttlLeft = 0

Content == Replies \subseteq {"value"}

LEMMA AnswerFresh ==
  ASSUME Content, Inv, Fresh, Answer
  PROVE  Fresh'
  <1>1. /\ pc = "request"
        /\ pc \in {"idle", "acquire", "request"} /\ keyed \in BOOLEAN
    BY DEF Answer, Fail, Reject, Succeed, Inv, TypeOK
  <1>2. CASE \E reply \in Replies : Succeed(reply)
    <2>1. PICK reply \in Replies : Succeed(reply)
      BY <1>2
    <2>2. pc' = "idle" /\ UNCHANGED keyed
      BY <2>1 DEF Succeed, Leave
    <2>3. keyed => cached' = "value"
      BY <2>1 DEF Succeed, Content
    <2>4. ~keyed => UNCHANGED <<cached, ttlLeft>>
      BY <2>1 DEF Succeed, cache
    <2>6. ttlLeft' > 0 => cached' = "value"
      BY <2>3, <2>4 DEF Fresh
    <2>7. QED BY <2>2, <2>6 DEF Fresh
  <1>3. CASE Reject \/ Fail
    <2>1. UNCHANGED <<cached, ttlLeft, keyed>>
      BY <1>3 DEF Reject, Fail, Leave, Retry, cache
    <2>2. keyed => ttlLeft = 0
      BY <1>1 DEF Fresh
    <2>3. QED BY <1>1, <2>1, <2>2 DEF Fresh
  <1>4. QED BY <1>2, <1>3 DEF Answer

LEMMA CallFresh ==
  ASSUME Inv, Fresh, NEW key \in BOOLEAN, Call(key)
  PROVE  Fresh'
  <1>1. /\ pc \in {"idle", "acquire", "request"} /\ keyed \in BOOLEAN
        /\ ttlLeft \in Nat /\ UNCHANGED ttlLeft
        /\ cached' = IF key /\ ttlLeft = 0 THEN "nothing" ELSE cached
    BY Limits DEF Inv, TypeOK, Call
  <1>2. ttlLeft' > 0 => cached' = "value"
    BY <1>1 DEF Fresh
  <1>3. keyed' /\ pc' # "idle" => ttlLeft = 0
    <2>1. CASE key /\ Hit
      BY <2>1 DEF Call, caller, Fresh
    <2>2. CASE ~(key /\ Hit)
      <3>1. pc' = "acquire" /\ keyed' = key
        BY <2>2 DEF Call
      <3>2. key => ttlLeft = 0
        BY <1>1, <2>2 DEF Hit, Fresh
      <3>3. QED BY <1>1, <3>1, <3>2 DEF Fresh
    <2>3. QED BY <2>1, <2>2
  <1>4. QED BY <1>1, <1>2, <1>3 DEF Fresh

LEMMA NextFresh == Content /\ Inv /\ Fresh /\ [Next]_vars => Fresh'
  <1> SUFFICES ASSUME Content, Inv, Fresh, [Next]_vars PROVE Fresh'
    OBVIOUS
  <1>1. CASE \E key \in BOOLEAN : Call(key)
    BY <1>1, CallFresh
  <1>2. CASE Acquire
    <2>1. /\ UNCHANGED <<cached, ttlLeft, keyed>> /\ pc # "idle"
      BY <1>2 DEF Acquire, Admit, Leave, cache, Inv, TypeOK
    <2>2. QED BY <2>1 DEF Fresh
  <1>3. CASE Answer
    BY <1>3, AnswerFresh
  <1>4. CASE Tick
    <2>1. ttlLeft' = Sooner(ttlLeft) /\ ttlLeft \in Nat /\ UNCHANGED <<cached, pc, keyed>>
      BY <1>4, Limits DEF Tick, Inv, TypeOK
    <2>2. (ttlLeft' > 0 => ttlLeft > 0) /\ (ttlLeft = 0 => ttlLeft' = 0)
      BY <2>1 DEF Sooner
    <2>3. QED BY <2>1, <2>2 DEF Fresh
  <1>5. CASE NewWindow \/ GoDown \/ GoUp \/ UNCHANGED vars
    <2>1. UNCHANGED <<cached, ttlLeft, pc, keyed>>
      BY <1>5 DEF NewWindow, GoDown, GoUp, vars, cache, caller
    <2>2. QED BY <2>1 DEF Fresh
  <1>6. QED BY <1>1, <1>2, <1>3, <1>4, <1>5 DEF Next

(* A caller whose endpoint answers with content does not ask it again      *)
(* within the ttl, whatever was retried, refused or rejected in between.   *)
(* A stored None is not found again.                                       *)
THEOREM FreshReadsStay ==
  ASSUME Replies \subseteq {"value"}
  PROVE  Spec => NoRepeatWithinTtl
  <1>1. Content
    BY DEF Content
  <1>2. Init => Fresh
    BY DEF Init, Fresh
  <1>3. Inv /\ Fresh /\ [Next]_vars => Fresh'
    BY <1>1, NextFresh
  <1>4. Inv /\ Fresh /\ [Next]_vars
          => [keyed /\ pc # "request" /\ pc' = "request" => ttlLeft = 0]_vars
    <2> SUFFICES ASSUME Inv, Fresh, Next, keyed, pc # "request", pc' = "request"
                 PROVE  ttlLeft = 0
      OBVIOUS
    <2>1. pc # "idle"
      <3>1. Acquire \/ Answer => pc # "idle"
        BY DEF Acquire, Answer, Succeed, Reject, Fail
      <3>2. ASSUME NEW key \in BOOLEAN, Call(key) PROVE pc' # "request"
        BY <3>2 DEF Call, caller, Inv, TypeOK
      <3>3. ASSUME Tick \/ NewWindow \/ GoDown \/ GoUp PROVE pc' = pc
        BY <3>3 DEF Tick, NewWindow, GoDown, GoUp, caller
      <3>4. QED BY <3>1, <3>2, <3>3 DEF Next
    <2>2. QED BY <2>1 DEF Fresh
  <1>5. QED BY <1>2, <1>3, <1>4, SpecInv, PTL DEF Spec, NoRepeatWithinTtl
=============================================================================
