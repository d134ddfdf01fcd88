---------------------------- MODULE ManagedClient ----------------------------
(***************************************************************************)
(* The call layer of qhfi.api: ManagedClient.call runs a request through   *)
(* cache -> retry( rate limiter -> circuit breaker -> request ).  A client *)
(* has one caller at a time: none of its parts takes a lock, and nothing   *)
(* in the repository shares one between threads.  A step is what the       *)
(* caller does between two points where time passes: a sleep of the        *)
(* limiter or of the backoff, and the request itself.                      *)
(*                                                                         *)
(* A tick is the time in which the limiter refills one token (1 / rate).   *)
(* The code uses its clock only in differences, so the model keeps those:  *)
(* the time since the last refill and since the circuit opened, the time a *)
(* cached value has left and a sleeper has to wait.  A difference, or the  *)
(* failure count, is not counted beyond the value after which it changes   *)
(* nothing.                                                                *)
(***************************************************************************)
EXTENDS Integers

CONSTANTS
  Burst,          \* limiter.capacity
  MaxRetries,     \* max_retries
  Backoff,        \* backoff_base, in ticks
  Threshold,      \* failure_threshold
  ResetTimeout,   \* reset_timeout, in ticks
  Ttl,            \* cache ttl, in ticks
  Replies,        \* what the endpoint may answer: "value", or "none" (no content)
  MaxOutages,     \* bound: how often the endpoint goes down
  MaxRejections,  \* bound: how many requests it rejects (4xx)
  MaxWindow       \* bound: the longest window the request ceiling is checked on

ASSUME ClientAssumption ==
  /\ Burst \in Nat \ {0}
  /\ MaxRetries \in Nat
  /\ Backoff \in Nat
  /\ \A n \in 0..MaxRetries : Backoff * 2 ^ n \in Nat
  /\ Threshold \in Nat \ {0}
  /\ ResetTimeout \in Nat
  /\ Ttl \in Nat
  /\ Replies \subseteq {"value", "none"}
  /\ MaxOutages \in Nat
  /\ MaxRejections \in Nat
  /\ MaxWindow \in Nat

VARIABLES
  up, outages, rejections,           \* the endpoint
  tokens, sinceRefill,               \* RateLimiter: tokens, clock - _last
  state, failures, sinceOpened,      \* CircuitBreaker: clock - _opened_at
  cached, ttlLeft,                   \* TTLCache: the entry of one key
  pc, attempt, sleep, keyed,         \* the caller
  taken, elapsed                     \* history: a window over the limiter

endpoint == <<up, outages, rejections>>
limiter  == <<tokens, sinceRefill>>
breaker  == <<state, failures, sinceOpened>>
cache    == <<cached, ttlLeft>>
caller   == <<pc, attempt, sleep, keyed>>
window   == <<taken, elapsed>>
vars     == <<endpoint, limiter, breaker, cache, caller, window>>

Smaller(a, b)  == IF a <= b THEN a ELSE b
Later(n, most) == IF n < most THEN n + 1 ELSE most
Sooner(n)      == IF n > 0 THEN n - 1 ELSE 0

Init ==
  /\ up = TRUE /\ outages = 0 /\ rejections = 0
  /\ tokens = Burst /\ sinceRefill = 0
  /\ state = "closed" /\ failures = 0 /\ sinceOpened = ResetTimeout
  /\ cached = "nothing" /\ ttlLeft = 0
  /\ pc = "idle"
  /\ attempt = 0
  /\ sleep = 0
  /\ keyed = FALSE
  /\ taken = 0 /\ elapsed = 0

-----------------------------------------------------------------------------
(* TTLCache.get: an expired entry is deleted, and a stored None reads as a *)
(* miss.                                                                   *)
HitTooShort == cached = "value" /\ ttlLeft > 1   \* mutant: expires a tick early

Hit == cached = "value" /\ ttlLeft > 0

Call(key) ==
  /\ pc = "idle"
  /\ cached' = IF key /\ ttlLeft = 0 THEN "nothing" ELSE cached
  /\ IF key /\ Hit
       THEN UNCHANGED caller
       ELSE /\ pc' = "acquire"
            /\ attempt' = 0
            /\ sleep' = 0
            /\ keyed' = key
  /\ UNCHANGED <<endpoint, limiter, breaker, ttlLeft, window>>

(* The bucket as _refill() would find it now.                              *)
UncappedLevel == tokens + sinceRefill         \* mutant: no min(capacity, ...)

NeverRefilled == tokens                       \* mutant: the elapsed time is lost

Level == Smaller(Burst, tokens + sinceRefill)

Leave ==
  /\ pc' = "idle"
  /\ UNCHANGED <<attempt, sleep, keyed>>

(* CircuitBreaker._allow: an open circuit admits a trial after its time.   *)
Rested == sinceOpened >= ResetTimeout

(* A token is taken before the circuit is asked; a rejected call raises    *)
(* CircuitOpenError, which is never retried.                               *)
Admit ==
  IF state = "open" /\ ~Rested
    THEN Leave /\ UNCHANGED state
    ELSE /\ state' = IF state = "open" THEN "half_open" ELSE state
         /\ pc' = "request"
         /\ UNCHANGED <<attempt, sleep, keyed>>

(* RateLimiter.acquire: a caller that finds the bucket dry sleeps for the  *)
(* time a token takes, and looks again.                                    *)
Acquire ==
  /\ pc = "acquire"
  /\ sleep = 0
  /\ sinceRefill' = 0
  /\ IF Level >= 1
       THEN /\ tokens' = Level - 1
            /\ taken' = taken + 1
            /\ Admit
       ELSE /\ tokens' = Level
            /\ sleep' = 1 - Level
            /\ UNCHANGED <<state, pc, attempt, keyed, taken>>
  /\ UNCHANGED <<endpoint, failures, sinceOpened, cache, elapsed>>

(* CircuitBreaker._on_success, then the cache is filled.                   *)
SucceedHalfOpen(reply) ==                  \* mutant: the state is not reset
  /\ pc = "request"
  /\ up
  /\ failures' = 0
  /\ IF keyed
       THEN cached' = reply /\ ttlLeft' = Ttl
       ELSE UNCHANGED cache
  /\ Leave
  /\ UNCHANGED <<endpoint, limiter, state, sinceOpened, window>>

Succeed(reply) ==
  /\ pc = "request"
  /\ up
  /\ state' = "closed"
  /\ failures' = 0
  /\ IF keyed
       THEN cached' = reply /\ ttlLeft' = Ttl
       ELSE UNCHANGED cache
  /\ Leave
  /\ UNCHANGED <<endpoint, limiter, sinceOpened, window>>

(* CircuitBreaker._on_failure; failures are counted up to the threshold.   *)
TripsLate ==                                  \* mutant: > where the code has >=
  /\ failures' = Later(failures, Threshold)
  /\ IF state = "half_open" \/ failures + 1 > Threshold
       THEN state' = "open" /\ sinceOpened' = 0
       ELSE UNCHANGED <<state, sinceOpened>>

OnFailure ==
  /\ failures' = Later(failures, Threshold)
  /\ IF state = "half_open" \/ failures + 1 >= Threshold
       THEN state' = "open" /\ sinceOpened' = 0
       ELSE UNCHANGED <<state, sinceOpened>>

(* A transport error or a 5xx: _retry() backs off and starts over at the   *)
(* limiter, or raises after max_retries.                                   *)
Retry ==
  IF attempt + 1 > MaxRetries
    THEN Leave
    ELSE /\ attempt' = attempt + 1
         /\ sleep' = Backoff * 2 ^ attempt
         /\ pc' = "acquire"
         /\ UNCHANGED keyed

Fail ==
  /\ pc = "request"
  /\ ~up
  /\ OnFailure
  /\ Retry
  /\ UNCHANGED <<endpoint, limiter, cache, window>>

(* A 4xx of a healthy endpoint is not retried, and counts as a failure.    *)
Reject ==
  /\ pc = "request"
  /\ up
  /\ rejections < MaxRejections
  /\ rejections' = rejections + 1
  /\ OnFailure
  /\ Leave
  /\ UNCHANGED <<up, outages, limiter, cache, window>>

-----------------------------------------------------------------------------
(* A tick passes; a window that has reached its bound starts over.         *)
Tick ==
  /\ sinceRefill' = Later(sinceRefill, Burst)
  /\ sinceOpened' = Later(sinceOpened, ResetTimeout)
  /\ ttlLeft' = Sooner(ttlLeft)
  /\ sleep' = Sooner(sleep)
  /\ IF elapsed < MaxWindow
       THEN elapsed' = elapsed + 1 /\ UNCHANGED taken
       ELSE elapsed' = 0 /\ taken' = 0
  /\ UNCHANGED <<endpoint, tokens, state, failures, cached, pc, attempt, keyed>>

(* The window may start at any moment.                                     *)
NewWindow ==
  /\ taken' = 0 /\ elapsed' = 0
  /\ UNCHANGED <<endpoint, limiter, breaker, cache, caller>>

GoDown ==
  /\ up /\ outages < MaxOutages
  /\ up' = FALSE
  /\ outages' = outages + 1
  /\ UNCHANGED <<rejections, limiter, breaker, cache, caller, window>>

GoUp ==
  /\ ~up
  /\ up' = TRUE
  /\ UNCHANGED <<outages, rejections, limiter, breaker, cache, caller, window>>

Answer == Fail \/ Reject \/ \E reply \in Replies : Succeed(reply)

Next ==
  \/ \E key \in BOOLEAN : Call(key)
  \/ Acquire
  \/ Answer
  \/ Tick
  \/ NewWindow
  \/ GoDown
  \/ GoUp

Spec == Init /\ [][Next]_vars

(* Time passes, a caller that may run does, a request ends (it has a       *)
(* timeout), and calls keep arriving.                                      *)
Fairness ==
  /\ WF_vars(Tick)
  /\ WF_vars(Acquire)
  /\ WF_vars(Answer)
  /\ WF_vars(\E key \in BOOLEAN : Call(key))

FairSpec == Spec /\ Fairness

-----------------------------------------------------------------------------
(* Types: the bucket never holds more than its capacity, and no call is    *)
(* tried more than max_retries + 1 times.                                  *)
TypeOK ==
  /\ up \in BOOLEAN /\ outages \in Nat /\ rejections \in Nat
  /\ tokens \in 0..Burst /\ sinceRefill \in 0..Burst
  /\ state \in {"closed", "open", "half_open"}
  /\ failures \in 0..Threshold /\ sinceOpened \in 0..ResetTimeout
  /\ cached \in {"nothing", "value", "none"} /\ ttlLeft \in 0..Ttl
  /\ pc \in {"idle", "acquire", "request"}
  /\ attempt \in 0..MaxRetries
  /\ sleep \in Nat
  /\ keyed \in BOOLEAN
  /\ taken \in Nat /\ elapsed \in Nat

(* "keeps the framework under each venue's request ceiling": in a window   *)
(* of any length, wherever in it the caller sleeps, backs off, retries or  *)
(* spends a token on a call the circuit then rejects, no more requests     *)
(* pass than the burst and the refills of that time (RateLimiter).         *)
RequestCeiling == taken <= Burst + elapsed

(* A closed circuit has seen fewer than failure_threshold failures since   *)
(* the last success: the retries of one call and those of the next ones    *)
(* together cannot hammer past it (CircuitBreaker._on_failure).            *)
ClosedIsHealthy == state = "closed" => failures < Threshold

(* An identical read within the ttl does not reach the endpoint again, for *)
(* an endpoint that answers with content (TTLCache, ManagedClient.call).   *)
NoRepeatWithinTtl ==
  [][keyed /\ pc # "request" /\ pc' = "request" => ttlLeft = 0]_vars

(* Every call comes back: no retry, limiter or breaker loop is endless.    *)
Returns == pc # "idle" ~> pc = "idle"

(* Once the endpoint stays up the circuit closes again, whatever state the *)
(* outage left the breaker, the limiter and the retries in.                *)
Recovers == <>[]up => []<>(state = "closed")
=============================================================================
