---------------------------- MODULE RateLimiters ----------------------------
(***************************************************************************)
(* The two limiters of outgoing calls: the token bucket of the Kalshi      *)
(* clients and the forecast archive (kalshi/rate_limiter.py), and the      *)
(* minimum interval of the weather services (weather/rate_limiter.py).     *)
(*                                                                         *)
(* Time is in ticks, Interval of them to a token or a call, and a token is *)
(* counted as Interval parts, of which a tick adds one.  Each limiter has  *)
(* a lock, held during the sleep.                                          *)
(***************************************************************************)
EXTENDS Integers

CONSTANTS
  Callers,
  Interval,  \* ticks to a token: 1 / rate
  Burst,     \* tokens the bucket holds
  Drain      \* what a tick takes from the vessel that measures the rate; 1 is the rate

ASSUME LimiterAssumption ==
  Interval \in Nat \ {0} /\ Burst \in Nat \ {0} /\ Drain \in Nat \ {0}

VARIABLES
  using,       \* the limiter these callers use: "none", "bucket" or "spacing"
  caller,      \* each caller: "idle", "asleep" (it holds the lock) or "calls"
  remaining,   \* of the sleep
  tokens,      \* in parts
  sinceRefill, \* ticks since last_refill
  sinceCall,   \* ticks since last_call
  load         \* history: the level, capped, of a vessel that each call raises by a token
               \* and a tick lowers by Drain

limiterVars == <<using, caller, remaining, tokens, sinceRefill, sinceCall, load>>

Full == Burst * Interval
Overflow == Full + Interval + 1
Least(a, b) == IF a < b THEN a ELSE b
Most(a, b) == IF a < b THEN b ELSE a

LimiterTypeOK ==
  /\ using \in {"none", "bucket", "spacing"}
  /\ caller \in [Callers -> {"idle", "asleep", "calls"}]
  /\ remaining \in 0..Interval /\ tokens \in 0..Full
  /\ sinceRefill \in 0..Full /\ sinceCall \in 0..Interval
  /\ load \in 0..Overflow

LimiterInit ==
  /\ using = "none" /\ caller = [c \in Callers |-> "idle"] /\ remaining = 0
  /\ tokens = Full /\ sinceRefill = 0 /\ sinceCall = Interval
  /\ load = 0

Choose ==
  /\ using = "none" /\ using' \in {"bucket", "spacing"}
  /\ UNCHANGED <<caller, remaining, tokens, sinceRefill, sinceCall, load>>

Locked == \E c \in Callers : caller[c] = "asleep"

Granted ==
  /\ sinceCall' = 0
  /\ load' = Least(load + Interval, Overflow)

\* Mutant: the bucket fills without end.
RefilledPast == tokens + sinceRefill

\* The refill of acquire(), in parts.
Refilled == Least(Full, tokens + sinceRefill)

\* TokenBucketRateLimiter.acquire up to the sleep.
AcquireToken(c) ==
  /\ using = "bucket" /\ caller[c] = "idle" /\ ~Locked
  /\ sinceRefill' = 0
  /\ \/ /\ Refilled >= Interval
        /\ tokens' = Refilled - Interval
        /\ caller' = [caller EXCEPT ![c] = "calls"]
        /\ Granted /\ UNCHANGED remaining
     \/ /\ Refilled < Interval
        /\ tokens' = Refilled
        /\ caller' = [caller EXCEPT ![c] = "asleep"]
        /\ remaining' = Interval - Refilled
        /\ UNCHANGED <<sinceCall, load>>
  /\ UNCHANGED using

\* ... and after it.  last_refill stays where it was before the sleep.
TokenSlept(c) ==
  /\ using = "bucket" /\ caller[c] = "asleep" /\ remaining = 0
  /\ tokens' = 0
  /\ caller' = [caller EXCEPT ![c] = "calls"]
  /\ Granted
  /\ UNCHANGED <<using, remaining, sinceRefill>>

\* Mutant: the wait is computed outside the lock.
AcquireSlotUnlocked(c) ==
  /\ using = "spacing" /\ caller[c] = "idle"
  /\ IF sinceCall >= Interval
     THEN caller' = [caller EXCEPT ![c] = "calls"] /\ Granted /\ UNCHANGED remaining
     ELSE /\ caller' = [caller EXCEPT ![c] = "asleep"]
          /\ remaining' = Interval - sinceCall
          /\ UNCHANGED <<sinceCall, load>>
  /\ UNCHANGED <<using, tokens, sinceRefill>>

\* RateLimiter.acquire up to the sleep.
AcquireSlot(c) ==
  /\ using = "spacing" /\ caller[c] = "idle" /\ ~Locked
  /\ IF sinceCall >= Interval
     THEN caller' = [caller EXCEPT ![c] = "calls"] /\ Granted /\ UNCHANGED remaining
     ELSE /\ caller' = [caller EXCEPT ![c] = "asleep"]
          /\ remaining' = Interval - sinceCall
          /\ UNCHANGED <<sinceCall, load>>
  /\ UNCHANGED <<using, tokens, sinceRefill>>

SlotSlept(c) ==
  /\ using = "spacing" /\ caller[c] = "asleep" /\ remaining = 0
  /\ caller' = [caller EXCEPT ![c] = "calls"]
  /\ Granted
  /\ UNCHANGED <<using, remaining, tokens, sinceRefill>>

\* The call is made, and the caller may come again.
Called(c) ==
  /\ caller[c] = "calls"
  /\ caller' = [caller EXCEPT ![c] = "idle"]
  /\ UNCHANGED <<using, remaining, tokens, sinceRefill, sinceCall, load>>

\* A sleep may last longer than asked.
LimiterTick ==
  /\ using # "none"
  /\ remaining' = Most(remaining - 1, 0)
  /\ sinceRefill' = Least(sinceRefill + 1, Full)
  /\ sinceCall' = Least(sinceCall + 1, Interval)
  /\ load' = Most(load - Drain, 0)
  /\ UNCHANGED <<using, caller, tokens>>

LimiterNext ==
  \/ Choose
  \/ \E c \in Callers :
       AcquireToken(c) \/ TokenSlept(c) \/ AcquireSlot(c) \/ SlotSlept(c) \/ Called(c)
  \/ LimiterTick

LimiterSpec == LimiterInit /\ [][LimiterNext]_limiterVars

-----------------------------------------------------------------------------
(***************************************************************************)
(* The weather services get one call at most in any interval, whatever     *)
(* callers come at once and however long they sleep (weather/rate_         *)
(* limiter.py, "Maximum number of calls allowed per second").              *)
(***************************************************************************)
CallsAreSpaced ==
  [][ using = "spacing" /\ (\E c \in Callers : caller'[c] = "calls" /\ caller[c] # "calls")
       => sinceCall = Interval ]_limiterVars

(***************************************************************************)
(* kalshi/rate_limiter.py: "Tokens are added at a steady rate up to a      *)
(* maximum burst size", rate being the "sustained request rate".  With     *)
(* Drain = 1: in any time the bucket lets through no more than the burst,  *)
(* one call, and what the rate allows for that time.  (Violated: the time  *)
(* slept is credited to the sleeper and again to the next caller.)         *)
(***************************************************************************)
RateIsSustained == using = "bucket" => load < Overflow
=============================================================================
