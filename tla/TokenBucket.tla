----------------------------- MODULE TokenBucket -----------------------------
(***************************************************************************)
(* The rate limiter (Store.Allow and tokenBucketScript, internal/state).   *)
(* The script is atomic in Redis, but the time it works with is read by    *)
(* the caller before the script is sent, so calls of two terminal sessions *)
(* on one sandbox may be applied in another order than their clocks.       *)
(* Time is counted in ticks, Refill tokens each.                           *)
(***************************************************************************)
EXTENDS Integers, FiniteSetsExt

CONSTANTS
  Callers,    \* sessions that share the bucket
  Capacity,   \* Config.RateCapacity
  Refill,     \* Config.RateRefill
  Costs,      \* the costs of a call
  MaxClock    \* bound: ticks

ASSUME BucketAssumption ==
  /\ Capacity \in Nat /\ Refill \in Nat \ {0} /\ MaxClock \in Nat
  /\ Costs \subseteq Nat

VARIABLES
  clock,    \* real time, which Redis expires keys by
  bucket,   \* the hash: is it there, tokens, ts
  expires,  \* when Redis drops the bucket; when it did, once it is gone
  call,     \* Allow calls in progress: the time they read, their cost
  allowed,  \* ghost: cost of all calls that were permitted
  drift     \* ghost: ticks that the bucket's time was set back by

vars == <<clock, bucket, expires, call, allowed, drift>>

NoCall == [pc |-> "idle", now |-> 0, cost |-> 0]

Init ==
  /\ clock = 0
  /\ bucket = [live |-> FALSE, tokens |-> 0, ts |-> 0]
  /\ expires = 0
  /\ call = [c \in Callers |-> NoCall]
  /\ allowed = 0 /\ drift = 0

\* Faulty: the bucket lives for a tick.
TTL_Short == 1

\* "long enough for a full refill"
TTL == (Capacity \div Refill) + 2

Tick ==
  /\ clock < MaxClock
  /\ clock' = clock + 1
  /\ UNCHANGED <<bucket, expires, call, allowed, drift>>

Expire ==
  /\ bucket.live /\ clock >= expires
  /\ bucket' = [bucket EXCEPT !.live = FALSE]
  /\ UNCHANGED <<clock, expires, call, allowed, drift>>

AllowReadsClock(c) == \E cost \in Costs :
  /\ call[c].pc = "idle"
  /\ call' = [call EXCEPT ![c] = [pc |-> "script", now |-> clock, cost |-> cost]]
  /\ UNCHANGED <<clock, bucket, expires, allowed, drift>>

\* Faulty: tokens are saved up beyond the capacity.
Refilled_NoClamp(now) ==
  IF ~bucket.live THEN Capacity
  ELSE bucket.tokens + Refill * (IF now > bucket.ts THEN now - bucket.ts ELSE 0)

\* The tokens there are at time now.  A time before ts refills nothing.
Refilled(now) ==
  IF ~bucket.live THEN Capacity
  ELSE LET tokens == bucket.tokens + Refill * (IF now > bucket.ts THEN now - bucket.ts ELSE 0)
       IN  IF tokens > Capacity THEN Capacity ELSE tokens

\* The time the bucket is set back to may lie before the one it had, or before the one
\* it expired at.
SetBack(now) ==
  LET was == IF bucket.live THEN bucket.ts ELSE expires
  IN  IF now < was THEN was - now ELSE 0

RunScript(now, cost) ==
  LET tokens == Refilled(now) IN
  /\ bucket' = [live |-> TRUE, ts |-> now,
                tokens |-> IF tokens >= cost THEN tokens - cost ELSE tokens]
  /\ allowed' = IF tokens >= cost THEN allowed + cost ELSE allowed
  /\ expires' = clock + TTL
  /\ drift' = drift + SetBack(now)

AllowScript(c) ==
  /\ call[c].pc = "script"
  /\ RunScript(call[c].now, call[c].cost)
  /\ call' = [call EXCEPT ![c] = NoCall]
  /\ UNCHANGED clock

\* The call fails before the script runs.
AllowFails(c) ==
  /\ call[c].pc = "script"
  /\ call' = [call EXCEPT ![c] = NoCall]
  /\ UNCHANGED <<clock, bucket, expires, allowed, drift>>

Next ==
  \/ Tick \/ Expire
  \/ \E c \in Callers : AllowReadsClock(c) \/ AllowScript(c) \/ AllowFails(c)

Spec == Init /\ [][Next]_vars

-----------------------------------------------------------------------------
(* Properties.                                                              *)

\* Every variable has its type; the bucket never holds more than its capacity.
TypeOK ==
  /\ clock \in 0 .. MaxClock
  /\ bucket \in [live : BOOLEAN, tokens : 0 .. Capacity, ts : Nat]
  /\ expires \in Nat
  /\ call \in [Callers -> [pc : {"idle", "script"}, now : Nat, cost : Nat]]
  /\ allowed \in Nat /\ drift \in Nat

\* In any stretch of time no more is permitted than the burst and the steady rate give,
\* plus what was refilled twice because a late call set the bucket's time back.  In
\* particular the expiry of the bucket gives nothing away.
RateBound == allowed <= Capacity + Refill * (clock + drift)
=============================================================================
