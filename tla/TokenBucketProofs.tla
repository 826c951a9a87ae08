-------------------------- MODULE TokenBucketProofs --------------------------
(***************************************************************************)
(* RateBound for every capacity, refill rate, set of costs and number of   *)
(* callers.  The bound is not inductive: it forgets that the tokens still  *)
(* in the bucket have been paid for by the time up to ts, and that an      *)
(* expired bucket was given the time of a full refill.  Credit says both.  *)
(***************************************************************************)
EXTENDS TokenBucket, TLAPS

\* What was permitted and what may still be permitted is paid for by the time that
\* passed up to ts (a live bucket) or up to its expiry (one that is gone).
Credit ==
  IF bucket.live
  THEN /\ allowed + bucket.tokens <= Capacity + Refill * (bucket.ts + drift)
       /\ bucket.ts <= clock
       /\ bucket.ts + TTL <= expires
  ELSE /\ allowed <= Refill * (expires + drift)
       /\ expires <= clock

\* A caller holds a time that is past.
PastTimes == \A c \in Callers : call[c].now <= clock

BInv == TypeOK /\ Credit /\ PastTimes

-----------------------------------------------------------------------------
\* Multiplication is monotonic and distributes; stated once for the solver.
LEMMA TimesMonotone ==
  ASSUME NEW k \in Nat, NEW m \in Nat, NEW n \in Nat, m <= n
  PROVE  k * m <= k * n
OBVIOUS

LEMMA TimesPlus ==
  ASSUME NEW k \in Nat, NEW m \in Nat, NEW n \in Nat
  PROVE  k * (m + n) = k * m + k * n
OBVIOUS

\* The TTL of the bucket (redis.go:203) is long enough for a full refill.
LEMMA FullRefill == TTL \in Nat /\ Capacity <= Refill * TTL
<1>. DEFINE q == Capacity \div Refill
            r == Capacity % Refill
<1>1. q \in Nat /\ r \in Nat /\ r < Refill /\ Capacity = Refill * q + r
  BY BucketAssumption
<1>2. Refill * (q + 2) = Refill * q + Refill * 2
  BY <1>1, TimesPlus, BucketAssumption
<1>3. TTL = q + 2
  BY DEF TTL
<1>4. Refill * q \in Nat /\ Refill * 2 \in Nat /\ Refill * 2 >= Refill
  BY <1>1, BucketAssumption
<1>. QED
  BY <1>1, <1>2, <1>3, <1>4, BucketAssumption

-----------------------------------------------------------------------------
\* What the script finds in the bucket is within the capacity and has been paid for.
LEMMA ScriptKeepsCredit ==
  ASSUME TypeOK, Credit, NEW now \in Nat, NEW cost \in Nat, now <= clock,
         RunScript(now, cost), UNCHANGED clock
  PROVE  /\ Credit'
         /\ bucket' \in [live : BOOLEAN, tokens : 0 .. Capacity, ts : Nat]
         /\ expires' \in Nat /\ allowed' \in Nat /\ drift' \in Nat
<1>. DEFINE tokens == Refilled(now)
            was == IF bucket.live THEN bucket.ts ELSE expires
            back == SetBack(now)
<1>0. /\ bucket.live \in BOOLEAN /\ bucket.tokens \in 0 .. Capacity /\ bucket.ts \in Nat
      /\ clock \in Nat /\ expires \in Nat /\ allowed \in Nat /\ drift \in Nat
      /\ Capacity \in Nat /\ Refill \in Nat
  BY BucketAssumption DEF TypeOK
<1>1. back \in Nat /\ was \in Nat /\ was <= now + back /\ (now >= was => back = 0)
                   /\ (now < was => now + back = was)
  BY <1>0 DEF SetBack
<1>2. /\ tokens \in Nat /\ tokens <= Capacity
      /\ allowed + tokens <= Capacity + Refill * (now + (drift + back))
  <2>1. CASE ~bucket.live
    <3>1. tokens = Capacity
      BY <2>1 DEF Refilled
    <3>2. Refill * (expires + drift) <= Refill * (now + (drift + back))
      BY <1>0, <1>1, <2>1, TimesMonotone
    <3>3. allowed <= Refill * (expires + drift)
      BY <2>1 DEF Credit
    <3>4. Refill * (expires + drift) \in Nat /\ Refill * (now + (drift + back)) \in Nat
      BY <1>0, <1>1
    <3>. HIDE DEF tokens, back
    <3>. QED
      BY <3>1, <3>2, <3>3, <3>4, <1>0
  <2>2. CASE bucket.live /\ now <= bucket.ts
    <3>1. tokens = bucket.tokens
      <4>1. ~(now > bucket.ts)
        BY <1>0, <2>2
      <4>2. Refill * 0 = 0
        BY <1>0
      <4>. QED
        BY <1>0, <2>2, <4>1, <4>2 DEF Refilled
    <3>2. now + (drift + back) = bucket.ts + drift
      BY <1>0, <1>1, <2>2
    <3>3. allowed + bucket.tokens <= Capacity + Refill * (bucket.ts + drift)
      BY <2>2 DEF Credit
    <3>. HIDE DEF tokens, back
    <3>. QED
      BY <3>1, <3>2, <3>3, <1>0
  <2>3. CASE bucket.live /\ now > bucket.ts
    <3>. DEFINE gain == Refill * (now - bucket.ts)
    <3>1. now - bucket.ts \in Nat /\ gain \in Nat
      BY <1>0, <2>3
    <3>2. tokens = IF bucket.tokens + gain > Capacity THEN Capacity ELSE bucket.tokens + gain
      BY <2>3 DEF Refilled
    <3>3. back = 0
      BY <1>1, <2>3, <1>0
    <3>4. Refill * ((bucket.ts + drift) + (now - bucket.ts))
            = Refill * (bucket.ts + drift) + gain
      BY <1>0, <3>1, TimesPlus
    <3>5. (bucket.ts + drift) + (now - bucket.ts) = now + (drift + back)
      BY <1>0, <3>1, <3>3
    <3>6. allowed + bucket.tokens <= Capacity + Refill * (bucket.ts + drift)
      BY <2>3 DEF Credit
    <3>7. Refill * (bucket.ts + drift) \in Nat
      BY <1>0
    <3>. HIDE DEF tokens, back, gain
    <3>. QED
      BY <3>1, <3>2, <3>4, <3>5, <3>6, <3>7, <1>0
  <2>. QED
    BY <2>1, <2>2, <2>3, <1>0
<1>3. /\ bucket'.live = TRUE /\ bucket'.ts = now
      /\ bucket'.tokens = (IF tokens >= cost THEN tokens - cost ELSE tokens)
      /\ bucket' = [live |-> bucket'.live, ts |-> bucket'.ts, tokens |-> bucket'.tokens]
      /\ allowed' = (IF tokens >= cost THEN allowed + cost ELSE allowed)
      /\ expires' = clock + TTL /\ drift' = drift + back
  BY DEF RunScript
<1>. HIDE DEF tokens, back
<1>4. bucket'.tokens \in 0 .. Capacity /\ allowed' \in Nat
      /\ allowed' + bucket'.tokens = allowed + tokens
  BY <1>0, <1>2, <1>3
<1>5. expires' \in Nat /\ drift' \in Nat /\ bucket'.ts + TTL <= expires' /\ bucket'.ts <= clock'
  BY <1>0, <1>1, <1>3, FullRefill
<1>6. allowed' + bucket'.tokens <= Capacity + Refill * (bucket'.ts + drift')
  BY <1>2, <1>3, <1>4
<1>7. Credit'
  BY <1>3, <1>5, <1>6 DEF Credit
<1>8. bucket' \in [live : BOOLEAN, tokens : 0 .. Capacity, ts : Nat]
  BY <1>3, <1>4
<1>. QED
  BY <1>4, <1>5, <1>7, <1>8

-----------------------------------------------------------------------------
LEMMA BInvInit == Init => BInv
<1>. SUFFICES ASSUME Init PROVE BInv
  OBVIOUS
<1>1. TypeOK
  BY BucketAssumption DEF Init, TypeOK, NoCall
<1>2. Credit
  <2>1. Refill * (0 + 0) = 0
    BY BucketAssumption
  <2>. QED
    BY <2>1 DEF Init, Credit
<1>3. PastTimes
  BY DEF Init, PastTimes, NoCall
<1>. QED
  BY <1>1, <1>2, <1>3 DEF BInv

LEMMA BInvStep == BInv /\ [Next]_vars => BInv'
<1>. SUFFICES ASSUME BInv, [Next]_vars PROVE BInv'
  OBVIOUS
<1>0. /\ bucket.live \in BOOLEAN /\ bucket.tokens \in 0 .. Capacity /\ bucket.ts \in Nat
      /\ clock \in Nat /\ expires \in Nat /\ allowed \in Nat /\ drift \in Nat
      /\ Capacity \in Nat /\ Refill \in Nat /\ MaxClock \in Nat
      /\ TypeOK /\ Credit /\ PastTimes
  BY BucketAssumption DEF BInv, TypeOK
<1>1. CASE Tick
  <2>1. TypeOK'
    BY <1>0, <1>1 DEF Tick, TypeOK
  <2>2. Credit'
    BY <1>0, <1>1 DEF Tick, Credit
  <2>3. PastTimes'
    BY <1>0, <1>1 DEF Tick, PastTimes, TypeOK
  <2>. QED
    BY <2>1, <2>2, <2>3 DEF BInv
<1>2. CASE Expire
  <2>1. TypeOK'
    BY <1>0, <1>2 DEF Expire, TypeOK
  <2>2. PastTimes'
    BY <1>0, <1>2 DEF Expire, PastTimes
  <2>3. Refill * ((bucket.ts + drift) + TTL) = Refill * (bucket.ts + drift) + Refill * TTL
    BY <1>0, FullRefill, TimesPlus
  <2>4. Refill * ((bucket.ts + drift) + TTL) <= Refill * (expires + drift)
    <3>1. (bucket.ts + drift) + TTL <= expires + drift
      BY <1>0, <1>2, FullRefill DEF Expire, Credit
    <3>. QED
      BY <3>1, <1>0, FullRefill, TimesMonotone
  <2>5. allowed + bucket.tokens <= Capacity + Refill * (bucket.ts + drift)
    BY <1>0, <1>2 DEF Expire, Credit
  <2>6. /\ Refill * (bucket.ts + drift) \in Nat /\ Refill * TTL \in Nat
        /\ Refill * (expires + drift) \in Nat
    BY <1>0, FullRefill
  <2>7. allowed <= Refill * (expires + drift)
    BY <2>3, <2>4, <2>5, <2>6, <1>0, FullRefill
  <2>8. Credit'
    BY <2>7, <1>0, <1>2 DEF Expire, Credit, TypeOK
  <2>. QED
    BY <2>1, <2>2, <2>8 DEF BInv
<1>3. CASE \E c \in Callers : AllowReadsClock(c)
  <2>1. PICK c \in Callers : AllowReadsClock(c)
    BY <1>3
  <2>2. PICK cost \in Costs :
          /\ call' = [call EXCEPT ![c] = [pc |-> "script", now |-> clock, cost |-> cost]]
          /\ UNCHANGED <<clock, bucket, expires, allowed, drift>>
    BY <2>1 DEF AllowReadsClock
  <2>3. cost \in Nat
    BY BucketAssumption
  <2>4. TypeOK'
    BY <1>0, <2>2, <2>3 DEF TypeOK
  <2>5. Credit'
    BY <1>0, <2>2 DEF Credit
  <2>6. PastTimes'
    BY <1>0, <2>2 DEF PastTimes, TypeOK
  <2>. QED
    BY <2>4, <2>5, <2>6 DEF BInv
<1>4. CASE \E c \in Callers : AllowScript(c)
  <2>1. PICK c \in Callers : AllowScript(c)
    BY <1>4
  <2>2. call[c].now \in Nat /\ call[c].cost \in Nat /\ call[c].now <= clock
    BY <1>0, <2>1 DEF TypeOK, PastTimes
  <2>3. /\ Credit'
        /\ bucket' \in [live : BOOLEAN, tokens : 0 .. Capacity, ts : Nat]
        /\ expires' \in Nat /\ allowed' \in Nat /\ drift' \in Nat
    BY <1>0, <2>1, <2>2, ScriptKeepsCredit DEF AllowScript
  <2>4. TypeOK'
    BY <1>0, <2>1, <2>3 DEF AllowScript, TypeOK, NoCall
  <2>5. PastTimes'
    BY <1>0, <2>1 DEF AllowScript, PastTimes, TypeOK, NoCall
  <2>. QED
    BY <2>3, <2>4, <2>5 DEF BInv
<1>5. CASE \E c \in Callers : AllowFails(c)
  <2>1. PICK c \in Callers : AllowFails(c)
    BY <1>5
  <2>2. TypeOK'
    BY <1>0, <2>1 DEF AllowFails, TypeOK, NoCall
  <2>3. Credit'
    BY <1>0, <2>1 DEF AllowFails, Credit
  <2>4. PastTimes'
    BY <1>0, <2>1 DEF AllowFails, PastTimes, TypeOK, NoCall
  <2>. QED
    BY <2>2, <2>3, <2>4 DEF BInv
<1>6. CASE UNCHANGED vars
  BY <1>6 DEF vars, BInv, TypeOK, Credit, PastTimes
<1>. QED
  BY <1>1, <1>2, <1>3, <1>4, <1>5, <1>6 DEF Next

LEMMA BInvBound == BInv => RateBound
<1>. SUFFICES ASSUME BInv PROVE RateBound
  OBVIOUS
<1>0. /\ bucket.live \in BOOLEAN /\ bucket.tokens \in 0 .. Capacity /\ bucket.ts \in Nat
      /\ clock \in Nat /\ expires \in Nat /\ allowed \in Nat /\ drift \in Nat
      /\ Capacity \in Nat /\ Refill \in Nat /\ Credit
  BY BucketAssumption DEF BInv, TypeOK
<1>1. CASE bucket.live
  <2>1. Refill * (bucket.ts + drift) <= Refill * (clock + drift)
    BY <1>0, <1>1, TimesMonotone DEF Credit
  <2>2. Refill * (bucket.ts + drift) \in Nat /\ Refill * (clock + drift) \in Nat
    BY <1>0
  <2>3. allowed + bucket.tokens <= Capacity + Refill * (bucket.ts + drift)
    BY <1>0, <1>1 DEF Credit
  <2>. QED
    BY <1>0, <2>1, <2>2, <2>3 DEF RateBound
<1>2. CASE ~bucket.live
  <2>1. Refill * (expires + drift) <= Refill * (clock + drift)
    BY <1>0, <1>2, TimesMonotone DEF Credit
  <2>2. Refill * (expires + drift) \in Nat /\ Refill * (clock + drift) \in Nat
    BY <1>0
  <2>3. allowed <= Refill * (expires + drift)
    BY <1>0, <1>2 DEF Credit
  <2>. QED
    BY <1>0, <2>1, <2>2, <2>3 DEF RateBound
<1>. QED
  BY <1>1, <1>2

\* The rate limiter of Store.Allow never permits more than the burst, the steady rate and
\* what late calls refill twice, for every capacity, rate, cost and number of callers.
THEOREM RateBounded == Spec => []RateBound
<1>1. Init => BInv
  BY BInvInit
<1>2. BInv /\ [Next]_vars => BInv'
  BY BInvStep
<1>3. BInv => RateBound
  BY BInvBound
<1>. QED
  BY <1>1, <1>2, <1>3, PTL DEF Spec

\* Every variable of the limiter has its type: whatever the order in which clock readings
\* reach the script, the bucket holds neither a debt nor more than its capacity.
THEOREM BucketTyped == Spec => []TypeOK
<1>1. BInv => TypeOK
  BY DEF BInv
<1>. QED
  BY <1>1, BInvInit, BInvStep, PTL DEF Spec
=============================================================================
