------------------------------ MODULE PoolProofs ------------------------------
(***************************************************************************)
(* Proofs about the snapshot pool.  PInv adds to the safety properties the *)
(* two facts that make them inductive: what each step of a goroutine says  *)
(* about the instance in its hands (AtHand), and that the warm slots and   *)
(* the iterations the refill loop has left never exceed twice Depth (Room).*)
(***************************************************************************)
EXTENDS Pool, TLAPS, SequenceTheorems

AtHand ==
  /\ \A c \in Callers : caller[c].pc \in {"idle", "restore"} <=> caller[c].inst = NoInst
  /\ refiller.pc = "append" <=> refiller.inst # NoInst
  /\ refiller.pc \in {"restore", "append", "backoff"} => refiller.left > 0
  /\ closes = 0 <=> closer.pc = "idle"
  /\ closer.pc # "terminate" => closer.doomed = {}

Room == Len(warm) + refiller.left <= 2 * Depth

PInv == TypeOK /\ AtHand /\ Room /\ OneOwner /\ NothingLost

\* A sequence without its last element is shorter by one.
LEMMA PopLength ==
  ASSUME NEW S, NEW s \in Seq(S), s # <<>>
  PROVE  Len(SubSeq(s, 1, Len(s) - 1)) = Len(s) - 1
<1> DEFINE n == Len(s) - 1
<1>1. n \in Nat /\ n \in Int /\ 1 \in Int
  <2>1. Len(s) \in Nat /\ Len(s) # 0
    OBVIOUS
  <2>2. QED
    BY <2>1
<1>2. \A k \in 1 .. n : s[k] \in S
  OBVIOUS
<1> HIDE DEF n
<1>3. Len(SubSeq(s, 1, n)) = IF 1 <= n THEN n - 1 + 1 ELSE 0
  BY <1>1, <1>2, SubSeqProperties
<1>4. Len(SubSeq(s, 1, n)) = n
  BY <1>1, <1>3
<1>5. QED
  BY <1>4 DEF n

\* Taking the last slot: the rest stays, and the slot taken is not in it.
LEMMA WarmPop ==
  ASSUME TypeOK, OneOwner, warm # <<>>, warm' = SubSeq(warm, 1, Len(warm) - 1)
  PROVE  /\ warm' \in Seq(Insts) /\ Len(warm') = Len(warm) - 1
         /\ \A j, k \in 1 .. Len(warm') : j # k => warm'[j] # warm'[k]
         /\ warm[Len(warm)] \in Warm /\ warm[Len(warm)] \in Insts
         /\ warm[Len(warm)] \notin Warm'
         /\ Warm' \cup {warm[Len(warm)]} = Warm
<1>1. Len(warm) \in Nat /\ Len(warm) > 0
  BY DEF TypeOK
<1>2. \A k \in 1 .. Len(warm) : warm[k] \in Insts
  BY DEF TypeOK
<1>3. /\ warm' \in Seq(Insts) /\ Len(warm') = Len(warm) - 1
      /\ \A k \in 1 .. Len(warm) - 1 : warm'[k] = warm[k]
  BY <1>1, PopLength DEF TypeOK
<1>4. \A j, k \in 1 .. Len(warm) : j # k => warm[j] # warm[k]
  BY DEF OneOwner
<1>5. Warm' = {warm[k] : k \in 1 .. Len(warm) - 1}
  BY <1>1, <1>3 DEF Warm
<1>6. warm[Len(warm)] \notin Warm'
  BY <1>1, <1>4, <1>5
<1>7. Warm' \cup {warm[Len(warm)]} = Warm
  BY <1>1, <1>5 DEF Warm
<1>8. QED
  BY <1>1, <1>2, <1>3, <1>4, <1>6, <1>7

\* Adding a slot that was nobody else's.
LEMMA WarmPush ==
  ASSUME TypeOK, OneOwner, NEW i \in Insts, i \notin Warm, warm' = Append(warm, i)
  PROVE  /\ warm' \in Seq(Insts) /\ Len(warm') = Len(warm) + 1
         /\ \A j, k \in 1 .. Len(warm') : j # k => warm'[j] # warm'[k]
         /\ Warm' = Warm \cup {i}
<1>1. Len(warm) \in Nat /\ warm \in Seq(Insts)
  BY DEF TypeOK
<1>2. /\ warm' \in Seq(Insts) /\ Len(warm') = Len(warm) + 1
      /\ \A k \in 1 .. Len(warm) : warm'[k] = warm[k]
      /\ warm'[Len(warm) + 1] = i
  BY <1>1
<1>3. \A j, k \in 1 .. Len(warm) : j # k => warm[j] # warm[k]
  BY DEF OneOwner
<1>4. \A k \in 1 .. Len(warm) : warm[k] # i
  BY DEF Warm
<1>5. \A j, k \in 1 .. Len(warm') : j # k => warm'[j] # warm'[k]
  BY <1>1, <1>2, <1>3, <1>4
<1>6. Warm' = Warm \cup {i}
  BY <1>1, <1>2 DEF Warm
<1>7. QED
  BY <1>2, <1>5, <1>6

\* The slots of warm are instances.
LEMMA WarmInsts ==
  ASSUME TypeOK PROVE Warm \subseteq Insts
BY DEF TypeOK, Warm

\* A step that leaves warm alone leaves the set of slots alone.
LEMMA WarmKept ==
  ASSUME UNCHANGED warm PROVE Warm' = Warm
BY DEF Warm

LEMMA InitPInv == Init => PInv
<1>1. SUFFICES ASSUME Init PROVE PInv
  OBVIOUS
<1>2. Len(warm) = 0 /\ Warm = {}
  BY <1>1 DEF Init, Warm
<1>3. TypeOK /\ AtHand /\ Room
  <2>1. warm \in Seq(Insts)
    BY <1>1 DEF Init
  <2>2. panicked \in BOOLEAN
    BY <1>1 DEF Init
  <2>3. TypeOK
    BY <1>1, <2>1, <2>2, PoolAssumption DEF Init, TypeOK, NoCaller
  <2>4. AtHand /\ Room
    BY <1>1, <1>2, PoolAssumption DEF Init, AtHand, Room, NoCaller
  <2>5. QED
    BY <2>3, <2>4
<1>4. OneOwner /\ NothingLost
  BY <1>1, <1>2, PoolAssumption DEF Init, OneOwner, NothingLost, NoCaller
<1>5. QED
  BY <1>3, <1>4 DEF PInv

\* Acquire and Release.
LEMMA CallersKeepPInv ==
  ASSUME PInv, NEW c \in Callers, Acquire(c) \/ Release(c)
  PROVE  PInv'
<1>0. /\ TypeOK /\ AtHand /\ Room /\ OneOwner /\ NothingLost
      /\ Len(warm) \in Nat /\ {Depth, MaxFailures, MaxCloses} \subseteq Nat /\ NoInst \notin Insts
  BY PoolAssumption DEF PInv, TypeOK
<1>1. CASE AcquireWarm(c)
  <2>1. /\ warm' \in Seq(Insts) /\ Len(warm') = Len(warm) - 1
        /\ \A j, k \in 1 .. Len(warm') : j # k => warm'[j] # warm'[k]
        /\ warm[Len(warm)] \in Warm /\ warm[Len(warm)] \in Insts
        /\ warm[Len(warm)] \notin Warm'
        /\ Warm' \cup {warm[Len(warm)]} = Warm
    BY <1>1, <1>0, WarmPop DEF AcquireWarm
  <2>2. /\ \A d \in Callers : caller'[d].inst = IF d = c THEN warm[Len(warm)] ELSE caller[d].inst
        /\ UNCHANGED <<refiller, closer>>
    BY <1>1, <1>0 DEF AcquireWarm, TypeOK
  <2>3. Warm \cup closer.doomed \subseteq Insts /\ warm \in Seq(Insts)
    BY <1>0, WarmInsts DEF TypeOK
  <2>4. UNCHANGED tracked
    BY <1>1 DEF AcquireWarm, Terminate
  <2>5. TypeOK'
    BY <1>1, <1>0, <2>1, <2>2, <2>3, <2>4, WarmInsts DEF AcquireWarm, TypeOK
  <2>6. AtHand'
    BY <1>1, <1>0, <2>1, <2>2, <2>3, <2>4 DEF AcquireWarm, AtHand, TypeOK
  <2>7. Room'
    BY <1>1, <1>0, <2>1, <2>2, <2>3, <2>4 DEF AcquireWarm, Room, TypeOK
  <2>8. OneOwner'
    <3>1. \A j, k \in 1 .. Len(warm') : j # k => warm'[j] # warm'[k]
      BY <1>0, <2>1, <2>2, <2>3, <2>4 DEF OneOwner
    <3>2. \A d, e \in Callers : d # e /\ caller'[d].inst # NoInst => caller'[d].inst # caller'[e].inst
      BY <1>0, <2>1, <2>2, <2>3, <2>4 DEF OneOwner
    <3>3. \A d \in Callers : caller'[d].inst \notin Warm' \cup closer'.doomed
      BY <1>0, <2>1, <2>2, <2>3, <2>4 DEF OneOwner
    <3>4. \A d \in Callers : caller'[d].inst # NoInst => caller'[d].inst # refiller'.inst
      BY <1>0, <2>1, <2>2, <2>3, <2>4 DEF OneOwner
    <3>5. refiller'.inst \notin Warm' \cup closer'.doomed
      BY <1>0, <2>1, <2>2, <2>3, <2>4 DEF OneOwner
    <3>6. Warm' \cap closer'.doomed = {}
      BY <1>0, <2>1, <2>2, <2>3, <2>4 DEF OneOwner
    <3>7. QED
      BY <3>1, <3>2, <3>3, <3>4, <3>5, <3>6 DEF OneOwner
  <2>9. NothingLost'
    <3>1. caller'[c].inst = warm[Len(warm)]
      BY <2>2
    <3>2. ASSUME NEW i \in tracked, \A d \in Callers : caller'[d].inst # i
          PROVE  i \in Warm' \cup closer'.doomed \/ refiller'.inst = i
      <4>1. i # warm[Len(warm)]
        BY <3>1, <3>2
      <4>2. \A d \in Callers : caller[d].inst # i
        BY <1>0, <1>1, <2>2, <3>2 DEF AcquireWarm, AtHand, TypeOK
      <4>3. i \in Warm \cup closer.doomed \/ refiller.inst = i
        BY <1>0, <3>2, <4>2 DEF NothingLost
      <4>4. QED
        BY <2>1, <2>2, <4>1, <4>3
    <3>3. QED
      BY <2>4, <3>2 DEF NothingLost
  <2>10. QED
    BY <2>5, <2>6, <2>7, <2>8, <2>9 DEF PInv
<1>2. CASE AcquireTriggers(c)
  <2>1. Warm' = Warm /\ warm' = warm
    BY <1>2, WarmKept DEF AcquireTriggers
  <2>2. TypeOK'
    BY <1>2, <1>0, <2>1, WarmInsts DEF AcquireTriggers, triggerRefill, TypeOK
  <2>3. AtHand'
    BY <1>2, <1>0, <2>1 DEF AcquireTriggers, triggerRefill, AtHand, TypeOK
  <2>4. Room'
    BY <1>2, <1>0, <2>1 DEF AcquireTriggers, triggerRefill, Room, TypeOK
  <2>5. OneOwner'
    BY <1>2, <1>0, <2>1 DEF AcquireTriggers, triggerRefill, OneOwner, AtHand, TypeOK
  <2>6. NothingLost'
    BY <1>2, <1>0, <2>1 DEF AcquireTriggers, triggerRefill, NothingLost, OneOwner, AtHand, TypeOK
  <2>7. QED
    BY <2>2, <2>3, <2>4, <2>5, <2>6 DEF PInv
<1>3. CASE AcquireEmpty(c)
  <2>1. Warm' = Warm /\ warm' = warm
    BY <1>3, WarmKept DEF AcquireEmpty
  <2>2. TypeOK'
    BY <1>3, <1>0, <2>1, WarmInsts DEF AcquireEmpty, TypeOK
  <2>3. AtHand'
    BY <1>3, <1>0, <2>1 DEF AcquireEmpty, AtHand, TypeOK
  <2>4. Room'
    BY <1>3, <1>0, <2>1 DEF AcquireEmpty, Room, TypeOK
  <2>5. OneOwner'
    BY <1>3, <1>0, <2>1 DEF AcquireEmpty, OneOwner, AtHand, TypeOK
  <2>6. NothingLost'
    BY <1>3, <1>0, <2>1 DEF AcquireEmpty, NothingLost, OneOwner, AtHand, TypeOK
  <2>7. QED
    BY <2>2, <2>3, <2>4, <2>5, <2>6 DEF PInv
<1>4. CASE AcquireRestores(c)
  <2>1. Warm' = Warm /\ warm' = warm
    BY <1>4, WarmKept DEF AcquireRestores
  <2>2. TypeOK'
    BY <1>4, <1>0, <2>1, WarmInsts DEF AcquireRestores, Restore, TypeOK
  <2>3. AtHand'
    BY <1>4, <1>0, <2>1 DEF AcquireRestores, Restore, AtHand, TypeOK
  <2>4. Room'
    BY <1>4, <1>0, <2>1 DEF AcquireRestores, Restore, Room, TypeOK
  <2>5. OneOwner'
    BY <1>4, <1>0, <2>1 DEF AcquireRestores, Restore, OneOwner, AtHand, TypeOK
  <2>6. NothingLost'
    BY <1>4, <1>0, <2>1 DEF AcquireRestores, Restore, NothingLost, OneOwner, AtHand, TypeOK
  <2>7. QED
    BY <2>2, <2>3, <2>4, <2>5, <2>6 DEF PInv
<1>5. CASE AcquireFails(c)
  <2>1. Warm' = Warm /\ warm' = warm
    BY <1>5, WarmKept DEF AcquireFails
  <2>2. TypeOK'
    BY <1>5, <1>0, <2>1, WarmInsts DEF AcquireFails, NoCaller, TypeOK
  <2>3. AtHand'
    BY <1>5, <1>0, <2>1 DEF AcquireFails, NoCaller, AtHand, TypeOK
  <2>4. Room'
    BY <1>5, <1>0, <2>1 DEF AcquireFails, NoCaller, Room, TypeOK
  <2>5. OneOwner'
    BY <1>5, <1>0, <2>1 DEF AcquireFails, NoCaller, OneOwner, AtHand, TypeOK
  <2>6. NothingLost'
    BY <1>5, <1>0, <2>1 DEF AcquireFails, NoCaller, NothingLost, OneOwner, AtHand, TypeOK
  <2>7. QED
    BY <2>2, <2>3, <2>4, <2>5, <2>6 DEF PInv
<1>6. CASE ReleaseToPool(c)
  <2>1. caller[c].inst \in Insts /\ caller[c].inst \notin Warm
    BY <1>6, <1>0 DEF ReleaseToPool, TypeOK, AtHand, OneOwner
  <2>2. /\ warm' \in Seq(Insts) /\ Len(warm') = Len(warm) + 1
        /\ \A j, k \in 1 .. Len(warm') : j # k => warm'[j] # warm'[k]
        /\ Warm' = Warm \cup {caller[c].inst}
    BY <1>6, <1>0, <2>1, WarmPush DEF ReleaseToPool
  <2>3. /\ \A d \in Callers : caller'[d].inst = IF d = c THEN NoInst ELSE caller[d].inst
        /\ UNCHANGED <<refiller, closer>>
    BY <1>6, <1>0 DEF ReleaseToPool, TypeOK, NoCaller
  <2>4. Warm \cup closer.doomed \subseteq Insts /\ warm \in Seq(Insts)
    BY <1>0, WarmInsts DEF TypeOK
  <2>5. UNCHANGED tracked
    BY <1>6 DEF ReleaseToPool, Terminate
  <2>6. TypeOK'
    BY <1>6, <1>0, <2>1, <2>2, <2>3, <2>4, <2>5, WarmInsts DEF ReleaseToPool, NoCaller, TypeOK
  <2>7. AtHand'
    BY <1>6, <1>0, <2>1, <2>2, <2>3, <2>4, <2>5 DEF ReleaseToPool, NoCaller, AtHand, TypeOK
  <2>8. Room'
    BY <1>6, <1>0, <2>1, <2>2, <2>3, <2>4, <2>5 DEF ReleaseToPool, NoCaller, Room, TypeOK
  <2>9. OneOwner'
    <3>1. \A j, k \in 1 .. Len(warm') : j # k => warm'[j] # warm'[k]
      BY <1>0, <2>1, <2>2, <2>3, <2>4, <2>5 DEF OneOwner
    <3>2. \A d, e \in Callers : d # e /\ caller'[d].inst # NoInst => caller'[d].inst # caller'[e].inst
      BY <1>0, <2>1, <2>2, <2>3, <2>4, <2>5 DEF OneOwner
    <3>3. \A d \in Callers : caller'[d].inst \notin Warm' \cup closer'.doomed
      BY <1>0, <2>1, <2>2, <2>3, <2>4, <2>5 DEF OneOwner
    <3>4. \A d \in Callers : caller'[d].inst # NoInst => caller'[d].inst # refiller'.inst
      BY <1>0, <2>1, <2>2, <2>3, <2>4, <2>5 DEF OneOwner
    <3>5. refiller'.inst \notin Warm' \cup closer'.doomed
      BY <1>0, <2>1, <2>2, <2>3, <2>4, <2>5 DEF OneOwner
    <3>6. Warm' \cap closer'.doomed = {}
      BY <1>0, <2>1, <2>2, <2>3, <2>4, <2>5 DEF OneOwner
    <3>7. QED
      BY <3>1, <3>2, <3>3, <3>4, <3>5, <3>6 DEF OneOwner
  <2>10. NothingLost'
    BY <1>0, <2>1, <2>2, <2>3, <2>4, <2>5 DEF NothingLost, OneOwner
  <2>11. QED
    BY <2>6, <2>7, <2>8, <2>9, <2>10 DEF PInv
<1>7. CASE ReleaseFull(c)
  <2>1. Warm' = Warm /\ warm' = warm
    BY <1>7, WarmKept DEF ReleaseFull
  <2>2. TypeOK'
    BY <1>7, <1>0, <2>1, WarmInsts DEF ReleaseFull, TypeOK
  <2>3. AtHand'
    BY <1>7, <1>0, <2>1 DEF ReleaseFull, AtHand, TypeOK
  <2>4. Room'
    BY <1>7, <1>0, <2>1 DEF ReleaseFull, Room, TypeOK
  <2>5. OneOwner'
    BY <1>7, <1>0, <2>1 DEF ReleaseFull, OneOwner, AtHand, TypeOK
  <2>6. NothingLost'
    BY <1>7, <1>0, <2>1 DEF ReleaseFull, NothingLost, OneOwner, AtHand, TypeOK
  <2>7. QED
    BY <2>2, <2>3, <2>4, <2>5, <2>6 DEF PInv
<1>8. CASE Discard(c)
  <2>1. Warm' = Warm /\ warm' = warm
    BY <1>8, WarmKept DEF Discard
  <2>2. /\ \A d \in Callers : caller'[d].inst = IF d = c THEN NoInst ELSE caller[d].inst
        /\ UNCHANGED <<refiller, closer>>
    BY <1>8, <1>0 DEF Discard, TypeOK, NoCaller
  <2>3. Warm \cup closer.doomed \subseteq Insts /\ warm \in Seq(Insts)
    BY <1>0, WarmInsts DEF TypeOK
  <2>4. tracked' = tracked \ {caller[c].inst}
    BY <1>8 DEF Discard, Terminate
  <2>5. TypeOK'
    BY <1>8, <1>0, <2>1, <2>2, <2>3, <2>4, WarmInsts DEF Discard, NoCaller, Terminate, TypeOK
  <2>6. AtHand'
    BY <1>8, <1>0, <2>1, <2>2, <2>3, <2>4 DEF Discard, NoCaller, Terminate, AtHand, TypeOK
  <2>7. Room'
    BY <1>8, <1>0, <2>1, <2>2, <2>3, <2>4 DEF Discard, NoCaller, Terminate, Room, TypeOK
  <2>8. OneOwner'
    <3>1. \A j, k \in 1 .. Len(warm') : j # k => warm'[j] # warm'[k]
      BY <1>0, <2>1, <2>2, <2>3, <2>4 DEF OneOwner
    <3>2. \A d, e \in Callers : d # e /\ caller'[d].inst # NoInst => caller'[d].inst # caller'[e].inst
      BY <1>0, <2>1, <2>2, <2>3, <2>4 DEF OneOwner
    <3>3. \A d \in Callers : caller'[d].inst \notin Warm' \cup closer'.doomed
      BY <1>0, <2>1, <2>2, <2>3, <2>4 DEF OneOwner
    <3>4. \A d \in Callers : caller'[d].inst # NoInst => caller'[d].inst # refiller'.inst
      BY <1>0, <2>1, <2>2, <2>3, <2>4 DEF OneOwner
    <3>5. refiller'.inst \notin Warm' \cup closer'.doomed
      BY <1>0, <2>1, <2>2, <2>3, <2>4 DEF OneOwner
    <3>6. Warm' \cap closer'.doomed = {}
      BY <1>0, <2>1, <2>2, <2>3, <2>4 DEF OneOwner
    <3>7. QED
      BY <3>1, <3>2, <3>3, <3>4, <3>5, <3>6 DEF OneOwner
  <2>9. NothingLost'
    BY <1>0, <2>1, <2>2, <2>3, <2>4 DEF NothingLost, OneOwner
  <2>10. QED
    BY <2>5, <2>6, <2>7, <2>8, <2>9 DEF PInv
<1>9. QED
  BY <1>1, <1>2, <1>3, <1>4, <1>5, <1>6, <1>7, <1>8 DEF Acquire, Release

\* The refill loop.
LEMMA RefillKeepsPInv ==
  ASSUME PInv, refillLoop
  PROVE  PInv'
<1>0. /\ TypeOK /\ AtHand /\ Room /\ OneOwner /\ NothingLost
      /\ Len(warm) \in Nat /\ {Depth, MaxFailures, MaxCloses} \subseteq Nat /\ NoInst \notin Insts
  BY PoolAssumption DEF PInv, TypeOK
<1>1. CASE RefillTakes
  <2>1. Warm' = Warm /\ warm' = warm
    BY <1>1, WarmKept DEF RefillTakes
  <2>2. TypeOK'
    BY <1>1, <1>0, <2>1, WarmInsts DEF RefillTakes, Iterate, TypeOK
  <2>3. AtHand'
    BY <1>1, <1>0, <2>1 DEF RefillTakes, Iterate, AtHand, TypeOK
  <2>4. Room'
    BY <1>1, <1>0, <2>1 DEF RefillTakes, Iterate, Room, TypeOK
  <2>5. OneOwner'
    BY <1>1, <1>0, <2>1 DEF RefillTakes, Iterate, OneOwner, AtHand, TypeOK
  <2>6. NothingLost'
    BY <1>1, <1>0, <2>1 DEF RefillTakes, Iterate, NothingLost, OneOwner, AtHand, TypeOK
  <2>7. QED
    BY <2>2, <2>3, <2>4, <2>5, <2>6 DEF PInv
<1>2. CASE RefillRestores
  <2>1. Warm' = Warm /\ warm' = warm
    BY <1>2, WarmKept DEF RefillRestores
  <2>2. TypeOK'
    <3>1. refiller' \in [pc : {"select", "restore", "append", "backoff", "stopped"},
                         left : 0 .. Depth, inst : Insts \cup {NoInst}]
      BY <1>2, <1>0 DEF RefillRestores, Restore, TypeOK
    <3>2. tracked' \subseteq Insts
      BY <1>2, <1>0 DEF RefillRestores, Restore, TypeOK
    <3>3. UNCHANGED <<warm, signals, caller, closer, closes, panicked, failures>>
      BY <1>2 DEF RefillRestores
    <3>4. QED
      BY <1>0, <3>1, <3>2, <3>3 DEF TypeOK
  <2>3. AtHand'
    BY <1>2, <1>0, <2>1 DEF RefillRestores, Restore, AtHand, TypeOK
  <2>4. Room'
    BY <1>2, <1>0, <2>1 DEF RefillRestores, Restore, Room, TypeOK
  <2>5. OneOwner'
    BY <1>2, <1>0, <2>1 DEF RefillRestores, Restore, OneOwner, AtHand, TypeOK
  <2>6. NothingLost'
    BY <1>2, <1>0, <2>1 DEF RefillRestores, Restore, NothingLost, OneOwner, AtHand, TypeOK
  <2>7. QED
    BY <2>2, <2>3, <2>4, <2>5, <2>6 DEF PInv
<1>3. CASE RefillAppends
  <2>1. refiller.inst \in Insts /\ refiller.inst \notin Warm
    BY <1>3, <1>0 DEF RefillAppends, TypeOK, AtHand, OneOwner
  <2>2. /\ warm' \in Seq(Insts) /\ Len(warm') = Len(warm) + 1
        /\ \A j, k \in 1 .. Len(warm') : j # k => warm'[j] # warm'[k]
        /\ Warm' = Warm \cup {refiller.inst}
    BY <1>3, <1>0, <2>1, WarmPush DEF RefillAppends
  <2>3. refiller'.inst = NoInst /\ UNCHANGED <<caller, closer, tracked>>
    BY <1>3 DEF RefillAppends, Iterate
  <2>4. Warm \cup closer.doomed \subseteq Insts /\ warm \in Seq(Insts)
    BY <1>0, WarmInsts DEF TypeOK
  <2>5. TypeOK'
    BY <1>3, <1>0, <2>1, <2>2, <2>3, <2>4, WarmInsts DEF RefillAppends, Iterate, TypeOK, AtHand
  <2>6. AtHand'
    BY <1>3, <1>0, <2>1, <2>2, <2>3, <2>4 DEF RefillAppends, Iterate, AtHand, TypeOK
  <2>7. Room'
    BY <1>3, <1>0, <2>1, <2>2, <2>3, <2>4 DEF RefillAppends, Iterate, Room, TypeOK, AtHand
  <2>8. OneOwner'
    <3>1. \A j, k \in 1 .. Len(warm') : j # k => warm'[j] # warm'[k]
      BY <1>0, <2>1, <2>2, <2>3, <2>4 DEF OneOwner
    <3>2. \A d, e \in Callers : d # e /\ caller'[d].inst # NoInst => caller'[d].inst # caller'[e].inst
      BY <1>0, <2>1, <2>2, <2>3, <2>4 DEF OneOwner
    <3>3. \A d \in Callers : caller'[d].inst \notin Warm' \cup closer'.doomed
      BY <1>0, <2>1, <2>2, <2>3, <2>4 DEF OneOwner
    <3>4. \A d \in Callers : caller'[d].inst # NoInst => caller'[d].inst # refiller'.inst
      BY <1>0, <2>1, <2>2, <2>3, <2>4 DEF OneOwner
    <3>5. refiller'.inst \notin Warm' \cup closer'.doomed
      BY <1>0, <2>1, <2>2, <2>3, <2>4 DEF OneOwner
    <3>6. Warm' \cap closer'.doomed = {}
      BY <1>0, <2>1, <2>2, <2>3, <2>4 DEF OneOwner
    <3>7. QED
      BY <3>1, <3>2, <3>3, <3>4, <3>5, <3>6 DEF OneOwner
  <2>9. NothingLost'
    BY <1>0, <2>1, <2>2, <2>3, <2>4 DEF NothingLost, OneOwner
  <2>10. QED
    BY <2>5, <2>6, <2>7, <2>8, <2>9 DEF PInv
<1>4. CASE RefillFails
  <2>1. Warm' = Warm /\ warm' = warm
    BY <1>4, WarmKept DEF RefillFails
  <2>2. TypeOK'
    <3>1. refiller' \in [pc : {"select", "restore", "append", "backoff", "stopped"},
                         left : 0 .. Depth, inst : Insts \cup {NoInst}]
      BY <1>4, <1>0 DEF RefillFails, TypeOK
    <3>2. failures' \in 0 .. MaxFailures
      BY <1>4, <1>0 DEF RefillFails, TypeOK
    <3>3. UNCHANGED <<warm, signals, caller, closer, closes, panicked, tracked>>
      BY <1>4 DEF RefillFails
    <3>4. QED
      BY <1>0, <3>1, <3>2, <3>3 DEF TypeOK
  <2>3. AtHand'
    BY <1>4, <1>0, <2>1 DEF RefillFails, AtHand, TypeOK
  <2>4. Room'
    BY <1>4, <1>0, <2>1 DEF RefillFails, Room, TypeOK
  <2>5. OneOwner'
    BY <1>4, <1>0, <2>1 DEF RefillFails, OneOwner, AtHand, TypeOK
  <2>6. NothingLost'
    BY <1>4, <1>0, <2>1 DEF RefillFails, NothingLost, OneOwner, AtHand, TypeOK
  <2>7. QED
    BY <2>2, <2>3, <2>4, <2>5, <2>6 DEF PInv
<1>5. CASE RefillBacksOff
  <2>1. Warm' = Warm /\ warm' = warm
    BY <1>5, WarmKept DEF RefillBacksOff
  <2>2. TypeOK'
    BY <1>5, <1>0, <2>1, WarmInsts DEF RefillBacksOff, Iterate, TypeOK, AtHand
  <2>3. AtHand'
    BY <1>5, <1>0, <2>1 DEF RefillBacksOff, Iterate, AtHand, TypeOK
  <2>4. Room'
    BY <1>5, <1>0, <2>1 DEF RefillBacksOff, Iterate, Room, TypeOK, AtHand
  <2>5. OneOwner'
    BY <1>5, <1>0, <2>1 DEF RefillBacksOff, Iterate, OneOwner, AtHand, TypeOK
  <2>6. NothingLost'
    BY <1>5, <1>0, <2>1 DEF RefillBacksOff, Iterate, NothingLost, OneOwner, AtHand, TypeOK
  <2>7. QED
    BY <2>2, <2>3, <2>4, <2>5, <2>6 DEF PInv
<1>6. CASE RefillStops
  <2>1. Warm' = Warm /\ warm' = warm
    BY <1>6, WarmKept DEF RefillStops
  <2>2. TypeOK'
    BY <1>6, <1>0, <2>1, WarmInsts DEF RefillStops, TypeOK
  <2>3. AtHand'
    BY <1>6, <1>0, <2>1 DEF RefillStops, AtHand, TypeOK
  <2>4. Room'
    BY <1>6, <1>0, <2>1 DEF RefillStops, Room, TypeOK
  <2>5. OneOwner'
    BY <1>6, <1>0, <2>1 DEF RefillStops, OneOwner, AtHand, TypeOK
  <2>6. NothingLost'
    BY <1>6, <1>0, <2>1 DEF RefillStops, NothingLost, OneOwner, AtHand, TypeOK
  <2>7. QED
    BY <2>2, <2>3, <2>4, <2>5, <2>6 DEF PInv
<1>7. QED
  BY <1>1, <1>2, <1>3, <1>4, <1>5, <1>6 DEF refillLoop

\* Close.
LEMMA CloseKeepsPInv ==
  ASSUME PInv, Close
  PROVE  PInv'
<1>0. /\ TypeOK /\ AtHand /\ Room /\ OneOwner /\ NothingLost
      /\ Len(warm) \in Nat /\ {Depth, MaxFailures, MaxCloses} \subseteq Nat /\ NoInst \notin Insts
  BY PoolAssumption DEF PInv, TypeOK
<1>1. CASE CloseBegins
  <2>1. Warm' = Warm /\ warm' = warm
    BY <1>1, WarmKept DEF CloseBegins
  <2>2. TypeOK'
    BY <1>1, <1>0, <2>1, WarmInsts DEF CloseBegins, TypeOK
  <2>3. AtHand'
    BY <1>1, <1>0, <2>1 DEF CloseBegins, AtHand, TypeOK
  <2>4. Room'
    BY <1>1, <1>0, <2>1 DEF CloseBegins, Room, TypeOK
  <2>5. OneOwner'
    BY <1>1, <1>0, <2>1 DEF CloseBegins, OneOwner, AtHand, TypeOK
  <2>6. NothingLost'
    BY <1>1, <1>0, <2>1 DEF CloseBegins, NothingLost, OneOwner, AtHand, TypeOK
  <2>7. QED
    BY <2>2, <2>3, <2>4, <2>5, <2>6 DEF PInv
<1>2. CASE CloseAgain
  <2>1. Warm' = Warm /\ warm' = warm
    BY <1>2, WarmKept DEF CloseAgain
  <2>2. TypeOK'
    BY <1>2, <1>0, <2>1, WarmInsts DEF CloseAgain, TypeOK
  <2>3. AtHand'
    BY <1>2, <1>0, <2>1 DEF CloseAgain, AtHand, TypeOK
  <2>4. Room'
    BY <1>2, <1>0, <2>1 DEF CloseAgain, Room, TypeOK
  <2>5. OneOwner'
    BY <1>2, <1>0, <2>1 DEF CloseAgain, OneOwner, AtHand, TypeOK
  <2>6. NothingLost'
    BY <1>2, <1>0, <2>1 DEF CloseAgain, NothingLost, OneOwner, AtHand, TypeOK
  <2>7. QED
    BY <2>2, <2>3, <2>4, <2>5, <2>6 DEF PInv
<1>3. CASE CloseDrains
  <2>1. Warm' = {} /\ Len(warm') = 0 /\ warm' \in Seq(Insts)
    BY <1>3 DEF CloseDrains, Warm
  <2>2. TypeOK'
    BY <1>3, <1>0, <2>1, WarmInsts DEF CloseDrains, TypeOK
  <2>3. AtHand'
    BY <1>3, <1>0, <2>1 DEF CloseDrains, AtHand, TypeOK
  <2>4. Room'
    BY <1>3, <1>0, <2>1 DEF CloseDrains, Room, TypeOK
  <2>5. OneOwner'
    BY <1>3, <1>0, <2>1 DEF CloseDrains, OneOwner, AtHand, TypeOK
  <2>6. NothingLost'
    BY <1>3, <1>0, <2>1 DEF CloseDrains, NothingLost, OneOwner, AtHand, TypeOK
  <2>7. QED
    BY <2>2, <2>3, <2>4, <2>5, <2>6 DEF PInv
<1>4. CASE CloseTerminates
  <2>1. Warm' = Warm /\ warm' = warm
    BY <1>4, WarmKept DEF CloseTerminates
  <2>2. TypeOK'
    BY <1>4, <1>0, <2>1, WarmInsts DEF CloseTerminates, Terminate, TypeOK
  <2>3. AtHand'
    BY <1>4, <1>0, <2>1 DEF CloseTerminates, Terminate, AtHand, TypeOK
  <2>4. Room'
    BY <1>4, <1>0, <2>1 DEF CloseTerminates, Terminate, Room, TypeOK
  <2>5. OneOwner'
    BY <1>4, <1>0, <2>1 DEF CloseTerminates, Terminate, OneOwner, AtHand, TypeOK
  <2>6. NothingLost'
    BY <1>4, <1>0, <2>1 DEF CloseTerminates, Terminate, NothingLost, OneOwner, AtHand, TypeOK
  <2>7. QED
    BY <2>2, <2>3, <2>4, <2>5, <2>6 DEF PInv
<1>5. CASE CloseReturns
  <2>1. Warm' = Warm /\ warm' = warm
    BY <1>5, WarmKept DEF CloseReturns
  <2>2. TypeOK'
    BY <1>5, <1>0, <2>1, WarmInsts DEF CloseReturns, TypeOK
  <2>3. AtHand'
    BY <1>5, <1>0, <2>1 DEF CloseReturns, AtHand, TypeOK
  <2>4. Room'
    BY <1>5, <1>0, <2>1 DEF CloseReturns, Room, TypeOK
  <2>5. OneOwner'
    BY <1>5, <1>0, <2>1 DEF CloseReturns, OneOwner, AtHand, TypeOK
  <2>6. NothingLost'
    BY <1>5, <1>0, <2>1 DEF CloseReturns, NothingLost, OneOwner, AtHand, TypeOK
  <2>7. QED
    BY <2>2, <2>3, <2>4, <2>5, <2>6 DEF PInv
<1>6. QED
  BY <1>1, <1>2, <1>3, <1>4, <1>5 DEF Close

\* An instance that dies stays with its owner.
LEMMA DeathKeepsPInv ==
  ASSUME PInv, NEW i \in Insts, Dies(i)
  PROVE  PInv'
<1>1. Warm' = Warm
  BY WarmKept DEF Dies
<1>2. TypeOK' /\ AtHand' /\ Room'
  BY DEF PInv, Dies, Terminate, TypeOK, AtHand, Room
<1>3. OneOwner' /\ NothingLost'
  BY <1>1 DEF PInv, Dies, Terminate, OneOwner, NothingLost
<1>4. QED
  BY <1>2, <1>3 DEF PInv

LEMMA StepPInv == PInv /\ [Next]_vars => PInv'
<1>1. SUFFICES ASSUME PInv, [Next]_vars PROVE PInv'
  OBVIOUS
<1>2. CASE UNCHANGED vars
  <2>1. Warm' = Warm
    BY <1>2, WarmKept DEF vars
  <2>2. QED
    BY <1>1, <1>2, <2>1 DEF vars, PInv, TypeOK, AtHand, Room, OneOwner, NothingLost
<1>3. CASE Next
  BY <1>1, <1>3, CallersKeepPInv, RefillKeepsPInv, CloseKeepsPInv, DeathKeepsPInv DEF Next
<1>4. QED
  BY <1>1, <1>2, <1>3

LEMMA AlwaysPInv == Spec => []PInv
BY InitPInv, StepPInv, PTL DEF Spec

\* Every variable of the pool has its type, and the channel never holds more than Depth
\* signals, for pools of any depth and any number of callers.
THEOREM TypeCorrect == Spec => []TypeOK
<1>1. PInv => TypeOK
  BY DEF PInv
<1>2. QED
  BY <1>1, AlwaysPInv, PTL

\* Release and the stale need of the refill loop overfill the pool to at most twice Depth.
THEOREM PoolBounded == Spec => []OverfillBounded
<1>1. PInv => OverfillBounded
  BY PoolAssumption DEF PInv, Room, OverfillBounded, TypeOK
<1>2. QED
  BY <1>1, AlwaysPInv, PTL

\* No instance is ever with two callers, or with a caller and the pool or Close.
THEOREM NeverSharedInstance == Spec => []OneOwner
<1>1. PInv => OneOwner
  BY DEF PInv
<1>2. QED
  BY <1>1, AlwaysPInv, PTL

\* The pool loses no sandbox that the supervisor still tracks.
THEOREM NoInstanceLost == Spec => []NothingLost
<1>1. PInv => NothingLost
  BY DEF PInv
<1>2. QED
  BY <1>1, AlwaysPInv, PTL
=============================================================================
