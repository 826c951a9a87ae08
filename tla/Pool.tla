--------------------------------- MODULE Pool ---------------------------------
(***************************************************************************)
(* The pre-warmed snapshot pool (internal/orchestrator/pool.go).  Callers, *)
(* the refill goroutine and Close share the stack of warm instances under  *)
(* a mutex and the buffered channel refill.  Of the supervisor the pool    *)
(* sees which instances it tracks: LoadSnapshot adds one, Terminate and    *)
(* the health loop remove one.                                             *)
(***************************************************************************)
EXTENDS Naturals, Sequences

CONSTANTS
  Depth,        \* PoolConfig.Depth, at least 1 after applyDefaults
  Callers,      \* goroutines that use the pool, one instance each at a time
  Insts,        \* instances; the name of one that is gone may be used again
  MaxFailures,  \* bound: restores of the refill goroutine that fail
  MaxCloses,    \* bound: calls of Close
  NoInst

ASSUME PoolAssumption ==
  /\ Depth \in Nat \ {0} /\ MaxFailures \in Nat /\ MaxCloses \in Nat
  /\ NoInst \notin Insts

VARIABLES
  warm,      \* Pool.warm
  signals,   \* elements in the channel refill
  caller,    \* where each caller stands, and the instance it has
  refiller,  \* refillLoop: step, iterations left, the instance just restored
  closer,    \* Close: step, and the instances it has still to terminate
  closes,    \* calls of Close; from the first on, done is closed
  panicked,  \* has a second close(done) ended the process?
  failures,  \* restores that failed
  tracked    \* the instances the supervisor tracks

vars == <<warm, signals, caller, refiller, closer, closes, panicked, failures, tracked>>

NoCaller == [pc |-> "idle", inst |-> NoInst]

\* NewPool, with the initial fill triggered.
Init ==
  /\ warm = <<>>
  /\ signals = Depth
  /\ caller = [c \in Callers |-> NoCaller]
  /\ refiller = [pc |-> "select", left |-> 0, inst |-> NoInst]
  /\ closer = [pc |-> "idle", doomed |-> {}]
  /\ closes = 0 /\ panicked = FALSE /\ failures = 0
  /\ tracked = {}

Warm == {warm[k] : k \in 1 .. Len(warm)}

\* LoadSnapshot returns an instance with an id of its own.
Restore(i) ==
  /\ i \in Insts \ (tracked \cup Warm \cup closer.doomed \cup {refiller.inst})
  /\ \A c \in Callers : caller[c].inst # i
  /\ tracked' = tracked \cup {i}

Terminate(i) == tracked' = tracked \ {i}

\* A VMM dies and the health loop reaps it, wherever the instance is.
Dies(i) ==
  /\ i \in tracked
  /\ Terminate(i)
  /\ UNCHANGED <<warm, signals, caller, refiller, closer, closes, panicked, failures>>

-----------------------------------------------------------------------------
(* Callers.                                                                 *)

\* Faulty: the slot is read and not removed.
AcquireWarm_NoPop(c) ==
  /\ caller[c].pc = "idle" /\ warm # <<>>
  /\ caller' = [caller EXCEPT ![c] = [pc |-> "trigger", inst |-> warm[Len(warm)]]]
  /\ UNCHANGED <<warm, signals, refiller, closer, closes, panicked, failures, tracked>>

\* The fast path, under the lock.
AcquireWarm(c) ==
  /\ caller[c].pc = "idle" /\ warm # <<>>
  /\ caller' = [caller EXCEPT ![c] = [pc |-> "trigger", inst |-> warm[Len(warm)]]]
  /\ warm' = SubSeq(warm, 1, Len(warm) - 1)
  /\ UNCHANGED <<signals, refiller, closer, closes, panicked, failures, tracked>>

\* Faulty: a signal more than the channel holds.
triggerRefill_Unbounded == signals' = signals + 1

\* A full channel drops the signal.
triggerRefill == signals' = IF signals < Depth THEN signals + 1 ELSE signals

\* Faulty: the refill is not triggered.
AcquireTriggers_Skips(c) ==
  /\ caller[c].pc = "trigger"
  /\ caller' = [caller EXCEPT ![c].pc = "using"]
  /\ UNCHANGED <<warm, signals, refiller, closer, closes, panicked, failures, tracked>>

AcquireTriggers(c) ==
  /\ caller[c].pc = "trigger"
  /\ triggerRefill
  /\ caller' = [caller EXCEPT ![c].pc = "using"]
  /\ UNCHANGED <<warm, refiller, closer, closes, panicked, failures, tracked>>

\* The slow path; it triggers nothing.
AcquireEmpty(c) ==
  /\ caller[c].pc = "idle" /\ warm = <<>>
  /\ caller' = [caller EXCEPT ![c].pc = "restore"]
  /\ UNCHANGED <<warm, signals, refiller, closer, closes, panicked, failures, tracked>>

AcquireRestores(c) == \E i \in Insts :
  /\ caller[c].pc = "restore"
  /\ Restore(i)
  /\ caller' = [caller EXCEPT ![c] = [pc |-> "using", inst |-> i]]
  /\ UNCHANGED <<warm, signals, refiller, closer, closes, panicked, failures>>

\* The restore fails or MaxWaitTime is over.
AcquireFails(c) ==
  /\ caller[c].pc = "restore"
  /\ caller' = [caller EXCEPT ![c] = NoCaller]
  /\ UNCHANGED <<warm, signals, refiller, closer, closes, panicked, failures, tracked>>

\* Faulty: the depth is not looked at.
ReleaseToPool_Always(c) ==
  /\ caller[c].pc = "using"
  /\ warm' = Append(warm, caller[c].inst)
  /\ caller' = [caller EXCEPT ![c] = NoCaller]
  /\ UNCHANGED <<signals, refiller, closer, closes, panicked, failures, tracked>>

ReleaseToPool(c) ==
  /\ caller[c].pc = "using" /\ Len(warm) < Depth
  /\ warm' = Append(warm, caller[c].inst)
  /\ caller' = [caller EXCEPT ![c] = NoCaller]
  /\ UNCHANGED <<signals, refiller, closer, closes, panicked, failures, tracked>>

ReleaseFull(c) ==
  /\ caller[c].pc = "using" /\ Len(warm) >= Depth
  /\ caller' = [caller EXCEPT ![c].pc = "discard"]
  /\ UNCHANGED <<warm, signals, refiller, closer, closes, panicked, failures, tracked>>

\* Faulty: the instance a full pool has no room for is dropped.
Discard_Drops(c) ==
  /\ caller[c].pc \in {"using", "discard"}
  /\ caller' = [caller EXCEPT ![c] = NoCaller]
  /\ UNCHANGED <<warm, signals, refiller, closer, closes, panicked, failures, tracked>>

\* sup.Terminate by Release, or by a caller that does not return the instance.
Discard(c) ==
  /\ caller[c].pc \in {"using", "discard"}
  /\ Terminate(caller[c].inst)
  /\ caller' = [caller EXCEPT ![c] = NoCaller]
  /\ UNCHANGED <<warm, signals, refiller, closer, closes, panicked, failures>>

-----------------------------------------------------------------------------
(* The refill goroutine.                                                    *)

\* Where the loop goes on with n iterations left.
Iterate(n) == refiller' = [pc |-> IF n > 0 THEN "restore" ELSE "select",
                           left |-> n, inst |-> NoInst]

\* A signal is taken and the need computed, once for all iterations.
RefillTakes ==
  /\ refiller.pc = "select" /\ signals > 0
  /\ signals' = signals - 1
  /\ Iterate(IF Len(warm) < Depth THEN Depth - Len(warm) ELSE 0)
  /\ UNCHANGED <<warm, caller, closer, closes, panicked, failures, tracked>>

RefillRestores == \E i \in Insts :
  /\ refiller.pc = "restore"
  /\ Restore(i)
  /\ refiller' = [refiller EXCEPT !.pc = "append", !.inst = i]
  /\ UNCHANGED <<warm, signals, caller, closer, closes, panicked, failures>>

\* Neither the depth nor done is looked at again.
RefillAppends ==
  /\ refiller.pc = "append"
  /\ warm' = Append(warm, refiller.inst)
  /\ Iterate(refiller.left - 1)
  /\ UNCHANGED <<signals, caller, closer, closes, panicked, failures, tracked>>

RefillFails ==
  /\ refiller.pc = "restore" /\ failures < MaxFailures
  /\ failures' = failures + 1
  /\ refiller' = [refiller EXCEPT !.pc = "backoff"]
  /\ UNCHANGED <<warm, signals, caller, closer, closes, panicked, tracked>>

\* After the back-off the loop goes on with its next iteration.
RefillBacksOff ==
  /\ refiller.pc = "backoff"
  /\ Iterate(refiller.left - 1)
  /\ UNCHANGED <<warm, signals, caller, closer, closes, panicked, failures, tracked>>

RefillStops ==
  /\ refiller.pc \in {"select", "backoff"} /\ closes > 0
  /\ refiller' = [refiller EXCEPT !.pc = "stopped"]
  /\ UNCHANGED <<warm, signals, caller, closer, closes, panicked, failures, tracked>>

-----------------------------------------------------------------------------
(* Close.                                                                   *)

CloseBegins ==
  /\ closes = 0 /\ closes < MaxCloses
  /\ closes' = 1
  /\ closer' = [closer EXCEPT !.pc = "drain"]
  /\ UNCHANGED <<warm, signals, caller, refiller, panicked, failures, tracked>>

\* close of a closed channel.
CloseAgain ==
  /\ closes > 0 /\ closes < MaxCloses
  /\ closes' = closes + 1
  /\ panicked' = TRUE
  /\ UNCHANGED <<warm, signals, caller, refiller, closer, failures, tracked>>

CloseDrains ==
  /\ closer.pc = "drain"
  /\ closer' = [pc |-> "terminate", doomed |-> Warm]
  /\ warm' = <<>>
  /\ UNCHANGED <<signals, caller, refiller, closes, panicked, failures, tracked>>

CloseTerminates == \E i \in closer.doomed :
  /\ Terminate(i)
  /\ closer' = [closer EXCEPT !.doomed = @ \ {i}]
  /\ UNCHANGED <<warm, signals, caller, refiller, closes, panicked, failures>>

CloseReturns ==
  /\ closer.pc = "terminate" /\ closer.doomed = {}
  /\ closer' = [closer EXCEPT !.pc = "returned"]
  /\ UNCHANGED <<warm, signals, caller, refiller, closes, panicked, failures, tracked>>

-----------------------------------------------------------------------------
Acquire(c) == \/ AcquireWarm(c) \/ AcquireTriggers(c) \/ AcquireEmpty(c)
              \/ AcquireRestores(c) \/ AcquireFails(c)

Release(c) == ReleaseToPool(c) \/ ReleaseFull(c) \/ Discard(c)

refillLoop == \/ RefillTakes \/ RefillRestores \/ RefillAppends
              \/ RefillFails \/ RefillBacksOff \/ RefillStops

Close == CloseBegins \/ CloseAgain \/ CloseDrains \/ CloseTerminates \/ CloseReturns

Next ==
  /\ ~panicked
  /\ \/ \E c \in Callers : Acquire(c) \/ Release(c)
     \/ refillLoop \/ Close
     \/ \E i \in Insts : Dies(i)

Spec == Init /\ [][Next]_vars

\* Goroutines are scheduled.  A caller finishes the call it is in; it need not call
\* again, nor ever return its instance.
Fairness ==
  /\ WF_vars(~panicked /\ refillLoop)
  /\ \A c \in Callers : WF_vars(~panicked /\ AcquireTriggers(c))

FairSpec == Spec /\ Fairness

-----------------------------------------------------------------------------
(* Properties.                                                              *)

\* Every variable has its type; the channel holds at most Depth signals.
TypeOK ==
  /\ warm \in Seq(Insts)
  /\ signals \in 0 .. Depth
  /\ caller \in [Callers -> [pc : {"idle", "trigger", "restore", "using", "discard"},
                             inst : Insts \cup {NoInst}]]
  /\ refiller \in [pc : {"select", "restore", "append", "backoff", "stopped"},
                   left : 0 .. Depth, inst : Insts \cup {NoInst}]
  /\ closer \in [pc : {"idle", "drain", "terminate", "returned"}, doomed : SUBSET Insts]
  /\ closes \in 0 .. MaxCloses /\ panicked \in BOOLEAN /\ failures \in 0 .. MaxFailures
  /\ tracked \subseteq Insts

\* The need of a refill is computed once, before restores that take their time, and
\* Release fills the pool meanwhile: the pool runs over, but never beyond twice Depth.
OverfillBounded == Len(warm) <= 2 * Depth

\* An instance has one owner: the pool (once), one caller, the refill goroutine or Close.
\* No sandbox is handed out twice, and none that is being used is terminated by Close.
OneOwner ==
  /\ \A j, k \in 1 .. Len(warm) : j # k => warm[j] # warm[k]
  /\ \A c, d \in Callers : c # d /\ caller[c].inst # NoInst => caller[c].inst # caller[d].inst
  /\ \A c \in Callers : caller[c].inst \notin Warm \cup closer.doomed
  /\ \A c \in Callers : caller[c].inst # NoInst => caller[c].inst # refiller.inst
  /\ refiller.inst \notin Warm \cup closer.doomed
  /\ Warm \cap closer.doomed = {}

\* No sandbox the pool restored is lost: as long as the supervisor tracks it, the pool, a
\* caller, the refill goroutine or Close can still name it.
NothingLost ==
  \A i \in tracked : \/ i \in Warm \cup closer.doomed \/ refiller.inst = i
                     \/ \E c \in Callers : caller[c].inst = i

\* pool.go:10, "After hand-out the pool asynchronously refills to its target depth":
\* as long as no restore fails, an open pool below its depth is filled again, however
\* hand-outs, dropped signals and refills interleave.  (A failed restore is not repeated.)
Refills ==
  (Len(warm) < Depth /\ closes = 0 /\ failures = 0)
    ~> (Len(warm) >= Depth \/ closes > 0 \/ failures > 0)
=============================================================================
