------------------------------ MODULE Supervisor ------------------------------
(***************************************************************************)
(* The microVM supervisor (internal/orchestrator) together with the state  *)
(* it keeps outside its own memory: the Redis sandbox records, the per-VM  *)
(* host artefacts and the VMM processes.                                   *)
(*                                                                         *)
(* Every process is a goroutine: an HTTP handler (Clients), the health     *)
(* loop (Reaper) and main.  A step ends where the code releases a mutex or *)
(* calls out (file system, Firecracker SDK, Redis); in between, any other  *)
(* goroutine may run, a VMM may exit and the control plane may crash.      *)
(***************************************************************************)
EXTENDS CidAllocator, FiniteSets, FiniteSetsExt

CONSTANTS
  Ids,                    \* sandbox ids callers use
  Clients,                \* concurrent HTTP handlers
  Reaper, Main,           \* the health loop and main()
  Pids,                   \* process ids the kernel hands out (bounds the boots)
  Kinds,                  \* boot paths in use: "launch", "restore"
  Mems,                   \* MemMiB values a launch may ask for
  MaxConcurrent,          \* Config.MaxConcurrent, 0 = unlimited
  MemoryBudget,           \* Config.MemoryBudgetMiB, 0 = unlimited
  ShutdownTerminatesAll,  \* main's shutdownTerminatesAll
  OnePerId,               \* do callers keep one operation per sandbox id in flight?
  PidReuse,               \* may the kernel give a dead VMM's pid to another program?
  MaxStarts,              \* bound: how often the control plane is started
  MayFail,                \* the calls to the host and to Redis that may fail
  None

Procs == Clients \cup {Reaper, Main}

ASSUME ProcsAssumption ==
  Reaper \notin Clients /\ Main \notin Clients /\ Reaper # Main
ASSUME NoneAssumption ==
  None \notin Ids \cup Pids \cup CIDs \cup [cid : CIDs, pid : Pids, mem : Mems]
ASSUME ClientsAssumption == IsFiniteSet(Clients)
ASSUME LimitsAssumption ==
  MaxConcurrent \in Nat /\ MemoryBudget \in Nat /\ Mems \subseteq Nat
ASSUME SwitchesAssumption ==
  /\ {ShutdownTerminatesAll, OnePerId, PidReuse} \subseteq BOOLEAN
  /\ MaxStarts \in Nat /\ Kinds \subseteq {"launch", "restore"}
  /\ MayFail \subseteq {"build", "cgroup", "boot", "place", "rekey", "snapshot", "redis"}

VARIABLES
  phase,    \* life of the control-plane process
  starts,   \* how often it was started
  inst,     \* Supervisor.inst: the tracked instances
  pc, job,  \* where each goroutine stands and the locals it carries
  todo,     \* what a loop over List() or All() has still to visit
  vmm,      \* the VMM processes, by pid
  host,     \* host artefacts of each sandbox id
  records,  \* sandbox:<id> in Redis, reduced to the recorded pid
  adrift,   \* ghost: VMMs nobody can name any more
  leaked,   \* ghost: CIDs whose holder was overwritten
  early     \* ghost: ids last launched while a termination of theirs was still at work

volatile == <<inst, next, used, pc, job, todo, leaked, early>>
vars == <<phase, starts, volatile, vmm, host, records, adrift>>

NoJob == [kind |-> "none", id |-> None, mem |-> 0, cid |-> None, pid |-> None]
NoVmm == [st |-> "free", id |-> None, capped |-> FALSE]

Tracked == {id \in Ids : inst[id] # None}

Live == {"run", "paused", "stopping"}

-----------------------------------------------------------------------------
(* The kernel and the Firecracker SDK, as the supervisor uses them.         *)

\* processAlive: signal 0 cannot tell a VMM from a program that got its pid.
processAlive(q) == vmm[q].st \in Live \cup {"foreign"}

\* machine.StopVMM signals the VMM and does not wait for it.
StopVMM(vs, q) ==
  IF vs[q].st \in {"run", "paused"} THEN [vs EXCEPT ![q].st = "stopping"] ELSE vs

\* A cgroup leaf with a process in it cannot be removed (EBUSY).
LeafBusy(vs, id) == \E q \in Pids : vs[q].id = id /\ vs[q].capped /\ vs[q].st \in Live

\* What is left of id's artefacts after os.Remove(leaf) and RemoveAll of the
\* state directory and the chroot; errors are ignored.
Reclaimed(vs, id) == IF LeafBusy(vs, id) THEN host[id] \cap {"leaf"} ELSE {}

\* A VMM ends: killed, crashed, or shut down from inside the guest.
VmmExits(q) ==
  /\ vmm[q].st \in Live
  /\ vmm' = [vmm EXCEPT ![q] = [NoVmm EXCEPT !.st = "gone"]]
  /\ UNCHANGED <<phase, starts, volatile, host, records, adrift>>

\* The kernel gives the pid of a dead VMM to an unrelated program.
PidReused(q) ==
  /\ PidReuse /\ vmm[q].st = "gone"
  /\ vmm' = [vmm EXCEPT ![q].st = "foreign"]
  /\ UNCHANGED <<phase, starts, volatile, host, records, adrift>>

-----------------------------------------------------------------------------
(* The recorder (internal/state): each operation is one MULTI/EXEC, so the   *)
(* record and its membership of the active set change together.             *)

Save(id, pid) == records' = [records EXCEPT ![id] = pid]

Remove(id) == records' = [records EXCEPT ![id] = None]

\* All reads record by record, but nobody else writes while Reconcile calls it.
All == {<<id, records[id]>> : id \in {i \in Ids : records[i] # None}}

-----------------------------------------------------------------------------
(* Goroutines.                                                              *)

Goto(p, step) == pc' = [pc EXCEPT ![p] = step]

\* Where a goroutine goes on when the operation it called returns.
Return(p) == IF p = Reaper THEN "reap" ELSE IF p = Main THEN "drain" ELSE "idle"

Finish(p) == Goto(p, Return(p)) /\ job' = [job EXCEPT ![p] = NoJob]

\* A handler may start work on id.  net/http serialises nothing: only callers
\* that wait for each answer (OnePerId) keep the handlers of an id apart, and
\* nothing keeps them from one that the reaper or main is working on.
MayStart(p, id) ==
  /\ phase = "serving" /\ pc[p] = "idle"
  /\ OnePerId => \A q \in Clients : job[q].id # id

-----------------------------------------------------------------------------
(* Launch and LoadSnapshot.                                                 *)

MemInUse == SumFunction([id \in Tracked |-> inst[id].mem])

\* Faulty: one sandbox too many is admitted.
admitLocked_OffByOne(mem) ==
  /\ MaxConcurrent > 0 => Cardinality(Tracked) <= MaxConcurrent
  /\ MemoryBudget > 0 => MemInUse + mem <= MemoryBudget

admitLocked(mem) ==
  /\ MaxConcurrent > 0 => Cardinality(Tracked) < MaxConcurrent
  /\ MemoryBudget > 0 => MemInUse + mem <= MemoryBudget

\* Somebody's Terminate has removed the entry of id and not yet all that was id's.
Ending(id) == \E p \in Procs : job[p].id = id /\ pc[p] \in {"halt", "reclaim", "unrecord"}

\* Duplicate check and admission under one lock.  A refused request changes nothing.
LaunchAdmit(p) == \E id \in Ids, mem \in Mems, kind \in Kinds :
  /\ MayStart(p, id)
  /\ inst[id] = None
  /\ admitLocked(mem)
  /\ Goto(p, "alloc")
  /\ job' = [job EXCEPT ![p] = [NoJob EXCEPT !.kind = kind, !.id = id, !.mem = mem]]
  /\ early' = IF Ending(id) THEN early \cup {id} ELSE early \ {id}
  /\ UNCHANGED <<phase, starts, inst, next, used, todo, leaked, vmm, host, records, adrift>>

LaunchAlloc(p) ==
  /\ pc[p] = "alloc"
  /\ \/ \E c \in CIDs : /\ Alloc(c)
                        /\ Goto(p, "build")
                        /\ job' = [job EXCEPT ![p].cid = c]
     \/ Exhausted /\ Finish(p)
  /\ UNCHANGED <<phase, starts, inst, todo, leaked, early, vmm, host, records, adrift>>

\* Directory and disk image of the VM: buildFirecrackerConfig, or the copy of
\* the snapshot's disk.
LaunchBuild(p) ==
  /\ pc[p] = "build"
  /\ host' = [host EXCEPT ![job[p].id] = @ \cup {"state"}]
  /\ Goto(p, "cgroup")
  /\ UNCHANGED <<phase, starts, inst, next, used, job, todo, leaked, early, vmm, records, adrift>>

\* What a failed build leaves: nothing was created, or Launch gives back the
\* CID only while LoadSnapshot removes the directory as well.
AfterFailedBuild(kind, parts) ==
  {parts, IF kind = "launch" THEN parts \cup {"state"} ELSE parts \ {"state"}}

LaunchBuildFails(p) ==
  /\ pc[p] = "build" /\ "build" \in MayFail
  /\ Free(job[p].cid)
  /\ \E left \in AfterFailedBuild(job[p].kind, host[job[p].id]) :
       host' = [host EXCEPT ![job[p].id] = left]
  /\ Finish(p)
  /\ UNCHANGED <<phase, starts, inst, todo, leaked, early, vmm, records, adrift>>

LaunchCgroup(p) ==
  /\ pc[p] = "cgroup"
  /\ host' = [host EXCEPT ![job[p].id] = @ \cup {"leaf"}]
  /\ Goto(p, "boot")
  /\ UNCHANGED <<phase, starts, inst, next, used, job, todo, leaked, early, vmm, records, adrift>>

\* prepareCgroup fails before or after it made the leaf; the leaf is not removed.
LaunchCgroupFails(p) ==
  /\ pc[p] = "cgroup" /\ "cgroup" \in MayFail
  /\ Free(job[p].cid)
  /\ \E made \in {{}, {"leaf"}} :
       host' = [host EXCEPT ![job[p].id] = (@ \ {"state"}) \cup made]
  /\ Finish(p)
  /\ UNCHANGED <<phase, starts, inst, todo, leaked, early, vmm, records, adrift>>

FreePids == {q \in Pids : vmm[q].st = "free"}

\* The disk is there and a process can be forked.
CanBoot(p) == "state" \in host[job[p].id] /\ FreePids # {}

\* newMachine and machine.Start: the VMM runs, its chroot exists.
LaunchBoot(p) == \E q \in FreePids :
  /\ pc[p] = "boot" /\ CanBoot(p)
  /\ vmm' = [vmm EXCEPT ![q] = [NoVmm EXCEPT !.st = "run", !.id = job[p].id]]
  /\ host' = [host EXCEPT ![job[p].id] = @ \cup {"chroot"}]
  /\ job' = [job EXCEPT ![p].pid = q]
  /\ Goto(p, "place")
  /\ UNCHANGED <<phase, starts, inst, next, used, todo, leaked, early, records, adrift>>

\* Faulty: the CID is not given back.
Cleanup_KeepsCid(p, vs) ==
  /\ UNCHANGED <<next, used>>
  /\ vmm' = vs
  /\ host' = [host EXCEPT ![job[p].id] = Reclaimed(vs, job[p].id)]
  /\ Finish(p)
  /\ UNCHANGED <<phase, starts, inst, todo, leaked, early, records, adrift>>

\* The closure cleanup, after StopVMM where a VMM runs.
Cleanup(p, vs) ==
  /\ Free(job[p].cid)
  /\ vmm' = vs
  /\ host' = [host EXCEPT ![job[p].id] = Reclaimed(vs, job[p].id)]
  /\ Finish(p)
  /\ UNCHANGED <<phase, starts, inst, todo, leaked, early, records, adrift>>

\* The request is cancelled, the SDK fails to start the VMM, or it fails after
\* the process was started, which is then signalled.
LaunchBootFails(p) ==
  /\ pc[p] = "boot" /\ (CanBoot(p) => "boot" \in MayFail)
  /\ \/ Cleanup(p, vmm)
     \/ /\ "boot" \in MayFail
        /\ \E q \in FreePids : Cleanup(p, [vmm EXCEPT ![q] =
              [NoVmm EXCEPT !.st = "stopping", !.id = job[p].id]])

CanPlace(p) == vmm[job[p].pid].st \in Live /\ "leaf" \in host[job[p].id]

\* Faulty: the error of placeInCgroup is ignored.
LaunchPlace_Ignored(p) ==
  /\ pc[p] = "place"
  /\ Goto(p, "insert")
  /\ UNCHANGED <<phase, starts, inst, next, used, job, todo, leaked, early, vmm, host, records, adrift>>

\* placeInCgroup writes the pid to cgroup.procs.
LaunchPlace(p) ==
  /\ pc[p] = "place" /\ CanPlace(p)
  /\ vmm' = [vmm EXCEPT ![job[p].pid].capped = TRUE]
  /\ Goto(p, "insert")
  /\ UNCHANGED <<phase, starts, inst, next, used, job, todo, leaked, early, host, records, adrift>>

\* Faulty: the VMM is not stopped.
LaunchPlaceFails_NoStop(p) ==
  /\ pc[p] = "place" /\ (CanPlace(p) => "place" \in MayFail)
  /\ Cleanup(p, vmm)

\* Fail closed: no VMM outside its cgroup.
LaunchPlaceFails(p) ==
  /\ pc[p] = "place" /\ (CanPlace(p) => "place" \in MayFail)
  /\ Cleanup(p, StopVMM(vmm, job[p].pid))

\* LoadSnapshot only: newRestoredIdentity finds no entropy and the VMM is torn down.
RekeyFails(p) ==
  /\ pc[p] = "insert" /\ job[p].kind = "restore" /\ "rekey" \in MayFail
  /\ Cleanup(p, StopVMM(vmm, job[p].pid))

\* The instance is tracked.  The lock is taken again, but nothing checked under
\* the first lock is checked again: an entry made meanwhile is replaced.
LaunchInsert(p) ==
  /\ pc[p] = "insert"
  /\ LET id == job[p].id IN
       /\ inst' = [inst EXCEPT ![id] =
                     [cid |-> job[p].cid, pid |-> job[p].pid, mem |-> job[p].mem]]
       /\ IF inst[id] = None
          THEN UNCHANGED <<adrift, leaked>>
          ELSE adrift' = adrift \cup {inst[id].pid} /\ leaked' = leaked \cup {inst[id].cid}
  /\ job' = [job EXCEPT ![p].cid = None]
  /\ Goto(p, "save")
  /\ UNCHANGED <<phase, starts, next, used, todo, early, vmm, host, records>>

\* Faulty: the record is not written.
LaunchSave_Skipped(p) ==
  /\ pc[p] = "save"
  /\ Finish(p)
  /\ UNCHANGED <<phase, starts, inst, next, used, todo, leaked, early, vmm, host, records, adrift>>

\* recorder.Save; a failure is only logged.
LaunchSave(p) ==
  /\ pc[p] = "save"
  /\ \/ Save(job[p].id, job[p].pid)
     \/ "redis" \in MayFail /\ UNCHANGED records
  /\ Finish(p)
  /\ UNCHANGED <<phase, starts, inst, next, used, todo, leaked, early, vmm, host, adrift>>

-----------------------------------------------------------------------------
(* Terminate, called by handlers, by the reaper, by a stop and by main.     *)

\* Faulty: the entry is looked up but not deleted under the lock.
TerminateLocked_NoDelete(p, id) ==
  /\ inst[id] # None
  /\ job' = [job EXCEPT ![p] = [NoJob EXCEPT !.kind = "terminate", !.id = id,
                                  !.cid = inst[id].cid, !.pid = inst[id].pid]]
  /\ Goto(p, "halt")
  /\ UNCHANGED <<phase, starts, inst, next, used, todo, leaked, early, vmm, host, records, adrift>>

\* The locked section: whoever deletes the entry owns the instance.
TerminateLocked(p, id) ==
  /\ inst[id] # None
  /\ inst' = [inst EXCEPT ![id] = None]
  /\ job' = [job EXCEPT ![p] = [NoJob EXCEPT !.kind = "terminate", !.id = id,
                                  !.cid = inst[id].cid, !.pid = inst[id].pid]]
  /\ Goto(p, "halt")
  /\ UNCHANGED <<phase, starts, next, used, todo, leaked, early, vmm, host, records, adrift>>

\* A handler terminates id; an id that is not tracked is refused.
TerminateRequest(p) == \E id \in Ids : MayStart(p, id) /\ TerminateLocked(p, id)

\* Terminate(id) by a goroutine that decided on id earlier.
TerminateChosen(p) == pc[p] = "term" /\ TerminateLocked(p, job[p].id)

TerminateNotFound(p) ==
  /\ pc[p] = "term" /\ inst[job[p].id] = None
  /\ Finish(p)
  /\ UNCHANGED <<phase, starts, inst, next, used, todo, leaked, early, vmm, host, records, adrift>>

\* Shutdown, StopVMM and cancel of the instance that was deleted.
TerminateHalt(p) ==
  /\ pc[p] = "halt"
  /\ vmm' = StopVMM(vmm, job[p].pid)
  /\ Goto(p, "reclaim")
  /\ UNCHANGED <<phase, starts, inst, next, used, job, todo, leaked, early, host, records, adrift>>

\* The CID is freed and the artefacts found under the id are removed.
TerminateReclaim(p) ==
  /\ pc[p] = "reclaim"
  /\ Free(job[p].cid)
  /\ host' = [host EXCEPT ![job[p].id] = Reclaimed(vmm, job[p].id)]
  /\ job' = [job EXCEPT ![p].cid = None]
  /\ Goto(p, "unrecord")
  /\ UNCHANGED <<phase, starts, inst, todo, leaked, early, vmm, records, adrift>>

\* recorder.Remove by id; its error is ignored.
TerminateUnrecord(p) ==
  /\ pc[p] = "unrecord"
  /\ \/ Remove(job[p].id)
     \/ "redis" \in MayFail /\ UNCHANGED records
  /\ Finish(p)
  /\ UNCHANGED <<phase, starts, inst, next, used, todo, leaked, early, vmm, host, adrift>>

-----------------------------------------------------------------------------
(* StopWithSnapshot.                                                        *)

StopLookup(p) == \E id \in Ids :
  /\ MayStart(p, id)
  /\ inst[id] # None
  /\ Goto(p, "pause")
  /\ job' = [job EXCEPT ![p] = [NoJob EXCEPT !.kind = "stop", !.id = id,
                                  !.pid = inst[id].pid]]
  /\ UNCHANGED <<phase, starts, inst, next, used, todo, leaked, early, vmm, host, records, adrift>>

CanPause(p) == vmm[job[p].pid].st \in {"run", "paused"}

StopPause(p) ==
  /\ pc[p] = "pause" /\ CanPause(p)
  /\ vmm' = [vmm EXCEPT ![job[p].pid].st = "paused"]
  /\ Goto(p, "capture")
  /\ UNCHANGED <<phase, starts, inst, next, used, job, todo, leaked, early, host, records, adrift>>

CanCapture(p) == vmm[job[p].pid].st = "paused" /\ "state" \in host[job[p].id]

\* CreateSnapshot through the VMM's API and the copy of the disk at <StateDir>/<id>.
StopCapture(p) ==
  /\ pc[p] = "capture" /\ CanCapture(p)
  /\ Goto(p, "term")
  /\ job' = [job EXCEPT ![p].pid = None]
  /\ UNCHANGED <<phase, starts, inst, next, used, todo, leaked, early, vmm, host, records, adrift>>

\* Any of the three calls fails: the stop returns, a paused VM is not resumed.
StopFails(p) ==
  /\ \/ pc[p] = "pause" /\ (CanPause(p) => "snapshot" \in MayFail)
     \/ pc[p] = "capture" /\ (CanCapture(p) => "snapshot" \in MayFail)
  /\ Finish(p)
  /\ UNCHANGED <<phase, starts, inst, next, used, todo, leaked, early, vmm, host, records, adrift>>

-----------------------------------------------------------------------------
(* ReapDead, called on every tick of the health loop.                       *)

Listing == {<<id, inst[id].pid>> : id \in Tracked}

ReapList ==
  /\ phase = "serving" /\ pc[Reaper] = "idle"
  /\ Listing # {}
  /\ todo' = [todo EXCEPT ![Reaper] = Listing]
  /\ Goto(Reaper, "reap")
  /\ UNCHANGED <<phase, starts, inst, next, used, job, leaked, early, vmm, host, records, adrift>>

\* Faulty: a dead sandbox is passed over.
ReapProbe_Skips == \E e \in todo[Reaper] :
  /\ pc[Reaper] = "reap"
  /\ todo' = [todo EXCEPT ![Reaper] = @ \ {e}]
  /\ UNCHANGED <<phase, starts, inst, next, used, pc, job, leaked, early, vmm, host, records, adrift>>

ReapProbe == \E e \in todo[Reaper] :
  /\ pc[Reaper] = "reap"
  /\ todo' = [todo EXCEPT ![Reaper] = @ \ {e}]
  /\ IF processAlive(e[2])
     THEN UNCHANGED <<pc, job>>
     ELSE /\ Goto(Reaper, "term")
          /\ job' = [job EXCEPT ![Reaper] = [NoJob EXCEPT !.kind = "terminate", !.id = e[1]]]
  /\ UNCHANGED <<phase, starts, inst, next, used, leaked, early, vmm, host, records, adrift>>

ReapDone ==
  /\ pc[Reaper] = "reap" /\ todo[Reaper] = {}
  /\ Goto(Reaper, "idle")
  /\ UNCHANGED <<phase, starts, inst, next, used, job, todo, leaked, early, vmm, host, records, adrift>>

-----------------------------------------------------------------------------
(* The control-plane process: start, Reconcile, shutdown, crash.            *)

InitVolatile ==
  /\ inst = [id \in Ids |-> None]
  /\ InitAllocator
  /\ pc = [p \in Procs |-> "idle"]
  /\ job = [p \in Procs |-> NoJob]
  /\ todo = [p \in {Reaper, Main} |-> {}]
  /\ leaked = {} /\ early = {}

Init ==
  /\ phase = "down" /\ starts = 0
  /\ InitVolatile
  /\ vmm = [q \in Pids |-> NoVmm]
  /\ host = [id \in Ids |-> {}]
  /\ records = [id \in Ids |-> None]
  /\ adrift = {}

\* NewSupervisor, then recorder.All.  When All fails main exits: still down.
Start ==
  /\ phase = "down" /\ pc[Main] = "idle" /\ starts < MaxStarts
  /\ phase' = "reconciling" /\ starts' = starts + 1
  /\ todo' = [todo EXCEPT ![Main] = All]
  /\ Goto(Main, "gc")
  /\ UNCHANGED <<inst, next, used, job, leaked, early, vmm, host, records, adrift>>

\* Faulty: the orphan's record is collected, the orphan is left running.
ReconcileKill_NoKill == \E e \in todo[Main] :
  /\ pc[Main] = "gc"
  /\ todo' = [todo EXCEPT ![Main] = @ \ {e}]
  /\ job' = [job EXCEPT ![Main] = [NoJob EXCEPT !.kind = "gc", !.id = e[1]]]
  /\ Goto(Main, "gcRecord")
  /\ UNCHANGED <<phase, starts, inst, next, used, leaked, early, vmm, host, records, adrift>>

\* Reconcile, first half of an iteration: killPID.  It returns once the process
\* is gone, or after SIGKILL without waiting further.  Nothing is managed yet.
ReconcileKill == \E e \in todo[Main] :
  /\ pc[Main] = "gc"
  /\ IF processAlive(e[2])
     THEN \E st \in {"gone", "stopping"} :
            vmm' = [vmm EXCEPT ![e[2]] =
                      IF st = "gone" \/ @.st = "foreign" THEN [NoVmm EXCEPT !.st = "gone"]
                      ELSE [@ EXCEPT !.st = "stopping"]]
     ELSE UNCHANGED vmm
  /\ todo' = [todo EXCEPT ![Main] = @ \ {e}]
  /\ job' = [job EXCEPT ![Main] = [NoJob EXCEPT !.kind = "gc", !.id = e[1]]]
  /\ Goto(Main, "gcRecord")
  /\ UNCHANGED <<phase, starts, inst, next, used, leaked, early, host, records, adrift>>

gcRecord ==
  /\ pc[Main] = "gcRecord"
  /\ host' = [host EXCEPT ![job[Main].id] = Reclaimed(vmm, job[Main].id)]
  /\ \/ Remove(job[Main].id)
     \/ "redis" \in MayFail /\ UNCHANGED records
  /\ job' = [job EXCEPT ![Main] = NoJob]
  /\ Goto(Main, "gc")
  /\ UNCHANGED <<phase, starts, inst, next, used, todo, leaked, early, vmm, adrift>>

\* Reconcile returns; the health loop starts and the server listens.
Serve ==
  /\ phase = "reconciling" /\ pc[Main] = "gc" /\ todo[Main] = {}
  /\ phase' = "serving"
  /\ Goto(Main, "idle")
  /\ UNCHANGED <<starts, inst, next, used, job, todo, leaked, early, vmm, host, records, adrift>>

\* The signal context is done: no new requests, no new reaper tick.
Shutdown ==
  /\ phase = "serving"
  /\ phase' = "draining"
  /\ UNCHANGED <<starts, volatile, vmm, host, records, adrift>>

\* srv.Shutdown returned, handlers done or the 15 s over; main lists what to end.
DrainList ==
  /\ phase = "draining" /\ pc[Main] = "idle"
  /\ todo' = [todo EXCEPT ![Main] = IF ShutdownTerminatesAll THEN Listing ELSE {}]
  /\ Goto(Main, "drain")
  /\ UNCHANGED <<phase, starts, inst, next, used, job, leaked, early, vmm, host, records, adrift>>

DrainNext == \E e \in todo[Main] :
  /\ pc[Main] = "drain"
  /\ todo' = [todo EXCEPT ![Main] = @ \ {e}]
  /\ job' = [job EXCEPT ![Main] = [NoJob EXCEPT !.kind = "terminate", !.id = e[1]]]
  /\ Goto(Main, "term")
  /\ UNCHANGED <<phase, starts, inst, next, used, leaked, early, vmm, host, records, adrift>>

\* The process ends: memory is lost, VMMs and host artefacts stay.
Die ==
  /\ phase' = "down"
  /\ inst' = [id \in Ids |-> None]
  /\ next' = CIDMin /\ used' = {}
  /\ pc' = [p \in Procs |-> "idle"]
  /\ job' = [p \in Procs |-> NoJob]
  /\ todo' = [p \in {Reaper, Main} |-> {}]
  /\ leaked' = {} /\ early' = {}
  /\ adrift' = adrift \cup {q \in Pids : /\ vmm[q].st \in {"run", "paused"}
                                         /\ records[vmm[q].id] # q}
  /\ UNCHANGED <<starts, vmm, host, records>>

Exit == phase = "draining" /\ pc[Main] = "drain" /\ todo[Main] = {} /\ Die

\* A crash after the last start ends the behaviour and is of no interest.
Crash == phase # "down" /\ starts < MaxStarts /\ Die

-----------------------------------------------------------------------------
\* The rest of a launch.  LoadSnapshot takes the same steps in the same order, with
\* the snapshot's disk for the base image and RekeyFails before the insert.
LaunchStep(p) ==
  \/ LaunchAlloc(p) \/ LaunchBuild(p) \/ LaunchBuildFails(p)
  \/ LaunchCgroup(p) \/ LaunchCgroupFails(p)
  \/ LaunchBoot(p) \/ LaunchBootFails(p) \/ LaunchPlace(p) \/ LaunchPlaceFails(p)
  \/ RekeyFails(p) \/ LaunchInsert(p) \/ LaunchSave(p)

StopStep(p) == StopPause(p) \/ StopCapture(p) \/ StopFails(p)

TerminateStep(p) ==
  \/ TerminateChosen(p) \/ TerminateNotFound(p)
  \/ TerminateHalt(p) \/ TerminateReclaim(p) \/ TerminateUnrecord(p)

Request(p) == LaunchAdmit(p) \/ TerminateRequest(p) \/ StopLookup(p)

ClientStep(p) == LaunchStep(p) \/ StopStep(p) \/ TerminateStep(p)

ReaperStep == ReapList \/ ReapProbe \/ ReapDone \/ TerminateStep(Reaper)

MainStep ==
  \/ Start \/ ReconcileKill \/ gcRecord \/ Serve
  \/ DrainList \/ DrainNext \/ Exit \/ TerminateStep(Main)

Environment ==
  \/ \E q \in Pids : VmmExits(q) \/ PidReused(q)
  \/ Shutdown \/ Crash

Next ==
  \/ \E p \in Clients : Request(p) \/ ClientStep(p)
  \/ ReaperStep
  \/ MainStep
  \/ Environment

Spec == Init /\ [][Next]_vars

\* The Go scheduler runs every goroutine, main is restarted by systemd, the
\* health ticker keeps ticking, and a signalled VMM exits.  Nobody has to
\* send requests, and a VMM that is not signalled may run for ever.
Fairness ==
  /\ \A p \in Clients : WF_vars(ClientStep(p))
  /\ WF_vars(ReaperStep)
  /\ WF_vars(MainStep)
  /\ \A q \in Pids : WF_vars(vmm[q].st = "stopping" /\ VmmExits(q))

FairSpec == Spec /\ Fairness

-----------------------------------------------------------------------------
(* Properties.                                                              *)

Steps == {"idle", "alloc", "build", "cgroup", "boot", "place", "insert",
          "save", "pause", "capture", "term", "halt", "reclaim", "unrecord",
          "reap", "gc", "gcRecord", "drain"}
Instances == [cid : CIDs, pid : Pids, mem : Mems]
Jobs == [kind : {"none", "launch", "restore", "stop", "terminate", "gc"},
         id : Ids \cup {None}, mem : Mems \cup {0},
         cid : CIDs \cup {None}, pid : Pids \cup {None}]
Vmms == [st : Live \cup {"free", "gone", "foreign"}, id : Ids \cup {None},
         capped : BOOLEAN]

\* Every variable has its type.
TypeOK ==
  /\ phase \in {"down", "reconciling", "serving", "draining"}
  /\ starts \in 0 .. MaxStarts
  /\ inst \in [Ids -> Instances \cup {None}]
  /\ next \in CIDs /\ used \subseteq CIDs
  /\ pc \in [Procs -> Steps]
  /\ job \in [Procs -> Jobs]
  /\ todo \in [{Reaper, Main} -> SUBSET (Ids \X Pids)]
  /\ vmm \in [Pids -> Vmms]
  /\ host \in [Ids -> SUBSET {"state", "leaf", "chroot"}]
  /\ records \in [Ids -> Pids \cup {None}]
  /\ adrift \subseteq Pids /\ leaked \subseteq CIDs /\ early \subseteq Ids

\* orchestrator.go:6, "Allocates a unique vsock context ID (CID) per sandbox":
\* however launches, rollbacks, terminations and reaping interleave, a CID that
\* a tracked sandbox or an operation in flight holds is marked used, and it has
\* one holder only: no path frees a CID that somebody else still holds.
CidsExclusive ==
  /\ \A p \in Procs : job[p].cid # None => job[p].cid \in used \ leaked
  /\ \A id \in Ids : inst[id] # None => inst[id].cid \in used \ leaked
  /\ \A p, q \in Procs : p # q /\ job[p].cid # None => job[p].cid # job[q].cid
  /\ \A i, j \in Tracked : i # j => inst[i].cid # inst[j].cid
  /\ \A p \in Procs, id \in Tracked : job[p].cid # inst[id].cid

\* Every error path of Launch and LoadSnapshot and every Terminate gives its CID
\* back: a used CID has a holder, unless Launch replaced the entry of one.
CidsAccounted ==
  \A c \in used : \/ \E p \in Procs : job[p].cid = c
                  \/ \E id \in Tracked : inst[id].cid = c
                  \/ c \in leaked

\* Launches past the admission check and not yet tracked.
Admitted == {p \in Clients : pc[p] \in {"alloc", "build", "cgroup", "boot", "place",
                                       "insert"}}

\* Admission counts tracked sandboxes only, so concurrent launches overshoot both limits,
\* but each handler adds at most one launch that the others' checks did not see, and none
\* whose memory would not fit on its own.
OvershootBounded ==
  /\ MaxConcurrent > 0 =>
       Cardinality(Tracked) + Cardinality(Admitted)
         <= MaxConcurrent + Cardinality(Clients) - 1
  /\ MemoryBudget > 0 =>
       MemInUse + SumFunction([p \in Admitted |-> job[p].mem])
         <= MemoryBudget + (Cardinality(Clients) - 1)
                           * Max({0} \cup {m \in Mems : m <= MemoryBudget})

\* Every VMM that runs is somebody's: tracked, held by an operation in flight or,
\* before the server listens, named by a record that Reconcile will visit.  The
\* only VMMs out of reach are those whose entry a second launch of the same id
\* replaced and those without a record when the control plane died.
NoStrayVmm ==
  \A q \in Pids : vmm[q].st \in {"run", "paused"} =>
    \/ \E id \in Tracked : inst[id].pid = q
    \/ \E p \in Procs : job[p].pid = q
    \/ phase \in {"down", "reconciling"} /\ records[vmm[q].id] = q
    \/ q \in adrift

\* "an uncapped VMM is a host-DoS risk" (orchestrator.go:324): a sandbox is tracked only
\* with its VMM inside its cgroup leaf, also when another operation on the same id, or the
\* reaper, removes the leaf between prepareCgroup and placeInCgroup.
TrackedIsCapped ==
  \A id \in Tracked : vmm[inst[id].pid].st \in Live => vmm[inst[id].pid].capped

\* For callers that wait for each answer a tracked sandbox has its disk, chroot and cgroup
\* leaf, whatever failed before and however the reaper comes in between.  The exception
\* (early) is a sandbox launched while the reaper's Terminate of its predecessor, which goes
\* on by id after its unlock, was still at work.
TrackedIsWhole ==
  OnePerId => \A id \in Tracked \ early : host[id] = {"state", "leaf", "chroot"}

\* With such callers and a working Redis a tracked sandbox has a record that names its own
\* VMM, so that the next Reconcile can find it, or its launch is about to write one; with
\* the same exception.
TrackedIsDurable ==
  OnePerId /\ "redis" \notin MayFail =>
    \A id \in Tracked \ early :
      \/ records[id] = inst[id].pid
      \/ \E p \in Clients : pc[p] = "save" /\ job[p].id = id

\* No goroutine works on id.
Quiet(id) == \A p \in Procs : job[p].id # id

\* internal/sandbox/record.go:30, "Record is the durable description of a sandbox, persisted
\* so the control plane can reconcile host state ... after a crash or restart": a sandbox
\* nobody is working on any more has its record, early or not.
RunningIsRecorded ==
  OnePerId /\ "redis" \notin MayFail =>
    \A id \in Tracked : Quiet(id) => records[id] = inst[id].pid

\* A sandbox whose VMM died does not stay tracked (ReapDead), unless the pid was
\* given to another program.
DeadAreReaped ==
  \A id \in Ids, q \in Pids :
    (inst[id] # None /\ inst[id].pid = q /\ vmm[q].st = "gone")
      ~> (inst[id] = None \/ inst[id].pid # q \/ vmm[q].st = "foreign")

\* A VMM that outlives the control plane and has a record is killed once the
\* control plane is back (Reconcile), however often it crashes in between.
OrphansDie ==
  \A q \in Pids :
    (/\ phase = "down" /\ starts < MaxStarts
     /\ vmm[q].st \in {"run", "paused"} /\ records[vmm[q].id] = q)
      ~> vmm[q].st \notin {"run", "paused"}
=============================================================================
