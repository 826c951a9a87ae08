--------------------------- MODULE SupervisorProofs ---------------------------
(***************************************************************************)
(* Theorems about Supervisor, for every number of handlers, sandbox ids,   *)
(* CIDs and restarts, whatever fails: CIDs (TypeInv and CidInv), VMMs      *)
(* nobody lost (StrayInv) and in their cgroup (CapInv), sandboxes that are *)
(* whole and recorded (SoleInv), and admission (LoadInv, over the lemmas   *)
(* on sums).                                                               *)
(***************************************************************************)
EXTENDS Supervisor, FiniteSetTheorems, TLAPS

\* The steps at which a goroutine holds a CID of its own.
CidSteps == {"build", "cgroup", "boot", "place", "insert", "halt", "reclaim"}
BootSteps == {"alloc", "build", "cgroup", "boot", "place", "insert"}
VmmSteps == {"place", "insert", "save", "pause", "capture", "halt", "reclaim", "unrecord"}
LoopSteps == {"idle", "reap", "gc", "drain"}

\* What the locals of a goroutine are at a step.
JobFits(s, j) ==
  /\ s \in CidSteps <=> j.cid # None
  /\ s \in VmmSteps => j.pid \in Pids
  /\ s \in BootSteps => j.mem \in Mems
  /\ s \notin LoopSteps => j.id \in Ids

JobOK == \A p \in Procs : JobFits(pc[p], job[p])

TypeInv == TypeOK /\ JobOK

Parts == {"state", "leaf", "chroot"}

-----------------------------------------------------------------------------
(* Lemmas about the helpers the actions are made of.                        *)

\* A goroutine that moves to step s with locals j that fit s.
LEMMA MoveTypes ==
  ASSUME TypeInv, NEW p \in Procs, NEW s \in Steps, NEW j \in Jobs, JobFits(s, j),
         pc' = [pc EXCEPT ![p] = s], job' = [job EXCEPT ![p] = j]
  PROVE  pc' \in [Procs -> Steps] /\ job' \in [Procs -> Jobs] /\ JobOK'
<1>1. pc' \in [Procs -> Steps] /\ job' \in [Procs -> Jobs]
  BY DEF TypeInv, TypeOK
<1>2. ASSUME NEW q \in Procs PROVE JobFits(pc'[q], job'[q])
  BY DEF TypeInv, TypeOK, JobOK
<1>3. QED BY <1>1, <1>2 DEF JobOK, JobFits

\* A goroutine that moves on and keeps its locals.
LEMMA GotoTypes ==
  ASSUME TypeInv, NEW p \in Procs, NEW s \in Steps, JobFits(s, job[p]),
         pc' = [pc EXCEPT ![p] = s], job' = job
  PROVE  pc' \in [Procs -> Steps] /\ job' \in [Procs -> Jobs] /\ JobOK'
<1>1. pc' \in [Procs -> Steps] /\ job' \in [Procs -> Jobs]
  BY DEF TypeInv, TypeOK
<1>2. ASSUME NEW q \in Procs PROVE JobFits(pc'[q], job'[q])
  BY DEF TypeInv, TypeOK, JobOK
<1>3. QED BY <1>1, <1>2 DEF JobOK, JobFits

LEMMA NoJobTypes ==
  /\ NoJob \in Jobs
  /\ \A s \in LoopSteps : s \in Steps /\ JobFits(s, NoJob)
  BY NoneAssumption
  DEF NoJob, Jobs, JobFits, Steps, CidSteps, BootSteps, VmmSteps, LoopSteps

\* A goroutine that returns to where it came from.
LEMMA FinishTypes ==
  ASSUME TypeInv, NEW p \in Procs, Finish(p)
  PROVE  pc' \in [Procs -> Steps] /\ job' \in [Procs -> Jobs] /\ JobOK'
<1>1. Return(p) \in LoopSteps
  BY DEF Return, LoopSteps
<1>2. QED
  BY <1>1, NoJobTypes, MoveTypes DEF Finish, Goto

LEMMA AllocTypes ==
  ASSUME TypeInv, NEW c \in CIDs, Alloc(c)
  PROVE  next' \in CIDs /\ used' \subseteq CIDs
  BY CidRangeAssumption DEF TypeInv, TypeOK, Alloc, After, CIDs

LEMMA StopTypes ==
  ASSUME NEW vs \in [Pids -> Vmms], NEW q \in Pids \cup {None}
  PROVE  StopVMM(vs, q) \in [Pids -> Vmms]
<1>1. CASE q \in Pids
  BY <1>1 DEF StopVMM, Vmms, Live
<1>2. CASE q = None
  BY <1>2, NoneAssumption DEF StopVMM
<1>3. QED BY <1>1, <1>2

LEMMA NewVmmTypes ==
  ASSUME NEW i \in Ids \cup {None}, NEW st \in Live \cup {"free", "gone", "foreign"}
  PROVE  /\ [NoVmm EXCEPT !.st = st] \in Vmms
         /\ [NoVmm EXCEPT !.st = st, !.id = i] \in Vmms
  BY DEF NoVmm, Vmms

LEMMA VmmStTypes ==
  ASSUME NEW v \in Vmms, NEW st \in Live \cup {"free", "gone", "foreign"}
  PROVE  [v EXCEPT !.st = st] \in Vmms
  BY DEF Vmms

LEMMA CappedTypes ==
  ASSUME NEW vs \in [Pids -> Vmms], NEW q
  PROVE  [vs EXCEPT ![q].capped = TRUE] \in [Pids -> Vmms]
<1>1. CASE q \in Pids
  <2>1. [vs[q] EXCEPT !.capped = TRUE] \in Vmms BY <1>1 DEF Vmms
  <2>2. QED BY <1>1, <2>1
<1>2. CASE q \notin Pids
  BY <1>2
<1>3. QED BY <1>1, <1>2

LEMMA HostTypes ==
  ASSUME TypeInv, NEW i, NEW ps \in SUBSET Parts, host' = [host EXCEPT ![i] = ps]
  PROVE  host' \in [Ids -> SUBSET Parts]
  BY DEF TypeInv, TypeOK, Parts

LEMMA ReclaimTypes ==
  ASSUME TypeInv, NEW vs, NEW i \in Ids
  PROVE  Reclaimed(vs, i) \in SUBSET Parts
  BY DEF TypeInv, TypeOK, Reclaimed, Parts

-----------------------------------------------------------------------------
(* Every action preserves TypeInv.                                          *)

LEMMA InitTypeInv == Init => TypeInv
<1>1. Init => TypeOK
  BY CidRangeAssumption, NoneAssumption, SwitchesAssumption
  DEF Init, InitVolatile, InitAllocator, TypeOK, Procs, NoJob, NoVmm,
      Jobs, Vmms, Steps, CIDs, Live
<1>2. Init => JobOK
  BY NoJobTypes DEF Init, InitVolatile, JobOK, LoopSteps
<1>3. QED BY <1>1, <1>2 DEF TypeInv

LEMMA LaunchTypes ==
  ASSUME TypeInv, NEW p \in Clients, LaunchAdmit(p) \/ LaunchStep(p)
  PROVE  TypeInv'
<1>. p \in Procs BY DEF Procs
<1>0. job[p] \in Jobs /\ JobFits(pc[p], job[p]) /\ host \in [Ids -> SUBSET Parts]
  BY DEF TypeInv, TypeOK, JobOK, Parts
<1>a. ASSUME NEW vs \in [Pids -> Vmms], Cleanup(p, vs), pc[p] \in BootSteps PROVE TypeInv'
  <2>1. job[p].id \in Ids
    BY <1>0, <1>a DEF JobFits, BootSteps, LoopSteps
  <2>2. host' \in [Ids -> SUBSET Parts]
    BY <1>a, <2>1, ReclaimTypes, HostTypes DEF Cleanup
  <2>3. QED
    BY <1>a, <2>2, FinishTypes DEF Cleanup, Free, TypeInv, TypeOK, Parts
<1>1. CASE LaunchAdmit(p)
  <2>1. PICK id \in Ids, mem \in Mems, kind \in Kinds :
          /\ Goto(p, "alloc")
          /\ job' = [job EXCEPT ![p] = [NoJob EXCEPT !.kind = kind, !.id = id, !.mem = mem]]
    BY <1>1 DEF LaunchAdmit
  <2> DEFINE j == [NoJob EXCEPT !.kind = kind, !.id = id, !.mem = mem]
  <2>2. j \in Jobs /\ JobFits("alloc", j) /\ "alloc" \in Steps
    BY NoneAssumption, SwitchesAssumption
    DEF NoJob, Jobs, JobFits, Steps, CidSteps, BootSteps, VmmSteps, LoopSteps
  <2>3. pc' \in [Procs -> Steps] /\ job' \in [Procs -> Jobs] /\ JobOK'
    <3> HIDE DEF j
    <3>1. job' = [job EXCEPT ![p] = j] BY <2>1 DEF j
    <3>2. QED BY <2>1, <2>2, <3>1, MoveTypes DEF Goto
  <2>4. QED BY <1>1, <2>3 DEF LaunchAdmit, TypeInv, TypeOK
<1>2. CASE LaunchAlloc(p)
  <2>1. CASE \E c \in CIDs : Alloc(c) /\ Goto(p, "build") /\ job' = [job EXCEPT ![p].cid = c]
    <3>1. PICK c \in CIDs : Alloc(c) /\ Goto(p, "build") /\ job' = [job EXCEPT ![p].cid = c]
      BY <2>1
    <3> DEFINE j == [job[p] EXCEPT !.cid = c]
    <3>2. j \in Jobs /\ JobFits("build", j) /\ "build" \in Steps
      BY <1>0, <1>2, NoneAssumption
      DEF LaunchAlloc, Jobs, JobFits, Steps, CidSteps, BootSteps, VmmSteps, LoopSteps
    <3>3. job' = [job EXCEPT ![p] = j]
      BY <3>1
    <3>4. pc' \in [Procs -> Steps] /\ job' \in [Procs -> Jobs] /\ JobOK'
      <4> HIDE DEF j
      <4>1. QED BY <3>1, <3>2, <3>3, MoveTypes DEF Goto
    <3>5. next' \in CIDs /\ used' \subseteq CIDs
      BY <3>1, AllocTypes
    <3>6. QED
      BY <1>2, <3>4, <3>5 DEF LaunchAlloc, TypeInv, TypeOK
  <2>2. CASE Exhausted /\ Finish(p)
    BY <1>2, <2>2, FinishTypes DEF LaunchAlloc, Exhausted, TypeInv, TypeOK
  <2>3. QED BY <1>2, <2>1, <2>2 DEF LaunchAlloc
<1>3. CASE LaunchBuild(p)
  <2>1. JobFits("cgroup", job[p]) /\ "cgroup" \in Steps
    BY <1>0, <1>3 DEF LaunchBuild, JobFits, Steps, CidSteps, BootSteps, VmmSteps, LoopSteps
  <2>2. host' \in [Ids -> SUBSET Parts]
    BY <1>0, <1>3 DEF LaunchBuild, Parts
  <2>3. QED
    BY <1>3, <2>1, <2>2, GotoTypes DEF LaunchBuild, Goto, TypeInv, TypeOK, Parts
<1>4. CASE LaunchBuildFails(p)
  <2>1. job[p].id \in Ids
    BY <1>0, <1>4 DEF LaunchBuildFails, JobFits, LoopSteps
  <2>2. host' \in [Ids -> SUBSET Parts]
    BY <1>0, <1>4, <2>1 DEF LaunchBuildFails, AfterFailedBuild, Parts
  <2>3. QED
    BY <1>4, <2>2, FinishTypes DEF LaunchBuildFails, Free, TypeInv, TypeOK, Parts
<1>5. CASE LaunchCgroup(p)
  <2>1. JobFits("boot", job[p]) /\ "boot" \in Steps
    BY <1>0, <1>5 DEF LaunchCgroup, JobFits, Steps, CidSteps, BootSteps, VmmSteps, LoopSteps
  <2>2. host' \in [Ids -> SUBSET Parts]
    BY <1>0, <1>5 DEF LaunchCgroup, Parts
  <2>3. QED
    BY <1>5, <2>1, <2>2, GotoTypes DEF LaunchCgroup, Goto, TypeInv, TypeOK, Parts
<1>6. CASE LaunchCgroupFails(p)
  <2>1. host' \in [Ids -> SUBSET Parts]
    BY <1>0, <1>6 DEF LaunchCgroupFails, Parts
  <2>2. QED
    BY <1>6, <2>1, FinishTypes DEF LaunchCgroupFails, Free, TypeInv, TypeOK, Parts
<1>7. CASE LaunchBoot(p)
  <2>1. PICK q \in FreePids :
          /\ vmm' = [vmm EXCEPT ![q] = [NoVmm EXCEPT !.st = "run", !.id = job[p].id]]
          /\ job' = [job EXCEPT ![p].pid = q]
    BY <1>7 DEF LaunchBoot
  <2> DEFINE j == [job[p] EXCEPT !.pid = q]
  <2>2. q \in Pids BY DEF FreePids
  <2>3. j \in Jobs /\ JobFits("place", j) /\ "place" \in Steps
    BY <1>0, <1>7, <2>2
    DEF LaunchBoot, Jobs, JobFits, Steps, CidSteps, BootSteps, VmmSteps, LoopSteps
  <2>4. job' = [job EXCEPT ![p] = j]
    BY <2>1
  <2>5. pc' \in [Procs -> Steps] /\ job' \in [Procs -> Jobs] /\ JobOK'
    <3> HIDE DEF j
    <3>1. QED BY <1>7, <2>3, <2>4, MoveTypes DEF LaunchBoot, Goto
  <2>6. vmm' \in [Pids -> Vmms]
    <3>1. [NoVmm EXCEPT !.st = "run", !.id = job[p].id] \in Vmms
      BY <1>0, NewVmmTypes DEF Live, Jobs
    <3>2. QED BY <2>1, <3>1 DEF TypeInv, TypeOK
  <2>7. host' \in [Ids -> SUBSET Parts]
    <3>1. host' = [host EXCEPT ![job[p].id] = @ \cup {"chroot"}] BY <1>7 DEF LaunchBoot
    <3>2. QED BY <1>0, <3>1 DEF Parts
  <2>8. QED
    BY <1>7, <2>5, <2>6, <2>7 DEF LaunchBoot, TypeInv, TypeOK, Parts
<1>8. CASE LaunchBootFails(p)
  <2>1. pc[p] \in BootSteps BY <1>8 DEF LaunchBootFails, BootSteps
  <2>2. CASE Cleanup(p, vmm)
    BY <1>a, <2>1, <2>2 DEF TypeInv, TypeOK
  <2>3. ASSUME NEW q \in FreePids,
               Cleanup(p, [vmm EXCEPT ![q] = [NoVmm EXCEPT !.st = "stopping", !.id = job[p].id]])
        PROVE  TypeInv'
    <3>1. [NoVmm EXCEPT !.st = "stopping", !.id = job[p].id] \in Vmms
      BY <1>0, NewVmmTypes DEF Live, Jobs
    <3>2. [vmm EXCEPT ![q] = [NoVmm EXCEPT !.st = "stopping", !.id = job[p].id]]
            \in [Pids -> Vmms]
      BY <3>1 DEF TypeInv, TypeOK
    <3>3. QED BY <1>a, <2>1, <2>3, <3>2
  <2>4. QED BY <1>8, <2>2, <2>3 DEF LaunchBootFails
<1>9. CASE LaunchPlace(p)
  <2>1. JobFits("insert", job[p]) /\ "insert" \in Steps
    BY <1>0, <1>9 DEF LaunchPlace, JobFits, Steps, CidSteps, BootSteps, VmmSteps, LoopSteps
  <2>2. vmm' \in [Pids -> Vmms]
    <3>1. vmm' = [vmm EXCEPT ![job[p].pid].capped = TRUE] BY <1>9 DEF LaunchPlace
    <3>2. QED BY <3>1, CappedTypes DEF TypeInv, TypeOK
  <2>3. QED
    BY <1>9, <2>1, <2>2, GotoTypes DEF LaunchPlace, Goto, TypeInv, TypeOK
<1>10. CASE LaunchPlaceFails(p) \/ RekeyFails(p)
  <2>1. pc[p] \in BootSteps /\ Cleanup(p, StopVMM(vmm, job[p].pid))
    BY <1>10 DEF LaunchPlaceFails, RekeyFails, BootSteps
  <2>2. StopVMM(vmm, job[p].pid) \in [Pids -> Vmms]
    BY <1>0, StopTypes DEF TypeInv, TypeOK, Jobs
  <2>3. QED BY <1>a, <2>1, <2>2
<1>11. CASE LaunchInsert(p)
  <2> DEFINE j == [job[p] EXCEPT !.cid = None]
  <2>1. j \in Jobs /\ JobFits("save", j) /\ "save" \in Steps
    BY <1>0, <1>11
    DEF LaunchInsert, Jobs, JobFits, Steps, CidSteps, BootSteps, VmmSteps, LoopSteps
  <2>2. job' = [job EXCEPT ![p] = j]
    BY <1>11 DEF LaunchInsert
  <2>3. pc' \in [Procs -> Steps] /\ job' \in [Procs -> Jobs] /\ JobOK'
    <3> HIDE DEF j
    <3>1. QED BY <1>11, <2>1, <2>2, MoveTypes DEF LaunchInsert, Goto
  <2>4. [cid |-> job[p].cid, pid |-> job[p].pid, mem |-> job[p].mem] \in Instances
    BY <1>0, <1>11
    DEF LaunchInsert, Instances, Jobs, JobFits, CidSteps, BootSteps, VmmSteps
  <2>5. inst' \in [Ids -> Instances \cup {None}]
    BY <1>11, <2>4 DEF LaunchInsert, TypeInv, TypeOK
  <2>6. adrift' \subseteq Pids /\ leaked' \subseteq CIDs
    <3>1. job[p].id \in Ids
      BY <1>0, <1>11 DEF LaunchInsert, JobFits, LoopSteps
    <3>2. inst[job[p].id] # None => inst[job[p].id].pid \in Pids /\ inst[job[p].id].cid \in CIDs
      BY <3>1 DEF TypeInv, TypeOK, Instances
    <3>3. QED BY <1>11, <3>2 DEF LaunchInsert, TypeInv, TypeOK
  <2>7. QED
    BY <1>11, <2>3, <2>5, <2>6 DEF LaunchInsert, TypeInv, TypeOK
<1>12. CASE LaunchSave(p)
  <2>1. records' \in [Ids -> Pids \cup {None}]
    BY <1>0, <1>12 DEF LaunchSave, Save, TypeInv, TypeOK, Jobs
  <2>2. QED
    BY <1>12, <2>1, FinishTypes DEF LaunchSave, TypeInv, TypeOK
<1>13. QED
  BY <1>1, <1>2, <1>3, <1>4, <1>5, <1>6, <1>7, <1>8, <1>9, <1>10, <1>11, <1>12 DEF LaunchStep

LEMMA TerminateTypes ==
  ASSUME TypeInv, NEW p \in Procs,
         (\E id \in Ids : TerminateLocked(p, id)) \/ TerminateStep(p)
  PROVE  TypeInv'
<1>0. job[p] \in Jobs /\ JobFits(pc[p], job[p]) /\ host \in [Ids -> SUBSET Parts]
  BY DEF TypeInv, TypeOK, JobOK, Parts
<1>1. ASSUME NEW id \in Ids, TerminateLocked(p, id) PROVE TypeInv'
  <2> DEFINE j == [NoJob EXCEPT !.kind = "terminate", !.id = id,
                     !.cid = inst[id].cid, !.pid = inst[id].pid]
  <2>1. inst[id] \in Instances
    BY <1>1 DEF TerminateLocked, TypeInv, TypeOK
  <2>2. j \in Jobs /\ JobFits("halt", j) /\ "halt" \in Steps
    BY <2>1, NoneAssumption
    DEF Instances, NoJob, Jobs, JobFits, Steps, CidSteps, BootSteps, VmmSteps, LoopSteps
  <2>3. job' = [job EXCEPT ![p] = j]
    BY <1>1 DEF TerminateLocked
  <2>4. pc' \in [Procs -> Steps] /\ job' \in [Procs -> Jobs] /\ JobOK'
    <3> HIDE DEF j
    <3>1. QED BY <1>1, <2>2, <2>3, MoveTypes DEF TerminateLocked, Goto
  <2>5. inst' \in [Ids -> Instances \cup {None}]
    BY <1>1 DEF TerminateLocked, TypeInv, TypeOK
  <2>6. QED BY <1>1, <2>4, <2>5 DEF TerminateLocked, TypeInv, TypeOK
<1>2. CASE TerminateChosen(p)
  <2>1. job[p].id \in Ids
    BY <1>0, <1>2 DEF TerminateChosen, JobFits, LoopSteps
  <2>2. QED BY <1>1, <1>2, <2>1 DEF TerminateChosen
<1>3. CASE TerminateNotFound(p)
  BY <1>3, FinishTypes DEF TerminateNotFound, TypeInv, TypeOK
<1>4. CASE TerminateHalt(p)
  <2>1. JobFits("reclaim", job[p]) /\ "reclaim" \in Steps
    BY <1>0, <1>4 DEF TerminateHalt, JobFits, Steps, CidSteps, BootSteps, VmmSteps, LoopSteps
  <2>2. vmm' \in [Pids -> Vmms]
    BY <1>0, <1>4, StopTypes DEF TerminateHalt, TypeInv, TypeOK, Jobs
  <2>3. QED
    BY <1>4, <2>1, <2>2, GotoTypes DEF TerminateHalt, Goto, TypeInv, TypeOK
<1>5. CASE TerminateReclaim(p)
  <2> DEFINE j == [job[p] EXCEPT !.cid = None]
  <2>1. j \in Jobs /\ JobFits("unrecord", j) /\ "unrecord" \in Steps /\ job[p].id \in Ids
    BY <1>0, <1>5
    DEF TerminateReclaim, Jobs, JobFits, Steps, CidSteps, BootSteps, VmmSteps, LoopSteps
  <2>2. job' = [job EXCEPT ![p] = j]
    BY <1>5 DEF TerminateReclaim
  <2>3. pc' \in [Procs -> Steps] /\ job' \in [Procs -> Jobs] /\ JobOK'
    <3> HIDE DEF j
    <3>1. QED BY <1>5, <2>1, <2>2, MoveTypes DEF TerminateReclaim, Goto
  <2>4. host' \in [Ids -> SUBSET Parts]
    BY <1>5, <2>1, ReclaimTypes, HostTypes DEF TerminateReclaim
  <2>5. QED
    BY <1>5, <2>3, <2>4 DEF TerminateReclaim, Free, TypeInv, TypeOK, Parts
<1>6. CASE TerminateUnrecord(p)
  <2>1. records' \in [Ids -> Pids \cup {None}]
    BY <1>6 DEF TerminateUnrecord, Remove, TypeInv, TypeOK
  <2>2. QED
    BY <1>6, <2>1, FinishTypes DEF TerminateUnrecord, TypeInv, TypeOK
<1>7. QED
  BY <1>1, <1>2, <1>3, <1>4, <1>5, <1>6 DEF TerminateStep

LEMMA StopOpTypes ==
  ASSUME TypeInv, NEW p \in Clients, StopLookup(p) \/ StopStep(p)
  PROVE  TypeInv'
<1>. p \in Procs BY DEF Procs
<1>0. job[p] \in Jobs /\ JobFits(pc[p], job[p])
  BY DEF TypeInv, TypeOK, JobOK
<1>1. CASE StopLookup(p)
  <2>1. PICK id \in Ids :
          /\ inst[id] # None
          /\ job' = [job EXCEPT ![p] = [NoJob EXCEPT !.kind = "stop", !.id = id,
                                          !.pid = inst[id].pid]]
    BY <1>1 DEF StopLookup
  <2> DEFINE j == [NoJob EXCEPT !.kind = "stop", !.id = id, !.pid = inst[id].pid]
  <2>2. inst[id] \in Instances
    BY <2>1 DEF TypeInv, TypeOK
  <2>3. j \in Jobs /\ JobFits("pause", j) /\ "pause" \in Steps
    BY <2>2, NoneAssumption
    DEF Instances, NoJob, Jobs, JobFits, Steps, CidSteps, BootSteps, VmmSteps, LoopSteps
  <2>4. pc' \in [Procs -> Steps] /\ job' \in [Procs -> Jobs] /\ JobOK'
    <3>1. job' = [job EXCEPT ![p] = j] BY <2>1
    <3> HIDE DEF j
    <3>2. QED BY <1>1, <2>3, <3>1, MoveTypes DEF StopLookup, Goto
  <2>5. QED BY <1>1, <2>4 DEF StopLookup, TypeInv, TypeOK
<1>2. CASE StopPause(p)
  <2>1. JobFits("capture", job[p]) /\ "capture" \in Steps
    BY <1>0, <1>2 DEF StopPause, JobFits, Steps, CidSteps, BootSteps, VmmSteps, LoopSteps
  <2>2. vmm' \in [Pids -> Vmms]
    <3>1. job[p].pid \in Pids
      BY <1>0, <1>2 DEF StopPause, JobFits, VmmSteps
    <3>2. [vmm[job[p].pid] EXCEPT !.st = "paused"] \in Vmms
      BY <3>1 DEF TypeInv, TypeOK, Vmms, Live
    <3>3. QED BY <1>2, <3>1, <3>2 DEF StopPause, TypeInv, TypeOK
  <2>3. QED
    BY <1>2, <2>1, <2>2, GotoTypes DEF StopPause, Goto, TypeInv, TypeOK
<1>3. CASE StopCapture(p)
  <2> DEFINE j == [job[p] EXCEPT !.pid = None]
  <2>1. j \in Jobs /\ JobFits("term", j) /\ "term" \in Steps
    BY <1>0, <1>3
    DEF StopCapture, Jobs, JobFits, Steps, CidSteps, BootSteps, VmmSteps, LoopSteps
  <2>2. job' = [job EXCEPT ![p] = j]
    BY <1>3 DEF StopCapture
  <2>3. pc' \in [Procs -> Steps] /\ job' \in [Procs -> Jobs] /\ JobOK'
    <3> HIDE DEF j
    <3>1. QED BY <1>3, <2>1, <2>2, MoveTypes DEF StopCapture, Goto
  <2>4. QED BY <1>3, <2>3 DEF StopCapture, TypeInv, TypeOK
<1>4. CASE StopFails(p)
  BY <1>4, FinishTypes DEF StopFails, TypeInv, TypeOK
<1>5. QED BY <1>1, <1>2, <1>3, <1>4 DEF StopStep

\* The locals of a loop that hands an id to Terminate or gcRecord.
LEMMA LoopJobTypes ==
  ASSUME NEW id \in Ids, NEW k \in {"terminate", "gc"}
  PROVE  /\ [NoJob EXCEPT !.kind = k, !.id = id] \in Jobs
         /\ \A s \in {"term", "gcRecord"} :
              s \in Steps /\ JobFits(s, [NoJob EXCEPT !.kind = k, !.id = id])
  BY NoneAssumption
  DEF NoJob, Jobs, JobFits, Steps, CidSteps, BootSteps, VmmSteps, LoopSteps

LEMMA ListingTypes == TypeInv => Listing \in SUBSET (Ids \X Pids)
  BY DEF TypeInv, TypeOK, Listing, Tracked, Instances

LEMMA ReaperTypes ==
  ASSUME TypeInv, ReaperStep
  PROVE  TypeInv'
<1>. Reaper \in Procs BY DEF Procs
<1>0. job[Reaper] \in Jobs /\ JobFits(pc[Reaper], job[Reaper])
  BY DEF TypeInv, TypeOK, JobOK
<1>1. CASE ReapList
  <2>1. JobFits("reap", job[Reaper]) /\ "reap" \in Steps
    BY <1>0, <1>1 DEF ReapList, JobFits, Steps, CidSteps, BootSteps, VmmSteps, LoopSteps
  <2>2. QED
    BY <1>1, <2>1, GotoTypes, ListingTypes DEF ReapList, Goto, TypeInv, TypeOK
<1>2. CASE ReapProbe
  <2>1. PICK e \in todo[Reaper] :
          /\ todo' = [todo EXCEPT ![Reaper] = @ \ {e}]
          /\ IF processAlive(e[2])
             THEN UNCHANGED <<pc, job>>
             ELSE /\ Goto(Reaper, "term")
                  /\ job' = [job EXCEPT ![Reaper] =
                               [NoJob EXCEPT !.kind = "terminate", !.id = e[1]]]
    BY <1>2 DEF ReapProbe
  <2>2. e[1] \in Ids /\ todo' \in [{Reaper, Main} -> SUBSET (Ids \X Pids)]
    BY <2>1 DEF TypeInv, TypeOK
  <2>3. pc' \in [Procs -> Steps] /\ job' \in [Procs -> Jobs] /\ JobOK'
    <3>1. CASE UNCHANGED <<pc, job>>
      BY <3>1 DEF TypeInv, TypeOK, JobOK, JobFits
    <3>2. CASE ~processAlive(e[2])
      <4> DEFINE j == [NoJob EXCEPT !.kind = "terminate", !.id = e[1]]
      <4>1. j \in Jobs /\ JobFits("term", j) /\ "term" \in Steps
        BY <2>2, LoopJobTypes
      <4>2. job' = [job EXCEPT ![Reaper] = j] /\ pc' = [pc EXCEPT ![Reaper] = "term"]
        BY <2>1, <3>2 DEF Goto
      <4> HIDE DEF j
      <4>3. QED BY <4>1, <4>2, MoveTypes
    <3>3. QED BY <2>1, <3>1, <3>2
  <2>4. QED BY <1>2, <2>2, <2>3 DEF ReapProbe, TypeInv, TypeOK
<1>3. CASE ReapDone
  <2>1. JobFits("idle", job[Reaper]) /\ "idle" \in Steps
    BY <1>0, <1>3 DEF ReapDone, JobFits, Steps, CidSteps, BootSteps, VmmSteps, LoopSteps
  <2>2. QED
    BY <1>3, <2>1, GotoTypes DEF ReapDone, Goto, TypeInv, TypeOK
<1>4. CASE TerminateStep(Reaper)
  BY <1>4, TerminateTypes
<1>5. QED BY <1>1, <1>2, <1>3, <1>4 DEF ReaperStep

LEMMA DieTypes == TypeInv /\ Die => TypeInv'
<1> SUFFICES ASSUME TypeInv, Die PROVE TypeInv'
  OBVIOUS
<1>1. TypeOK'
  BY CidRangeAssumption, NoneAssumption, SwitchesAssumption, NoJobTypes
  DEF Die, TypeInv, TypeOK, Procs, Steps, CIDs
<1>2. JobOK'
  BY NoJobTypes DEF Die, JobOK, LoopSteps, JobFits
<1>3. QED BY <1>1, <1>2 DEF TypeInv

LEMMA MainTypes ==
  ASSUME TypeInv, MainStep
  PROVE  TypeInv'
<1>. Main \in Procs BY DEF Procs
<1>0. job[Main] \in Jobs /\ JobFits(pc[Main], job[Main]) /\ host \in [Ids -> SUBSET Parts]
  BY DEF TypeInv, TypeOK, JobOK, Parts
<1>1. CASE Start
  <2>1. JobFits("gc", job[Main]) /\ "gc" \in Steps
    BY <1>0, <1>1 DEF Start, JobFits, Steps, CidSteps, BootSteps, VmmSteps, LoopSteps
  <2>2. todo' \in [{Reaper, Main} -> SUBSET (Ids \X Pids)]
    BY <1>1 DEF Start, All, TypeInv, TypeOK
  <2>3. starts' \in 0 .. MaxStarts
    BY <1>1, SwitchesAssumption DEF Start, All, TypeInv, TypeOK
  <2>4. QED
    BY <1>1, <2>1, <2>2, <2>3, GotoTypes DEF Start, Goto, TypeInv, TypeOK
<1>2. CASE ReconcileKill
  <2>1. PICK e \in todo[Main] :
          /\ IF processAlive(e[2])
             THEN \E st \in {"gone", "stopping"} :
                    vmm' = [vmm EXCEPT ![e[2]] =
                              IF st = "gone" \/ @.st = "foreign"
                              THEN [NoVmm EXCEPT !.st = "gone"]
                              ELSE [@ EXCEPT !.st = "stopping"]]
             ELSE UNCHANGED vmm
          /\ todo' = [todo EXCEPT ![Main] = @ \ {e}]
          /\ job' = [job EXCEPT ![Main] = [NoJob EXCEPT !.kind = "gc", !.id = e[1]]]
    BY <1>2 DEF ReconcileKill
  <2>2. e[1] \in Ids /\ e[2] \in Pids /\ todo' \in [{Reaper, Main} -> SUBSET (Ids \X Pids)]
    BY <2>1 DEF TypeInv, TypeOK
  <2> DEFINE j == [NoJob EXCEPT !.kind = "gc", !.id = e[1]]
  <2>3. j \in Jobs /\ JobFits("gcRecord", j) /\ "gcRecord" \in Steps
    BY <2>2, LoopJobTypes
  <2>4. pc' \in [Procs -> Steps] /\ job' \in [Procs -> Jobs] /\ JobOK'
    <3>1. job' = [job EXCEPT ![Main] = j] BY <2>1
    <3> HIDE DEF j
    <3>2. QED BY <1>2, <2>3, <3>1, MoveTypes DEF ReconcileKill, Goto
  <2>5. vmm' \in [Pids -> Vmms]
    <3>1. [NoVmm EXCEPT !.st = "gone"] \in Vmms
      BY NewVmmTypes
    <3>2. [vmm[e[2]] EXCEPT !.st = "stopping"] \in Vmms
      <4>1. vmm[e[2]] \in Vmms BY <2>2 DEF TypeInv, TypeOK
      <4>2. QED BY <4>1, VmmStTypes DEF Live
    <3>3. vmm \in [Pids -> Vmms]
      BY DEF TypeInv, TypeOK
    <3>4. CASE processAlive(e[2])
      <4>1. PICK st \in {"gone", "stopping"} :
              vmm' = [vmm EXCEPT ![e[2]] =
                        IF st = "gone" \/ @.st = "foreign"
                        THEN [NoVmm EXCEPT !.st = "gone"]
                        ELSE [@ EXCEPT !.st = "stopping"]]
        BY <2>1, <3>4
      <4>2. QED BY <2>2, <3>1, <3>2, <3>3, <4>1
    <3>5. QED BY <2>1, <3>3, <3>4
  <2>6. QED BY <1>2, <2>2, <2>4, <2>5 DEF ReconcileKill, TypeInv, TypeOK
<1>3. CASE gcRecord
  <2>1. job[Main].id \in Ids
    BY <1>0, <1>3 DEF gcRecord, JobFits, LoopSteps
  <2>2. host' \in [Ids -> SUBSET Parts]
    BY <1>3, <2>1, ReclaimTypes, HostTypes DEF gcRecord
  <2>3. records' \in [Ids -> Pids \cup {None}]
    BY <1>3 DEF gcRecord, Remove, TypeInv, TypeOK
  <2>4. pc' \in [Procs -> Steps] /\ job' \in [Procs -> Jobs] /\ JobOK'
    BY <1>3, NoJobTypes, MoveTypes DEF gcRecord, Goto, LoopSteps
  <2>5. QED
    BY <1>3, <2>2, <2>3, <2>4 DEF gcRecord, TypeInv, TypeOK, Parts
<1>4. CASE Serve
  <2>1. JobFits("idle", job[Main]) /\ "idle" \in Steps
    BY <1>0, <1>4 DEF Serve, JobFits, Steps, CidSteps, BootSteps, VmmSteps, LoopSteps
  <2>2. QED
    BY <1>4, <2>1, GotoTypes DEF Serve, Goto, TypeInv, TypeOK
<1>5. CASE DrainList
  <2>1. JobFits("drain", job[Main]) /\ "drain" \in Steps
    BY <1>0, <1>5 DEF DrainList, JobFits, Steps, CidSteps, BootSteps, VmmSteps, LoopSteps
  <2>2. QED
    BY <1>5, <2>1, GotoTypes, ListingTypes DEF DrainList, Goto, TypeInv, TypeOK
<1>6. CASE DrainNext
  <2>1. PICK e \in todo[Main] :
          /\ todo' = [todo EXCEPT ![Main] = @ \ {e}]
          /\ job' = [job EXCEPT ![Main] = [NoJob EXCEPT !.kind = "terminate", !.id = e[1]]]
    BY <1>6 DEF DrainNext
  <2>2. e[1] \in Ids /\ todo' \in [{Reaper, Main} -> SUBSET (Ids \X Pids)]
    BY <2>1 DEF TypeInv, TypeOK
  <2> DEFINE j == [NoJob EXCEPT !.kind = "terminate", !.id = e[1]]
  <2>3. j \in Jobs /\ JobFits("term", j) /\ "term" \in Steps
    BY <2>2, LoopJobTypes
  <2>4. pc' \in [Procs -> Steps] /\ job' \in [Procs -> Jobs] /\ JobOK'
    <3>1. job' = [job EXCEPT ![Main] = j] BY <2>1
    <3> HIDE DEF j
    <3>2. QED BY <1>6, <2>3, <3>1, MoveTypes DEF DrainNext, Goto
  <2>5. QED BY <1>6, <2>2, <2>4 DEF DrainNext, TypeInv, TypeOK
<1>7. CASE Exit
  BY <1>7, DieTypes DEF Exit
<1>8. CASE TerminateStep(Main)
  BY <1>8, TerminateTypes
<1>9. QED
  BY <1>1, <1>2, <1>3, <1>4, <1>5, <1>6, <1>7, <1>8 DEF MainStep

LEMMA EnvironmentTypes ==
  ASSUME TypeInv, Environment
  PROVE  TypeInv'
<1>1. ASSUME NEW q \in Pids, VmmExits(q) \/ PidReused(q) PROVE TypeInv'
  <2>1. vmm' \in [Pids -> Vmms]
    <3>1. [NoVmm EXCEPT !.st = "gone"] \in Vmms
      BY NewVmmTypes
    <3>2. QED BY <1>1, <3>1 DEF VmmExits, PidReused, TypeInv, TypeOK, Vmms
  <2>2. QED
    BY <1>1, <2>1 DEF VmmExits, PidReused, volatile, TypeInv, TypeOK, JobOK, JobFits
<1>2. CASE Shutdown
  BY <1>2 DEF Shutdown, volatile, TypeInv, TypeOK, JobOK, JobFits
<1>3. CASE Crash
  BY <1>3, DieTypes DEF Crash
<1>4. QED BY <1>1, <1>2, <1>3 DEF Environment

LEMMA NextTypes == TypeInv /\ [Next]_vars => TypeInv'
<1> SUFFICES ASSUME TypeInv, [Next]_vars PROVE TypeInv'
  OBVIOUS
<1>1. ASSUME NEW p \in Clients, Request(p) \/ ClientStep(p) PROVE TypeInv'
  <2>1. p \in Procs BY DEF Procs
  <2>2. TerminateRequest(p) => \E id \in Ids : TerminateLocked(p, id)
    BY DEF TerminateRequest
  <2>3. QED
    BY <1>1, <2>1, <2>2, LaunchTypes, TerminateTypes, StopOpTypes DEF Request, ClientStep
<1>2. CASE UNCHANGED vars
  BY <1>2 DEF vars, volatile, TypeInv, TypeOK, JobOK, JobFits
<1>3. QED
  BY <1>1, <1>2, ReaperTypes, MainTypes, EnvironmentTypes DEF Next

\* Every variable keeps its type, whatever the number of handlers, ids, CIDs and
\* restarts and whatever fails: the locals of a goroutine always fit its step.
THEOREM TypeCorrect == Spec => []TypeOK
<1>1. Spec => []TypeInv
  BY InitTypeInv, NextTypes, PTL DEF Spec
<1>2. TypeInv => TypeOK
  BY DEF TypeInv
<1>3. QED BY <1>1, <1>2, PTL

-----------------------------------------------------------------------------
(* CIDs.  Five things can happen to the holders of CIDs; every action does  *)
(* one of them.                                                             *)

CidInv == CidsExclusive /\ CidsAccounted /\ leaked \subseteq used

\* Nobody gains or loses a CID.
LEMMA CidsKept ==
  ASSUME TypeInv, CidInv, UNCHANGED <<inst, used, leaked>>,
         \A q \in Procs : job'[q].cid = job[q].cid
  PROVE  CidInv'
  BY DEF CidInv, CidsExclusive, CidsAccounted, Tracked

\* p takes a CID that was free.
LEMMA CidTaken ==
  ASSUME TypeInv, CidInv, NEW p \in Procs, NEW c \in CIDs, job[p].cid = None,
         c \notin used, used' = used \cup {c}, UNCHANGED <<inst, leaked>>,
         job'[p].cid = c, \A q \in Procs \ {p} : job'[q].cid = job[q].cid
  PROVE  CidInv'
<1>1. c # None BY NoneAssumption
<1>2. CidsExclusive'
  BY <1>1 DEF CidInv, CidsExclusive, Tracked
<1>3. CidsAccounted'
  <2>1. Tracked' = Tracked BY DEF Tracked
  <2>2. SUFFICES ASSUME NEW d \in used'
                 PROVE  \/ \E q \in Procs : job'[q].cid = d
                        \/ \E i \in Tracked : inst'[i].cid = d
                        \/ d \in leaked'
    BY <2>1 DEF CidsAccounted
  <2>3. CASE d = c BY <2>3
  <2>4. CASE d \in used
    <3>1. CASE \E q \in Procs : job[q].cid = d
      <4>1. PICK q \in Procs : job[q].cid = d BY <3>1
      <4>2. d # None BY <2>4, NoneAssumption DEF TypeInv, TypeOK
      <4>3. QED BY <4>1, <4>2
    <3>2. QED BY <2>4, <3>1 DEF CidInv, CidsAccounted
  <2>5. QED BY <2>3, <2>4
<1>4. QED BY <1>2, <1>3 DEF CidInv

\* p gives its CID back.
LEMMA CidFreed ==
  ASSUME TypeInv, CidInv, NEW p \in Procs, job[p].cid # None,
         used' = used \ {job[p].cid}, UNCHANGED <<inst, leaked>>,
         job'[p].cid = None, \A q \in Procs \ {p} : job'[q].cid = job[q].cid
  PROVE  CidInv'
<1>0. Tracked' = Tracked BY DEF Tracked
<1>1. CidsExclusive'
  <2>1. \A q \in Procs \ {p} : job[q].cid # job[p].cid
    BY DEF CidInv, CidsExclusive
  <2>2. \A i \in Tracked : inst[i].cid # job[p].cid /\ inst[i].cid \in used \ leaked
    BY DEF CidInv, CidsExclusive, Tracked
  <2>3. \A i \in Tracked : inst[i].cid # None
    BY NoneAssumption DEF TypeInv, TypeOK, Tracked, Instances
  <2>4. \A i \in Ids : inst[i] # None => inst[i].cid \in used' \ leaked'
    BY <2>2 DEF Tracked
  <2>5. \A q \in Procs : job'[q].cid # None => job'[q].cid \in used' \ leaked'
    BY <2>1 DEF CidInv, CidsExclusive
  <2>6. \A q, r \in Procs : q # r /\ job'[q].cid # None => job'[q].cid # job'[r].cid
    BY DEF CidInv, CidsExclusive
  <2>7. \A q \in Procs, i \in Tracked : job'[q].cid # inst[i].cid
    BY <2>3 DEF CidInv, CidsExclusive
  <2>8. QED BY <1>0, <2>4, <2>5, <2>6, <2>7 DEF CidInv, CidsExclusive
<1>2. CidsAccounted'
  BY <1>0 DEF CidInv, CidsAccounted
<1>3. QED BY <1>1, <1>2 DEF CidInv, CidsExclusive

\* p's CID passes to the entry it inserts; an entry it replaces leaks its own.
LEMMA CidInserted ==
  ASSUME TypeInv, CidInv, NEW p \in Procs, NEW i \in Ids, NEW n \in Instances,
         job[p].cid # None, n.cid = job[p].cid,
         inst' = [inst EXCEPT ![i] = n], used' = used,
         leaked' = IF inst[i] = None THEN leaked ELSE leaked \cup {inst[i].cid},
         job'[p].cid = None, \A q \in Procs \ {p} : job'[q].cid = job[q].cid
  PROVE  CidInv'
<1>0. inst \in [Ids -> Instances \cup {None}]
  BY DEF TypeInv, TypeOK
<1>1. n # None
  BY NoneAssumption DEF Instances
<1>2. inst'[i] = n /\ \A j \in Ids \ {i} : inst'[j] = inst[j]
  BY <1>0
<1>3. Tracked' = Tracked \cup {i}
  BY <1>0, <1>1, <1>2 DEF Tracked
<1>4. CidsExclusive'
  <2>0. \A j \in Tracked : inst[j].cid # None
    BY <1>0, NoneAssumption DEF Tracked, Instances
  <2>1. \A q \in Procs : job'[q].cid # None => job'[q].cid \in used' \ leaked'
    BY DEF CidInv, CidsExclusive, Tracked
  <2>2. \A j \in Ids : inst'[j] # None => inst'[j].cid \in used' \ leaked'
    BY <1>2 DEF CidInv, CidsExclusive, Tracked
  <2>3. \A q, r \in Procs : q # r /\ job'[q].cid # None => job'[q].cid # job'[r].cid
    BY DEF CidInv, CidsExclusive
  <2>4. \A j, k \in Tracked' : j # k => inst'[j].cid # inst'[k].cid
    BY <1>2, <1>3 DEF CidInv, CidsExclusive
  <2>5. \A q \in Procs, j \in Tracked' : job'[q].cid # inst'[j].cid
    BY <1>2, <1>3, <2>0 DEF CidInv, CidsExclusive
  <2>6. QED BY <2>1, <2>2, <2>3, <2>4, <2>5 DEF CidsExclusive
<1>5. CidsAccounted'
  <2>1. SUFFICES ASSUME NEW d \in used
                 PROVE  \/ \E q \in Procs : job'[q].cid = d
                        \/ \E j \in Tracked' : inst'[j].cid = d
                        \/ d \in leaked'
    BY DEF CidsAccounted
  <2>2. CASE \E q \in Procs : job[q].cid = d
    <3>1. PICK q \in Procs : job[q].cid = d BY <2>2
    <3>2. CASE q = p BY <1>2, <1>3, <3>1, <3>2
    <3>3. CASE q # p BY <3>1, <3>3
    <3>4. QED BY <3>2, <3>3
  <2>3. CASE \E j \in Tracked : inst[j].cid = d
    <3>1. PICK j \in Tracked : inst[j].cid = d BY <2>3
    <3>2. CASE j = i BY <3>1, <3>2 DEF Tracked
    <3>3. CASE j # i BY <1>2, <1>3, <3>1, <3>3 DEF Tracked
    <3>4. QED BY <3>2, <3>3
  <2>4. CASE d \in leaked BY <2>4
  <2>5. QED BY <2>2, <2>3, <2>4 DEF CidInv, CidsAccounted
<1>6. QED BY <1>4, <1>5 DEF CidInv, CidsExclusive, Tracked

\* p takes over the CID of the entry it deletes.
LEMMA CidDeleted ==
  ASSUME TypeInv, CidInv, NEW p \in Procs, NEW i \in Ids, inst[i] # None,
         job[p].cid = None, inst' = [inst EXCEPT ![i] = None], UNCHANGED <<used, leaked>>,
         job'[p].cid = inst[i].cid, \A q \in Procs \ {p} : job'[q].cid = job[q].cid
  PROVE  CidInv'
<1>0. inst \in [Ids -> Instances \cup {None}]
  BY DEF TypeInv, TypeOK
<1>1. inst[i].cid # None
  BY <1>0, NoneAssumption DEF Instances
<1>2. inst'[i] = None /\ \A j \in Ids \ {i} : inst'[j] = inst[j]
  BY <1>0
<1>3. Tracked' = Tracked \ {i}
  BY <1>0, <1>2 DEF Tracked
<1>4. CidsExclusive'
  BY <1>1, <1>2, <1>3 DEF CidInv, CidsExclusive, Tracked
<1>5. CidsAccounted'
  <2>1. SUFFICES ASSUME NEW d \in used
                 PROVE  \/ \E q \in Procs : job'[q].cid = d
                        \/ \E j \in Tracked' : inst'[j].cid = d
                        \/ d \in leaked'
    BY DEF CidsAccounted
  <2>2. CASE \E q \in Procs : job[q].cid = d
    <3>1. PICK q \in Procs : job[q].cid = d BY <2>2
    <3>2. d # None BY NoneAssumption DEF TypeInv, TypeOK
    <3>3. QED BY <3>1, <3>2
  <2>3. CASE \E j \in Tracked : inst[j].cid = d
    <3>1. PICK j \in Tracked : inst[j].cid = d BY <2>3
    <3>2. CASE j = i BY <3>1, <3>2
    <3>3. CASE j # i BY <1>2, <1>3, <3>1, <3>3 DEF Tracked
    <3>4. QED BY <3>2, <3>3
  <2>4. CASE d \in leaked BY <2>4
  <2>5. QED BY <2>2, <2>3, <2>4 DEF CidInv, CidsAccounted
<1>6. QED BY <1>4, <1>5 DEF CidInv

\* How an update of one goroutine's locals looks to the lemmas above.
LEMMA OneJob ==
  ASSUME TypeInv, NEW p \in Procs, NEW j, job' = [job EXCEPT ![p] = j]
  PROVE  job'[p] = j /\ \A q \in Procs \ {p} : job'[q].cid = job[q].cid
  BY DEF TypeInv, TypeOK

LEMMA CidAtStep ==
  ASSUME TypeInv, NEW p \in Procs
  PROVE  pc[p] \in CidSteps <=> job[p].cid # None
  BY DEF TypeInv, JobOK, JobFits

\* A goroutine without a CID replaces its locals by others without one.
LEMMA CidlessMove ==
  ASSUME TypeInv, CidInv, NEW p \in Procs, NEW j, pc[p] \notin CidSteps, j.cid = None,
         job' = [job EXCEPT ![p] = j], UNCHANGED <<inst, used, leaked>>
  PROVE  CidInv'
<1>1. job[p].cid = None BY CidAtStep
<1>2. \A q \in Procs : job'[q].cid = job[q].cid
  BY <1>1, OneJob
<1>3. QED BY <1>2, CidsKept

\* A goroutine frees its CID and drops its locals.
LEMMA FreeAndFinish ==
  ASSUME TypeInv, CidInv, NEW p \in Procs, pc[p] \in CidSteps,
         Free(job[p].cid), Finish(p), UNCHANGED <<inst, leaked>>
  PROVE  CidInv'
<1>1. job[p].cid # None BY CidAtStep
<1>2. job'[p].cid = None /\ \A q \in Procs \ {p} : job'[q].cid = job[q].cid
  <2>1. job' = [job EXCEPT ![p] = NoJob] BY DEF Finish
  <2>2. NoJob.cid = None BY DEF NoJob
  <2>3. QED BY <2>1, <2>2, OneJob
<1>3. QED BY <1>1, <1>2, CidFreed DEF Free

LEMMA LaunchCids ==
  ASSUME TypeInv, CidInv, NEW p \in Clients, LaunchAdmit(p) \/ LaunchStep(p)
  PROVE  CidInv'
<1>. p \in Procs BY DEF Procs
<1>1. CASE LaunchAdmit(p)
  <2>1. PICK id \in Ids, mem \in Mems, kind \in Kinds :
          job' = [job EXCEPT ![p] = [NoJob EXCEPT !.kind = kind, !.id = id, !.mem = mem]]
    BY <1>1 DEF LaunchAdmit
  <2>2. [NoJob EXCEPT !.kind = kind, !.id = id, !.mem = mem].cid = None
    BY DEF NoJob
  <2>3. pc[p] \notin CidSteps /\ UNCHANGED <<inst, used, leaked>>
    BY <1>1 DEF LaunchAdmit, MayStart, CidSteps
  <2>4. QED BY <2>1, <2>2, <2>3, CidlessMove
<1>2. CASE LaunchAlloc(p)
  <2>0. job[p].cid = None
    BY <1>2, CidAtStep DEF LaunchAlloc, CidSteps
  <2>1. ASSUME NEW c \in CIDs, Alloc(c), job' = [job EXCEPT ![p].cid = c] PROVE CidInv'
    <3>1. job'[p].cid = c /\ \A q \in Procs \ {p} : job'[q].cid = job[q].cid
      BY <2>1 DEF TypeInv, TypeOK, Jobs
    <3>2. QED BY <1>2, <2>0, <2>1, <3>1, CidTaken DEF LaunchAlloc, Alloc
  <2>2. CASE Exhausted /\ Finish(p)
    <3>1. \A q \in Procs : job'[q].cid = job[q].cid
      BY <2>0, <2>2, OneJob DEF Finish, NoJob
    <3>2. QED BY <1>2, <2>2, <3>1, CidsKept DEF LaunchAlloc, Exhausted
  <2>3. QED BY <1>2, <2>1, <2>2 DEF LaunchAlloc
<1>3. CASE LaunchBuild(p) \/ LaunchCgroup(p) \/ LaunchPlace(p)
  <2>1. UNCHANGED <<inst, used, leaked, job>>
    BY <1>3 DEF LaunchBuild, LaunchCgroup, LaunchPlace
  <2>2. QED BY <2>1, CidsKept
<1>4. CASE LaunchBuildFails(p)
  BY <1>4, FreeAndFinish DEF LaunchBuildFails, CidSteps
<1>5. CASE LaunchCgroupFails(p)
  BY <1>5, FreeAndFinish DEF LaunchCgroupFails, CidSteps
<1>6. CASE LaunchBoot(p)
  <2>1. PICK q \in FreePids : job' = [job EXCEPT ![p].pid = q]
    BY <1>6 DEF LaunchBoot
  <2>2. \A r \in Procs : job'[r].cid = job[r].cid
    BY <2>1 DEF TypeInv, TypeOK, Jobs
  <2>3. QED BY <1>6, <2>2, CidsKept DEF LaunchBoot
<1>7. CASE LaunchBootFails(p) \/ LaunchPlaceFails(p) \/ RekeyFails(p)
  <2>1. pc[p] \in CidSteps /\ \E vs : Cleanup(p, vs)
    BY <1>7 DEF LaunchBootFails, LaunchPlaceFails, RekeyFails, CidSteps
  <2>2. QED BY <2>1, FreeAndFinish DEF Cleanup
<1>8. CASE LaunchInsert(p)
  <2> DEFINE n == [cid |-> job[p].cid, pid |-> job[p].pid, mem |-> job[p].mem]
  <2>1. JobFits(pc[p], job[p]) /\ job[p] \in Jobs /\ pc[p] = "insert"
    BY <1>8 DEF LaunchInsert, TypeInv, TypeOK, JobOK
  <2>2. job[p].cid # None /\ job[p].id \in Ids
    BY <2>1 DEF JobFits, CidSteps, LoopSteps
  <2>3. n \in Instances /\ n.cid = job[p].cid
    BY <2>1 DEF JobFits, Jobs, Instances, CidSteps, VmmSteps, BootSteps
  <2>4. job'[p].cid = None /\ \A q \in Procs \ {p} : job'[q].cid = job[q].cid
    BY <1>8 DEF LaunchInsert, TypeInv, TypeOK, Jobs
  <2>5. /\ inst' = [inst EXCEPT ![job[p].id] = n] /\ used' = used
        /\ leaked' = IF inst[job[p].id] = None THEN leaked
                     ELSE leaked \cup {inst[job[p].id].cid}
    BY <1>8 DEF LaunchInsert
  <2> HIDE DEF n
  <2>6. QED BY <2>2, <2>3, <2>4, <2>5, CidInserted
<1>9. CASE LaunchSave(p)
  <2>1. job' = [job EXCEPT ![p] = NoJob] /\ NoJob.cid = None
    BY <1>9 DEF LaunchSave, Finish, NoJob
  <2>2. QED BY <1>9, <2>1, CidlessMove DEF LaunchSave, CidSteps
<1>10. QED
  BY <1>1, <1>2, <1>3, <1>4, <1>5, <1>6, <1>7, <1>8, <1>9 DEF LaunchStep

LEMMA TerminateCids ==
  ASSUME TypeInv, CidInv, NEW p \in Procs,
         \/ \E id \in Ids : pc[p] \notin CidSteps /\ TerminateLocked(p, id)
         \/ TerminateStep(p)
  PROVE  CidInv'
<1>1. ASSUME NEW id \in Ids, pc[p] \notin CidSteps, TerminateLocked(p, id) PROVE CidInv'
  <2>1. job[p].cid = None
    BY <1>1, CidAtStep
  <2>2. job'[p].cid = inst[id].cid /\ \A q \in Procs \ {p} : job'[q].cid = job[q].cid
    <3> DEFINE j == [NoJob EXCEPT !.kind = "terminate", !.id = id,
                       !.cid = inst[id].cid, !.pid = inst[id].pid]
    <3>1. job' = [job EXCEPT ![p] = j] BY <1>1 DEF TerminateLocked
    <3>2. j.cid = inst[id].cid BY DEF NoJob
    <3> HIDE DEF j
    <3>3. QED BY <3>1, <3>2, OneJob
  <2>3. QED BY <1>1, <2>1, <2>2, CidDeleted DEF TerminateLocked
<1>2. CASE TerminateChosen(p)
  <2>1. job[p].id \in Ids
    BY <1>2 DEF TerminateChosen, TypeInv, JobOK, JobFits, LoopSteps
  <2>2. QED BY <1>1, <1>2, <2>1 DEF TerminateChosen, CidSteps
<1>3. CASE TerminateNotFound(p) \/ TerminateUnrecord(p)
  <2>1. job' = [job EXCEPT ![p] = NoJob] /\ NoJob.cid = None
    BY <1>3 DEF TerminateNotFound, TerminateUnrecord, Finish, NoJob
  <2>2. QED BY <1>3, <2>1, CidlessMove DEF TerminateNotFound, TerminateUnrecord, CidSteps
<1>4. CASE TerminateHalt(p)
  BY <1>4, CidsKept DEF TerminateHalt
<1>5. CASE TerminateReclaim(p)
  <2>1. job[p].cid # None
    BY <1>5, CidAtStep DEF TerminateReclaim, CidSteps
  <2>2. job'[p].cid = None /\ \A q \in Procs \ {p} : job'[q].cid = job[q].cid
    <3>1. job' = [job EXCEPT ![p].cid = None] BY <1>5 DEF TerminateReclaim
    <3>2. QED BY <3>1 DEF TypeInv, TypeOK, Jobs
  <2>3. QED BY <1>5, <2>1, <2>2, CidFreed DEF TerminateReclaim, Free
<1>6. QED
  BY <1>1, <1>2, <1>3, <1>4, <1>5 DEF TerminateStep

LEMMA StopCids ==
  ASSUME TypeInv, CidInv, NEW p \in Clients, StopLookup(p) \/ StopStep(p)
  PROVE  CidInv'
<1>. p \in Procs BY DEF Procs
<1>1. CASE StopLookup(p)
  <2>1. PICK id \in Ids : job' = [job EXCEPT ![p] = [NoJob EXCEPT !.kind = "stop", !.id = id,
                                                       !.pid = inst[id].pid]]
    BY <1>1 DEF StopLookup
  <2>2. [NoJob EXCEPT !.kind = "stop", !.id = id, !.pid = inst[id].pid].cid = None
    BY DEF NoJob
  <2>3. pc[p] \notin CidSteps /\ UNCHANGED <<inst, used, leaked>>
    BY <1>1 DEF StopLookup, MayStart, CidSteps
  <2>4. QED BY <2>1, <2>2, <2>3, CidlessMove
<1>2. CASE StopPause(p)
  BY <1>2, CidsKept DEF StopPause
<1>3. CASE StopCapture(p)
  <2>1. \A q \in Procs : job'[q].cid = job[q].cid
    <3>1. job' = [job EXCEPT ![p].pid = None] BY <1>3 DEF StopCapture
    <3>2. QED BY <3>1 DEF TypeInv, TypeOK, Jobs
  <2>2. QED BY <1>3, <2>1, CidsKept DEF StopCapture
<1>4. CASE StopFails(p)
  <2>1. job' = [job EXCEPT ![p] = NoJob] /\ NoJob.cid = None
    BY <1>4 DEF StopFails, Finish, NoJob
  <2>2. QED BY <1>4, <2>1, CidlessMove DEF StopFails, CidSteps
<1>5. QED BY <1>1, <1>2, <1>3, <1>4 DEF StopStep

LEMMA ReaperCids ==
  ASSUME TypeInv, CidInv, ReaperStep
  PROVE  CidInv'
<1>. Reaper \in Procs BY DEF Procs
<1>1. CASE ReapList \/ ReapDone
  BY <1>1, CidsKept DEF ReapList, ReapDone
<1>2. CASE ReapProbe
  <2>1. PICK e \in todo[Reaper] :
          \/ UNCHANGED <<pc, job>>
          \/ job' = [job EXCEPT ![Reaper] = [NoJob EXCEPT !.kind = "terminate", !.id = e[1]]]
    BY <1>2 DEF ReapProbe
  <2>2. [NoJob EXCEPT !.kind = "terminate", !.id = e[1]].cid = None
    BY DEF NoJob
  <2>3. pc[Reaper] \notin CidSteps /\ UNCHANGED <<inst, used, leaked>>
    BY <1>2 DEF ReapProbe, CidSteps
  <2>4. QED BY <2>1, <2>2, <2>3, CidlessMove, CidsKept
<1>3. CASE TerminateStep(Reaper)
  BY <1>3, TerminateCids
<1>4. QED BY <1>1, <1>2, <1>3 DEF ReaperStep

LEMMA NoCids ==
  ASSUME \A id \in Ids : inst[id] = None, \A p \in Procs : job[p].cid = None,
         used = {}, leaked = {}
  PROVE  CidInv
  BY DEF CidInv, CidsExclusive, CidsAccounted, Tracked

LEMMA DieCids ==
  ASSUME Die
  PROVE  CidInv'
  BY DEF Die, NoJob, CidInv, CidsExclusive, CidsAccounted, Tracked

LEMMA MainCids ==
  ASSUME TypeInv, CidInv, MainStep
  PROVE  CidInv'
<1>. Main \in Procs BY DEF Procs
<1>1. CASE Start \/ Serve \/ DrainList
  BY <1>1, CidsKept DEF Start, Serve, DrainList
<1>2. CASE ReconcileKill \/ DrainNext
  <2>1. PICK e \in todo[Main], k \in {"gc", "terminate"} :
          job' = [job EXCEPT ![Main] = [NoJob EXCEPT !.kind = k, !.id = e[1]]]
    BY <1>2 DEF ReconcileKill, DrainNext
  <2>2. [NoJob EXCEPT !.kind = k, !.id = e[1]].cid = None
    BY DEF NoJob
  <2>3. pc[Main] \notin CidSteps /\ UNCHANGED <<inst, used, leaked>>
    BY <1>2 DEF ReconcileKill, DrainNext, CidSteps
  <2>4. QED BY <2>1, <2>2, <2>3, CidlessMove
<1>3. CASE gcRecord
  <2>1. job' = [job EXCEPT ![Main] = NoJob] /\ NoJob.cid = None
    BY <1>3 DEF gcRecord, NoJob
  <2>2. QED BY <1>3, <2>1, CidlessMove DEF gcRecord, CidSteps
<1>4. CASE Exit
  BY <1>4, DieCids DEF Exit
<1>5. CASE TerminateStep(Main)
  BY <1>5, TerminateCids
<1>6. QED BY <1>1, <1>2, <1>3, <1>4, <1>5 DEF MainStep

LEMMA EnvironmentCids ==
  ASSUME TypeInv, CidInv, Environment
  PROVE  CidInv'
<1>1. ASSUME NEW q \in Pids, VmmExits(q) \/ PidReused(q) PROVE CidInv'
  BY <1>1, CidsKept DEF VmmExits, PidReused, volatile
<1>2. CASE Shutdown
  BY <1>2, CidsKept DEF Shutdown, volatile
<1>3. CASE Crash
  BY <1>3, DieCids DEF Crash
<1>4. QED BY <1>1, <1>2, <1>3 DEF Environment

LEMMA NextCids == TypeInv /\ CidInv /\ [Next]_vars => CidInv'
<1> SUFFICES ASSUME TypeInv, CidInv, [Next]_vars PROVE CidInv'
  OBVIOUS
<1>1. ASSUME NEW p \in Clients, Request(p) \/ ClientStep(p) PROVE CidInv'
  <2>1. p \in Procs BY DEF Procs
  <2>2. TerminateRequest(p) => \E id \in Ids : pc[p] \notin CidSteps /\ TerminateLocked(p, id)
    BY DEF TerminateRequest, MayStart, CidSteps
  <2>3. QED
    BY <1>1, <2>1, <2>2, LaunchCids, TerminateCids, StopCids DEF Request, ClientStep
<1>2. CASE UNCHANGED vars
  BY <1>2, CidsKept DEF vars, volatile
<1>3. QED
  BY <1>1, <1>2, ReaperCids, MainCids, EnvironmentCids DEF Next

LEMMA CidInvariant == Spec => []CidInv
<1>1. Init => CidInv
  BY NoCids DEF Init, InitVolatile, InitAllocator, NoJob
<1>2. QED
  BY <1>1, InitTypeInv, NextTypes, NextCids, PTL DEF Spec

\* No CID has two holders and no held CID is free to be handed out, in any
\* interleaving of launches, failures, terminations, reaping, crashes and restarts.
THEOREM CidsNeverShared == Spec => []CidsExclusive
<1>1. CidInv => CidsExclusive
  BY DEF CidInv
<1>2. QED BY <1>1, CidInvariant, PTL

\* No path loses a CID: the only CIDs out of circulation without a holder are those
\* of entries that a second launch of the same id replaced.
THEOREM CidsNeverLost == Spec => []CidsAccounted
<1>1. CidInv => CidsAccounted
  BY DEF CidInv
<1>2. QED BY <1>1, CidInvariant, PTL

-----------------------------------------------------------------------------
(* VMMs, host artefacts and records.                                        *)

Running(q) == vmm[q].st \in {"run", "paused"}

\* The steps at which a goroutine answers for the VMM it names.
OwnSteps == {"place", "insert", "halt"}

\* What NoStrayVmm says, with the goroutines that only look at a VMM left out.
Owned(q) ==
  \/ \E id \in Tracked : inst[id].pid = q
  \/ \E p \in Procs : job[p].pid = q /\ pc[p] \in OwnSteps
  \/ phase \in {"down", "reconciling"} /\ records[vmm[q].id] = q
  \/ q \in adrift
Held == \A q \in Pids : Running(q) => vmm[q].id \in Ids /\ Owned(q)

\* A goroutine without an operation has no locals, and before the server listens
\* only Reconcile runs and nothing is tracked.
Closed ==
  /\ \A p \in Procs : pc[p] \in LoopSteps => job[p] = NoJob
  /\ phase \in {"down", "reconciling"} => /\ \A p \in Procs \ {Main} : pc[p] = "idle"
                                          /\ Tracked = {}
  /\ phase = "down" => pc[Main] = "idle"
  /\ phase = "reconciling" <=> pc[Main] \in {"gc", "gcRecord"}

\* Reconcile has every VMM with a record still before it, and the record it is
\* about to remove names no VMM that runs.
Visits == phase = "reconciling" =>
  /\ \A e \in todo[Main] : /\ records[e[1]] = e[2]
                           /\ pc[Main] = "gcRecord" => e[1] # job[Main].id
  /\ \A q \in Pids : Running(q) /\ records[vmm[q].id] = q => <<vmm[q].id, q>> \in todo[Main]

StrayInv == Held /\ Closed /\ Visits

\* With one operation of the callers per id: only handlers launch, each has its id to
\* itself among them, and while an id is launched it is not tracked.  Unless the launch was
\* early, nobody is still ending a sandbox of that id; who ends one has removed its entry
\* before, and who saves a record saves that of the tracked instance.
EndSteps == {"halt", "reclaim", "unrecord"}
Alone == \A p \in Procs :
  /\ pc[p] \in BootSteps \cup {"save"} => p \in Clients
  /\ p \in Clients /\ job[p].id # None => \A q \in Clients \ {p} : job[q].id # job[p].id
  /\ pc[p] \in BootSteps => inst[job[p].id] = None
  /\ pc[p] \in BootSteps /\ job[p].id \notin early =>
       \A q \in Procs \ {p} : job[q].id = job[p].id => pc[q] \notin EndSteps
  /\ pc[p] \in EndSteps /\ job[p].id \notin early => inst[job[p].id] = None
  /\ pc[p] = "save" /\ inst[job[p].id] # None => inst[job[p].id].pid = job[p].pid

Capped(vs, q) == vs[q].st # "free" /\ (vs[q].st \in Live => vs[q].capped)

\* A launch past placeInCgroup has its VMM in the leaf, and so has what is tracked.
CapInv ==
  /\ \A p \in Procs : pc[p] = "insert" => Capped(vmm, job[p].pid)
  /\ \A id \in Tracked : Capped(vmm, inst[id].pid)

\* What a launch that was not early has made of its sandbox when it is at step s.
StageAt(hs, s, j) ==
  /\ s \in {"cgroup", "boot", "place", "insert"} => "state" \in hs[j.id]
  /\ s \in {"boot", "place", "insert"} => "leaf" \in hs[j.id]
  /\ s \in {"place", "insert"} => "chroot" \in hs[j.id]

Staged ==
  /\ \A p \in Procs : job[p].id \notin early => StageAt(host, pc[p], job[p])
  /\ \A id \in Tracked \ early : host[id] = Parts

\* A tracked sandbox has its record, or the launch is about to write it.
Recorded == "redis" \notin MayFail =>
  \A id \in Tracked \ early : \/ records[id] = inst[id].pid
                              \/ \E p \in Clients : pc[p] = "save" /\ job[p].id = id

Sole == Alone /\ Staged /\ Recorded

SoleInv == OnePerId => Sole

-----------------------------------------------------------------------------
(* StrayInv: no VMM is lost.                                                *)

Up == phase \in {"serving", "draining"}

\* A goroutine goes to step s with locals j, which are none if the step is a loop's.
Moves(p, s, j) == pc' = [pc EXCEPT ![p] = s] /\ job' = [job EXCEPT ![p] = j]
Rests(s, j) == s \notin {"gc", "gcRecord"} /\ (s \in LoopSteps => j = NoJob)

\* No VMM starts to run, and p, which goes to step s with locals j, lets go of none that does.
NoneStarts == \A q \in Pids : Running(q)' => Running(q) /\ vmm'[q].id = vmm[q].id
Keeps(p, s, j) == \A q \in Pids :
  pc[p] \in OwnSteps /\ job[p].pid = q /\ Running(q)' => s \in OwnSteps /\ j.pid = q

\* How a step of one goroutine looks to the others.
LEMMA OneMoves ==
  ASSUME TypeInv, NEW p \in Procs, NEW s, NEW j,
         Moves(p, s, j)
  PROVE  /\ pc'[p] = s /\ job'[p] = j
         /\ \A q \in Procs \ {p} : pc'[q] = pc[q] /\ job'[q] = job[q]
  BY DEF TypeInv, TypeOK, Moves

\* A goroutine with an operation in progress: the server listens, or did.
LEMMA BusyIsUp ==
  ASSUME TypeInv, Closed, NEW p \in Procs, pc[p] \notin {"idle", "gc", "gcRecord"}
  PROVE  Up
  BY DEF TypeInv, TypeOK, Closed, Up

\* A step of a goroutine while the server listens.
LEMMA UpMove ==
  ASSUME TypeInv, Closed, Up, phase' = phase, NEW p \in Procs, NEW s, NEW j,
         Moves(p, s, j),
         Rests(s, j)
  PROVE  Closed' /\ Visits'
<1>0. /\ pc'[p] = s /\ job'[p] = j
      /\ \A q \in Procs \ {p} : pc'[q] = pc[q] /\ job'[q] = job[q]
  BY OneMoves
<1>1. Main \in Procs BY DEF Procs
<1>2. pc[Main] \notin {"gc", "gcRecord"}
  BY DEF Closed, Up
<1>3. pc'[Main] \notin {"gc", "gcRecord"}
  BY <1>0, <1>1, <1>2 DEF Rests
<1>4. \A q \in Procs : pc'[q] \in LoopSteps => job'[q] = NoJob
  BY <1>0 DEF Closed, Rests
<1>5. QED
  BY <1>3, <1>4 DEF Closed, Visits, Up

\* Nothing starts to run, no entry changes, and the goroutine that moves lets go of
\* no VMM that runs.
LEMMA HeldKept ==
  ASSUME TypeInv, Held, Up, phase' = phase, NEW p \in Procs, NEW s, NEW j,
         Moves(p, s, j),
         UNCHANGED <<inst, adrift>>, NoneStarts,
         Keeps(p, s, j)
  PROVE  Held'
<1>0. /\ pc'[p] = s /\ job'[p] = j
      /\ \A q \in Procs \ {p} : pc'[q] = pc[q] /\ job'[q] = job[q]
  BY OneMoves
<1>1. SUFFICES ASSUME NEW q \in Pids, Running(q)'
               PROVE  \/ \E id \in Tracked' : inst'[id].pid = q
                      \/ \E r \in Procs : job'[r].pid = q /\ pc'[r] \in OwnSteps
                      \/ q \in adrift'
  BY DEF Held, Owned, Running, NoneStarts
<1>2. CASE \E id \in Tracked : inst[id].pid = q
  BY <1>2 DEF Tracked
<1>3. CASE \E r \in Procs : job[r].pid = q /\ pc[r] \in OwnSteps
  <2>1. PICK r \in Procs : job[r].pid = q /\ pc[r] \in OwnSteps BY <1>3
  <2>2. CASE r = p 
    BY <1>0, <1>1, <2>1, <2>2 DEF Running, Keeps
  <2>3. CASE r # p BY <1>0, <2>1, <2>3
  <2>4. QED BY <2>2, <2>3
<1>4. QED
  BY <1>1, <1>2, <1>3 DEF Held, Owned, Up, NoneStarts

LEMMA StrayKept ==
  ASSUME TypeInv, StrayInv, Up, phase' = phase, NEW p \in Procs, NEW s, NEW j,
         Moves(p, s, j),
         Rests(s, j),
         UNCHANGED <<inst, adrift>>, NoneStarts,
         Keeps(p, s, j)
  PROVE  StrayInv'
<1>1. Held'
  BY HeldKept DEF StrayInv
<1>2. QED
  BY <1>1, UpMove DEF StrayInv

\* The same for a goroutine that keeps its locals.
LEMMA StrayGoto ==
  ASSUME TypeInv, StrayInv, Up, phase' = phase, NEW p \in Procs, NEW s,
         Goto(p, s), UNCHANGED job, Rests(s, job[p]),
         UNCHANGED <<inst, adrift>>, NoneStarts,
         Keeps(p, s, job[p])
  PROVE  StrayInv'
<1>1. Moves(p, s, job[p])
  BY DEF TypeInv, TypeOK, Goto, Moves
<1>2. QED
  BY <1>1, StrayKept

\* The same for one that is done.
LEMMA StrayFinish ==
  ASSUME TypeInv, StrayInv, Up, phase' = phase, NEW p \in Procs, Finish(p),
         UNCHANGED <<inst, adrift>>, NoneStarts,
         \A q \in Pids : pc[p] \in OwnSteps /\ job[p].pid = q => ~Running(q)'
  PROVE  StrayInv'
<1>1. Moves(p, Return(p), NoJob) /\ Rests(Return(p), NoJob)
  BY DEF Return, Finish, Goto, Moves, Rests
<1>2. Keeps(p, Return(p), NoJob)
  BY DEF Keeps
<1>3. QED
  BY <1>1, <1>2, StrayKept

LEMMA StopStops ==
  ASSUME TypeInv, NEW q \in Pids, vmm' = StopVMM(vmm, q)
  PROVE  ~Running(q)' /\ NoneStarts
<1>1. vmm \in [Pids -> Vmms]
  BY DEF TypeInv, TypeOK
<1>2. CASE vmm[q].st \in {"run", "paused"}
  <2>1. vmm' = [vmm EXCEPT ![q].st = "stopping"]
    BY <1>2 DEF StopVMM
  <2>2. vmm'[q].st = "stopping" /\ \A r \in Pids \ {q} : vmm'[r] = vmm[r]
    BY <1>1, <2>1 DEF Vmms
  <2>3. QED BY <2>2 DEF Running, NoneStarts
<1>3. CASE vmm[q].st \notin {"run", "paused"}
  BY <1>3 DEF StopVMM, Running, NoneStarts
<1>4. QED BY <1>2, <1>3

\* A VMM that no longer runs, or is left as it was.
LEMMA OneVmm ==
  ASSUME TypeInv, NEW q \in Pids, NEW v, vmm' = [vmm EXCEPT ![q] = v]
  PROVE  vmm'[q] = v /\ \A r \in Pids \ {q} : vmm'[r] = vmm[r]
  BY DEF TypeInv, TypeOK

LEMMA LaunchStray ==
  ASSUME TypeInv, StrayInv, NEW p \in Clients, LaunchAdmit(p) \/ LaunchStep(p)
  PROVE  StrayInv'
<1>. p \in Procs BY DEF Procs
<1>0. Closed /\ job[p] \in Jobs /\ JobFits(pc[p], job[p]) /\ vmm \in [Pids -> Vmms]
  BY DEF StrayInv, TypeInv, TypeOK, JobOK
<1>a. ASSUME pc[p] \notin {"idle", "gc", "gcRecord"} PROVE Up
  BY <1>0, <1>a, BusyIsUp
\* Clean up after the VMM, if any, was told to stop.
<1>b. ASSUME Up, NEW vs, Cleanup(p, vs), NoneStarts,
             \A q \in Pids : pc[p] \in OwnSteps /\ job[p].pid = q => ~Running(q)'
      PROVE  StrayInv'
  BY <1>b, StrayFinish DEF Cleanup
<1>1. CASE LaunchAdmit(p)
  <2>1. PICK id \in Ids, mem \in Mems, kind \in Kinds :
          job' = [job EXCEPT ![p] = [NoJob EXCEPT !.kind = kind, !.id = id, !.mem = mem]]
    BY <1>1 DEF LaunchAdmit
  <2>2. /\ Up /\ UNCHANGED <<phase, inst, adrift, vmm>> /\ pc[p] \notin OwnSteps
        /\ Goto(p, "alloc")
    BY <1>1 DEF LaunchAdmit, MayStart, Up, OwnSteps
  <2> DEFINE j == [NoJob EXCEPT !.kind = kind, !.id = id, !.mem = mem]
  <2>3. Moves(p, "alloc", j) BY <2>1, <2>2 DEF Moves, Goto
  <2>4. Rests("alloc", j) /\ NoneStarts /\ Keeps(p, "alloc", j)
    BY <2>2 DEF Rests, LoopSteps, NoneStarts, Keeps, Running
  <2> HIDE DEF j
  <2>5. QED BY <2>2, <2>3, <2>4, StrayKept
<1>2. CASE LaunchAlloc(p)
  <2>1. Up /\ UNCHANGED <<phase, inst, adrift, vmm>> /\ pc[p] \notin OwnSteps
    BY <1>2, <1>a DEF LaunchAlloc, OwnSteps
  <2>2. ASSUME NEW c \in CIDs, Goto(p, "build"), job' = [job EXCEPT ![p].cid = c]
        PROVE  StrayInv'
    <3> DEFINE j == [job[p] EXCEPT !.cid = c]
    <3>1. Moves(p, "build", j) BY <2>2 DEF Moves, Goto
    <3>2. Rests("build", j) /\ NoneStarts /\ Keeps(p, "build", j)
      BY <2>1 DEF Rests, LoopSteps, NoneStarts, Keeps, Running
    <3> HIDE DEF j
    <3>3. QED BY <2>1, <3>1, <3>2, StrayKept
  <2>3. CASE Finish(p)
    BY <2>1, <2>3, StrayFinish DEF Running, NoneStarts
  <2>4. QED BY <1>2, <2>2, <2>3 DEF LaunchAlloc
<1>3. CASE LaunchBuild(p) \/ LaunchCgroup(p)
  <2>1. /\ pc[p] \in {"build", "cgroup"} /\ UNCHANGED <<phase, inst, adrift, vmm, job>>
        /\ Goto(p, "cgroup") \/ Goto(p, "boot")
    BY <1>3 DEF LaunchBuild, LaunchCgroup
  <2>2. NoneStarts /\ \A s \in {"cgroup", "boot"} : Rests(s, job[p]) /\ Keeps(p, s, job[p])
    BY <2>1 DEF Rests, LoopSteps, NoneStarts, Keeps, Running, OwnSteps
  <2>3. QED BY <2>1, <2>2, <1>a, StrayGoto
<1>4. CASE LaunchBuildFails(p) \/ LaunchCgroupFails(p)
  <2>1. /\ pc[p] \in {"build", "cgroup"} /\ UNCHANGED <<phase, inst, adrift, vmm>>
        /\ Finish(p)
    BY <1>4 DEF LaunchBuildFails, LaunchCgroupFails
  <2>2. QED BY <2>1, <1>a, StrayFinish DEF Running, OwnSteps, NoneStarts
<1>5. CASE LaunchBoot(p)
  <2>1. PICK q \in FreePids :
          /\ vmm' = [vmm EXCEPT ![q] = [NoVmm EXCEPT !.st = "run", !.id = job[p].id]]
          /\ job' = [job EXCEPT ![p].pid = q]
    BY <1>5 DEF LaunchBoot
  <2>2. /\ pc[p] = "boot" /\ UNCHANGED <<phase, inst, adrift>> /\ Up
        /\ Goto(p, "place")
    BY <1>5, <1>a DEF LaunchBoot
  <2> DEFINE j == [job[p] EXCEPT !.pid = q]
  <2>3. Moves(p, "place", j) /\ Rests("place", j) /\ j.pid = q /\ q \in Pids
    BY <1>0, <2>1, <2>2 DEF Jobs, FreePids, Moves, Goto, Rests, LoopSteps
  <2> HIDE DEF j
  <2>4. Closed' /\ Visits'
    BY <1>0, <2>2, <2>3, UpMove
  <2>5. \A r \in Pids \ {q} : vmm'[r] = vmm[r]
    BY <1>0, <2>1, <2>3
  <2>6. /\ pc'[p] = "place" /\ job'[p] = j
        /\ \A r \in Procs \ {p} : pc'[r] = pc[r] /\ job'[r] = job[r]
    BY <2>2, <2>3, OneMoves
  <2>7. \A v \in Pids : Running(v)' => vmm'[v].id \in Ids
    <3>1. vmm'[q].id = job[p].id /\ job[p].id \in Ids
      BY <1>0, <2>1, <2>2, <2>3 DEF NoVmm, JobFits, LoopSteps
    <3>2. QED BY <2>5, <3>1 DEF StrayInv, Held, Running
  <2>8. Held'
    <3>1. SUFFICES ASSUME NEW v \in Pids, Running(v)'
                   PROVE  \/ \E id \in Tracked' : inst'[id].pid = v
                          \/ \E r \in Procs : job'[r].pid = v /\ pc'[r] \in OwnSteps
                          \/ v \in adrift'
      BY <2>7 DEF Held, Owned
    <3>2. CASE v = q BY <2>3, <2>6, <3>2 DEF OwnSteps
    <3>3. CASE v # q
      BY <2>2, <2>5, <2>6, <3>1, <3>3 DEF StrayInv, Held, Owned, Running, Tracked, OwnSteps, Up
    <3>4. QED BY <3>2, <3>3
  <2>9. QED BY <2>4, <2>8 DEF StrayInv
<1>6. CASE LaunchBootFails(p)
  <2>1. pc[p] \notin OwnSteps /\ Up
    BY <1>6, <1>a DEF LaunchBootFails, OwnSteps
  <2>2. CASE Cleanup(p, vmm)
    BY <1>b, <2>1, <2>2 DEF Cleanup, Running, NoneStarts
  <2>3. ASSUME NEW q \in FreePids, NEW v, v.st = "stopping", Cleanup(p, [vmm EXCEPT ![q] = v])
        PROVE  StrayInv'
    <3>1. q \in Pids BY DEF FreePids
    <3>2. vmm'[q] = v /\ \A r \in Pids \ {q} : vmm'[r] = vmm[r]
      BY <1>0, <2>3, <3>1 DEF Cleanup
    <3>3. NoneStarts
      BY <2>3, <3>2 DEF Running, NoneStarts
    <3>4. QED BY <1>b, <2>1, <2>3, <3>3
  <2>4. [NoVmm EXCEPT !.st = "stopping", !.id = job[p].id].st = "stopping"
    BY DEF NoVmm
  <2>5. QED BY <1>6, <2>2, <2>3, <2>4 DEF LaunchBootFails
<1>7. CASE LaunchPlace(p)
  <2>1. /\ pc[p] = "place" /\ UNCHANGED <<phase, inst, adrift, job>> /\ Goto(p, "insert")
        /\ vmm' = [vmm EXCEPT ![job[p].pid].capped = TRUE]
    BY <1>7 DEF LaunchPlace
  <2>2. \A q \in Pids : vmm'[q].st = vmm[q].st
    BY <1>0, <2>1 DEF Vmms
  <2>3. NoneStarts /\ Rests("insert", job[p]) /\ Keeps(p, "insert", job[p])
    BY <2>1, <2>2 DEF Rests, LoopSteps, NoneStarts, Keeps, Running, OwnSteps
  <2>4. QED BY <2>1, <2>3, <1>a, StrayGoto
<1>8. CASE LaunchPlaceFails(p) \/ RekeyFails(p)
  <2>1. pc[p] \in {"place", "insert"} /\ Cleanup(p, StopVMM(vmm, job[p].pid))
    BY <1>8 DEF LaunchPlaceFails, RekeyFails
  <2> DEFINE q == job[p].pid
  <2>2. q \in Pids /\ vmm' = StopVMM(vmm, q)
    BY <1>0, <2>1 DEF JobFits, VmmSteps, Cleanup
  <2>3. NoneStarts /\ \A r \in Pids : r = q => ~Running(r)'
    <3> HIDE DEF q
    <3>1. QED BY <2>2, StopStops DEF Running
  <2>4. QED BY <1>a, <1>b, <2>1, <2>3
<1>9. CASE LaunchInsert(p)
  <2> DEFINE i == job[p].id
             n == [cid |-> job[p].cid, pid |-> job[p].pid, mem |-> job[p].mem]
             j == [job[p] EXCEPT !.cid = None]
  <2>1. /\ pc[p] = "insert" /\ Up /\ UNCHANGED <<phase, vmm>> /\ i \in Ids
        /\ Moves(p, "save", j) /\ Rests("save", j)
    BY <1>0, <1>9, <1>a DEF LaunchInsert, Goto, JobFits, LoopSteps, Moves, Rests
  <2>2. /\ inst' = [inst EXCEPT ![i] = n] /\ adrift \subseteq adrift'
        /\ inst[i] # None => inst[i].pid \in adrift'
    BY <1>9 DEF LaunchInsert
  <2>3. n # None /\ n.pid = job[p].pid
    <3>1. n \in Instances
      BY <1>0, <2>1 DEF JobFits, Jobs, Instances, CidSteps, VmmSteps, BootSteps
    <3>2. QED BY <3>1, NoneAssumption DEF Instances
  <2> HIDE DEF i, n, j
  <2>4. Closed' /\ Visits'
    BY <1>0, <2>1, UpMove
  <2>5. \A r \in Procs \ {p} : pc'[r] = pc[r] /\ job'[r] = job[r]
    BY <2>1, OneMoves
  <2>6. i \in Tracked' /\ inst'[i] = n /\ \A k \in Ids \ {i} : inst'[k] = inst[k]
    BY <2>1, <2>2, <2>3 DEF TypeInv, TypeOK, Tracked
  <2>7. Held'
    <3>1. SUFFICES ASSUME NEW v \in Pids, Running(v)'
                   PROVE  \/ \E id \in Tracked' : inst'[id].pid = v
                          \/ \E r \in Procs : job'[r].pid = v /\ pc'[r] \in OwnSteps
                          \/ v \in adrift'
      BY <2>1 DEF StrayInv, Held, Owned, Running
    <3>2. Running(v)
      BY <2>1, <3>1 DEF Running
    <3>3. CASE v = job[p].pid BY <2>3, <2>6, <3>3
    <3>4. CASE \E k \in Tracked : inst[k].pid = v
      <4>1. PICK k \in Tracked : inst[k].pid = v BY <3>4
      <4>2. CASE k = i BY <2>2, <4>1, <4>2 DEF Tracked
      <4>3. CASE k # i BY <2>6, <4>1, <4>3 DEF Tracked
      <4>4. QED BY <4>2, <4>3
    <3>5. CASE v # job[p].pid /\ \E r \in Procs : job[r].pid = v /\ pc[r] \in OwnSteps
      <4>1. PICK r \in Procs : job[r].pid = v /\ pc[r] \in OwnSteps BY <3>5
      <4>2. QED BY <2>5, <3>5, <4>1
    <3>6. CASE v \in adrift BY <2>2, <3>6
    <3>7. QED BY <2>1, <3>2, <3>3, <3>4, <3>5, <3>6 DEF StrayInv, Held, Owned, Up
  <2>8. QED BY <2>4, <2>7 DEF StrayInv
<1>10. CASE LaunchSave(p)
  <2>1. /\ pc[p] = "save" /\ UNCHANGED <<phase, inst, adrift, vmm>> /\ Finish(p)
    BY <1>10 DEF LaunchSave
  <2>2. QED BY <2>1, <1>a, StrayFinish DEF Running, OwnSteps, NoneStarts
<1>11. QED
  BY <1>1, <1>2, <1>3, <1>4, <1>5, <1>6, <1>7, <1>8, <1>9, <1>10 DEF LaunchStep

LEMMA TerminateStray ==
  ASSUME TypeInv, StrayInv, NEW p \in Procs,
         \/ \E id \in Ids : Up /\ pc[p] \notin OwnSteps /\ TerminateLocked(p, id)
         \/ TerminateStep(p)
  PROVE  StrayInv'
<1>0. Closed /\ job[p] \in Jobs /\ JobFits(pc[p], job[p])
  BY DEF StrayInv, TypeInv, TypeOK, JobOK
<1>a. ASSUME pc[p] \notin {"idle", "gc", "gcRecord"} PROVE Up
  BY <1>0, <1>a, BusyIsUp
<1>1. ASSUME NEW id \in Ids, Up, pc[p] \notin OwnSteps, TerminateLocked(p, id)
      PROVE  StrayInv'
  <2> DEFINE j == [NoJob EXCEPT !.kind = "terminate", !.id = id,
                     !.cid = inst[id].cid, !.pid = inst[id].pid]
  <2>1. /\ Moves(p, "halt", j) /\ Rests("halt", j) /\ j.pid = inst[id].pid
        /\ inst' = [inst EXCEPT ![id] = None] /\ UNCHANGED <<phase, vmm, adrift>>
    BY <1>1 DEF TerminateLocked, Moves, Rests, Goto, NoJob, LoopSteps
  <2> HIDE DEF j
  <2>2. Closed' /\ Visits'
    BY <1>0, <1>1, <2>1, UpMove
  <2>3. /\ pc'[p] = "halt" /\ job'[p] = j
        /\ \A r \in Procs \ {p} : pc'[r] = pc[r] /\ job'[r] = job[r]
    BY <2>1, OneMoves
  <2>4. \A k \in Ids \ {id} : inst'[k] = inst[k]
    BY <2>1 DEF TypeInv, TypeOK
  <2>5. Held'
    <3>1. SUFFICES ASSUME NEW v \in Pids, Running(v)'
                   PROVE  \/ \E k \in Tracked' : inst'[k].pid = v
                          \/ \E r \in Procs : job'[r].pid = v /\ pc'[r] \in OwnSteps
                          \/ v \in adrift'
      BY <2>1 DEF StrayInv, Held, Owned, Running
    <3>2. Running(v)
      BY <2>1, <3>1 DEF Running
    <3>3. CASE v = inst[id].pid
      BY <2>1, <2>3, <3>3 DEF OwnSteps
    <3>4. CASE v # inst[id].pid /\ \E k \in Tracked : inst[k].pid = v
      BY <2>4, <3>4 DEF Tracked
    <3>5. CASE \E r \in Procs : job[r].pid = v /\ pc[r] \in OwnSteps
      BY <1>1, <2>3, <3>5
    <3>6. QED BY <1>1, <2>1, <3>2, <3>3, <3>4, <3>5 DEF StrayInv, Held, Owned, Up
  <2>6. QED BY <2>2, <2>5 DEF StrayInv
<1>2. CASE TerminateChosen(p)
  <2>1. job[p].id \in Ids /\ Up /\ pc[p] \notin OwnSteps
    BY <1>0, <1>2, <1>a DEF TerminateChosen, JobFits, LoopSteps, OwnSteps
  <2>2. QED BY <1>1, <1>2, <2>1 DEF TerminateChosen
<1>3. CASE TerminateNotFound(p) \/ TerminateUnrecord(p)
  <2>1. /\ pc[p] \in {"term", "unrecord"} /\ UNCHANGED <<phase, inst, adrift, vmm>>
        /\ Finish(p)
    BY <1>3 DEF TerminateNotFound, TerminateUnrecord
  <2>2. QED BY <2>1, <1>a, StrayFinish DEF Running, OwnSteps, NoneStarts
<1>4. CASE TerminateHalt(p)
  <2> DEFINE q == job[p].pid
  <2>1. /\ pc[p] = "halt" /\ UNCHANGED <<phase, inst, adrift, job>>
        /\ Goto(p, "reclaim") /\ vmm' = StopVMM(vmm, q) /\ q \in Pids
    BY <1>0, <1>4 DEF TerminateHalt, JobFits, VmmSteps
  <2>2. NoneStarts /\ \A r \in Pids : r = q => ~Running(r)'
    <3> HIDE DEF q
    <3>1. QED BY <2>1, StopStops DEF Running
  <2>3. Rests("reclaim", job[p]) /\ Keeps(p, "reclaim", job[p])
    BY <2>2 DEF Rests, LoopSteps, Keeps
  <2>4. QED BY <2>1, <2>2, <2>3, <1>a, StrayGoto
<1>5. CASE TerminateReclaim(p)
  <2> DEFINE j == [job[p] EXCEPT !.cid = None]
  <2>1. /\ pc[p] = "reclaim" /\ UNCHANGED <<phase, inst, adrift, vmm>>
        /\ Moves(p, "unrecord", j)
    BY <1>5 DEF TerminateReclaim, Moves, Goto
  <2>2. Rests("unrecord", j) /\ NoneStarts /\ Keeps(p, "unrecord", j)
    BY <2>1 DEF Rests, LoopSteps, NoneStarts, Keeps, Running, OwnSteps
  <2> HIDE DEF j
  <2>3. QED BY <2>1, <2>2, <1>a, StrayKept
<1>6. QED
  BY <1>1, <1>2, <1>3, <1>4, <1>5 DEF TerminateStep

LEMMA StopStray ==
  ASSUME TypeInv, StrayInv, NEW p \in Clients, StopLookup(p) \/ StopStep(p)
  PROVE  StrayInv'
<1>. p \in Procs BY DEF Procs
<1>0. Closed /\ job[p] \in Jobs /\ JobFits(pc[p], job[p]) /\ vmm \in [Pids -> Vmms]
  BY DEF StrayInv, TypeInv, TypeOK, JobOK
<1>a. ASSUME pc[p] \notin {"idle", "gc", "gcRecord"} PROVE Up
  BY <1>0, <1>a, BusyIsUp
<1>1. CASE StopLookup(p)
  <2>1. PICK id \in Ids : job' = [job EXCEPT ![p] = [NoJob EXCEPT !.kind = "stop", !.id = id,
                                                       !.pid = inst[id].pid]]
    BY <1>1 DEF StopLookup
  <2> DEFINE j == [NoJob EXCEPT !.kind = "stop", !.id = id, !.pid = inst[id].pid]
  <2>2. /\ Up /\ UNCHANGED <<phase, inst, adrift, vmm>> /\ pc[p] \notin OwnSteps
        /\ Moves(p, "pause", j)
    BY <1>1, <2>1 DEF StopLookup, MayStart, Goto, Up, OwnSteps, Moves
  <2>3. Rests("pause", j) /\ NoneStarts /\ Keeps(p, "pause", j)
    BY <2>2 DEF Rests, LoopSteps, NoneStarts, Keeps, Running
  <2> HIDE DEF j
  <2>4. QED BY <2>2, <2>3, StrayKept
<1>2. CASE StopPause(p)
  <2>1. /\ pc[p] = "pause" /\ UNCHANGED <<phase, inst, adrift, job>> /\ Goto(p, "capture")
        /\ CanPause(p) /\ vmm' = [vmm EXCEPT ![job[p].pid].st = "paused"]
    BY <1>2 DEF StopPause
  <2>2. NoneStarts
    BY <1>0, <2>1 DEF CanPause, Vmms, NoneStarts, Running
  <2>3. Rests("capture", job[p]) /\ Keeps(p, "capture", job[p])
    BY <2>1 DEF Rests, LoopSteps, Keeps, OwnSteps
  <2>4. QED BY <2>1, <2>2, <2>3, <1>a, StrayGoto
<1>3. CASE StopCapture(p)
  <2> DEFINE j == [job[p] EXCEPT !.pid = None]
  <2>1. /\ pc[p] = "capture" /\ UNCHANGED <<phase, inst, adrift, vmm>>
        /\ Moves(p, "term", j)
    BY <1>3 DEF StopCapture, Moves, Goto
  <2>2. Rests("term", j) /\ NoneStarts /\ Keeps(p, "term", j)
    BY <2>1 DEF Rests, LoopSteps, NoneStarts, Keeps, Running, OwnSteps
  <2> HIDE DEF j
  <2>3. QED BY <2>1, <2>2, <1>a, StrayKept
<1>4. CASE StopFails(p)
  <2>1. /\ pc[p] \in {"pause", "capture"} /\ UNCHANGED <<phase, inst, adrift, vmm>>
        /\ Finish(p)
    BY <1>4 DEF StopFails
  <2>2. QED BY <2>1, <1>a, StrayFinish DEF Running, OwnSteps, NoneStarts
<1>5. QED BY <1>1, <1>2, <1>3, <1>4 DEF StopStep

LEMMA ReaperStray ==
  ASSUME TypeInv, StrayInv, ReaperStep
  PROVE  StrayInv'
<1>. Reaper \in Procs BY DEF Procs
<1>0. Closed BY DEF StrayInv
<1>a. ASSUME pc[Reaper] \notin {"idle", "gc", "gcRecord"} PROVE Up
  BY <1>0, <1>a, BusyIsUp
<1>1. CASE ReapList \/ ReapDone
  <2>1. /\ Up /\ pc[Reaper] \in {"idle", "reap"} /\ UNCHANGED <<phase, inst, adrift, vmm, job>>
        /\ Goto(Reaper, "reap") \/ Goto(Reaper, "idle")
    BY <1>1, <1>a DEF ReapList, ReapDone, Up
  <2>2. /\ job[Reaper] = NoJob /\ NoneStarts
        /\ \A s \in {"reap", "idle"} : Rests(s, job[Reaper]) /\ Keeps(Reaper, s, job[Reaper])
    BY <1>0, <2>1 DEF Closed, Rests, LoopSteps, NoneStarts, Keeps, Running, OwnSteps
  <2>3. QED BY <2>1, <2>2, StrayGoto
<1>2. CASE ReapProbe
  <2>1. PICK e \in todo[Reaper] :
          IF processAlive(e[2])
          THEN UNCHANGED <<pc, job>>
          ELSE /\ Goto(Reaper, "term")
               /\ job' = [job EXCEPT ![Reaper] = [NoJob EXCEPT !.kind = "terminate", !.id = e[1]]]
    BY <1>2 DEF ReapProbe
  <2>2. pc[Reaper] = "reap" /\ Up /\ UNCHANGED <<phase, inst, adrift, vmm>>
    BY <1>2, <1>a DEF ReapProbe
  <2>3. CASE UNCHANGED <<pc, job>>
    <3>1. Goto(Reaper, "reap") /\ UNCHANGED job
      BY <2>2, <2>3 DEF Goto, TypeInv, TypeOK
    <3>2. NoneStarts /\ Rests("reap", job[Reaper]) /\ Keeps(Reaper, "reap", job[Reaper])
      BY <1>0, <2>2 DEF Closed, Rests, LoopSteps, NoneStarts, Keeps, Running, OwnSteps
    <3>3. QED BY <2>2, <3>1, <3>2, StrayGoto
  <2>4. CASE ~processAlive(e[2])
    <3> DEFINE j == [NoJob EXCEPT !.kind = "terminate", !.id = e[1]]
    <3>1. Moves(Reaper, "term", j)
      BY <2>1, <2>4 DEF Moves, Goto
    <3>2. Rests("term", j) /\ NoneStarts /\ Keeps(Reaper, "term", j)
      BY <2>2 DEF Rests, LoopSteps, NoneStarts, Keeps, Running, OwnSteps
    <3> HIDE DEF j
    <3>3. QED BY <2>2, <3>1, <3>2, StrayKept
  <2>5. QED BY <2>1, <2>3, <2>4
<1>3. CASE TerminateStep(Reaper)
  BY <1>3, TerminateStray
<1>4. QED BY <1>1, <1>2, <1>3 DEF ReaperStep

\* A VMM that runs when the control plane dies has a record or is adrift.
LEMMA DieStray ==
  ASSUME StrayInv, Die
  PROVE  StrayInv'
<1>1. Held'
  BY DEF StrayInv, Die, Held, Owned, Running
<1>2. Closed' /\ Visits'
  BY DEF Die, Closed, Visits, Tracked, Procs
<1>3. QED BY <1>1, <1>2 DEF StrayInv

\* While Reconcile runs, no VMM is reached but by its record.
LEMMA ReconcilingHolds ==
  ASSUME TypeInv, StrayInv, phase \in {"down", "reconciling"}
  PROVE  /\ inst = [id \in Ids |-> None]
         /\ \A p \in Procs : pc[p] \notin OwnSteps
         /\ \A q \in Pids : Running(q) => records[vmm[q].id] = q \/ q \in adrift
<1>1. \A p \in Procs : pc[p] \in {"idle", "gc", "gcRecord"}
  BY DEF StrayInv, Closed
<1>2. inst = [id \in Ids |-> None]
  BY DEF StrayInv, Closed, Tracked, TypeInv, TypeOK
<1>3. QED
  BY <1>1, <1>2 DEF StrayInv, Held, Owned, Closed, OwnSteps

LEMMA ReconcileStray ==
  ASSUME TypeInv, StrayInv, Start \/ ReconcileKill \/ gcRecord \/ Serve
  PROVE  StrayInv'
<1>. Main \in Procs BY DEF Procs
<1>0. /\ Closed /\ Visits /\ vmm \in [Pids -> Vmms] /\ records \in [Ids -> Pids \cup {None}]
      /\ todo \in [{Reaper, Main} -> SUBSET (Ids \X Pids)]
  BY DEF StrayInv, TypeInv, TypeOK
<1>1. CASE Start
  <2>1. /\ phase = "down" /\ phase' = "reconciling" /\ UNCHANGED <<inst, job, vmm, records, adrift>>
        /\ Moves(Main, "gc", job[Main]) /\ todo'[Main] = All
    BY <1>0, <1>1 DEF Start, Moves, Goto, TypeInv, TypeOK
  <2>2. pc'[Main] = "gc" /\ \A p \in Procs \ {Main} : pc'[p] = pc[p]
    BY <2>1, OneMoves
  <2>3. Closed'
    BY <1>0, <2>1, <2>2 DEF Closed, Tracked, LoopSteps
  <2>4. Held'
    BY <2>1, ReconcilingHolds DEF StrayInv, Held, Owned, Running
  <2>5. \A e \in All : records[e[1]] = e[2]
    BY DEF All
  <2>6. \A q \in Pids : Running(q) /\ records[vmm[q].id] = q => <<vmm[q].id, q>> \in All
    <3>1. SUFFICES ASSUME NEW q \in Pids, Running(q), records[vmm[q].id] = q
                   PROVE  <<vmm[q].id, q>> \in All
      OBVIOUS
    <3>2. vmm[q].id \in Ids
      BY <3>1 DEF StrayInv, Held
    <3>3. QED BY <3>1, <3>2, NoneAssumption DEF All
  <2>7. QED
    BY <2>1, <2>2, <2>3, <2>4, <2>5, <2>6 DEF StrayInv, Visits, Running
<1>2. CASE ReconcileKill
  <2>1. PICK e \in todo[Main] :
          /\ IF processAlive(e[2])
             THEN \E st \in {"gone", "stopping"} :
                    vmm' = [vmm EXCEPT ![e[2]] =
                              IF st = "gone" \/ @.st = "foreign"
                              THEN [NoVmm EXCEPT !.st = "gone"]
                              ELSE [@ EXCEPT !.st = "stopping"]]
             ELSE UNCHANGED vmm
          /\ todo' = [todo EXCEPT ![Main] = @ \ {e}]
          /\ job' = [job EXCEPT ![Main] = [NoJob EXCEPT !.kind = "gc", !.id = e[1]]]
    BY <1>2 DEF ReconcileKill
  <2> DEFINE j == [NoJob EXCEPT !.kind = "gc", !.id = e[1]]
  <2>2. /\ phase = "reconciling" /\ UNCHANGED <<phase, inst, records, adrift>>
        /\ Moves(Main, "gcRecord", j) /\ j.id = e[1] /\ e \in Ids \X Pids
        /\ todo'[Main] = todo[Main] \ {e}
    BY <1>0, <1>2, <2>1 DEF ReconcileKill, Moves, Goto, Closed, NoJob
  <2> HIDE DEF j
  <2>3. /\ pc'[Main] = "gcRecord" /\ job'[Main] = j
        /\ \A p \in Procs \ {Main} : pc'[p] = pc[p] /\ job'[p] = job[p]
    BY <2>2, OneMoves
  <2>4. vmm'[e[2]].st \notin {"run", "paused"} /\ \A r \in Pids \ {e[2]} : vmm'[r] = vmm[r]
    <3>1. CASE processAlive(e[2])
      <4>1. PICK st \in {"gone", "stopping"} :
              vmm' = [vmm EXCEPT ![e[2]] =
                        IF st = "gone" \/ @.st = "foreign"
                        THEN [NoVmm EXCEPT !.st = "gone"]
                        ELSE [@ EXCEPT !.st = "stopping"]]
        BY <2>1, <3>1
      <4>2. e[2] \in Pids /\ vmm[e[2]] \in Vmms
        BY <1>0, <2>2
      <4>3. vmm'[e[2]].st \in {"gone", "stopping"}
        <5>1. [NoVmm EXCEPT !.st = "gone"].st = "gone"
          BY DEF NoVmm
        <5>2. [vmm[e[2]] EXCEPT !.st = "stopping"].st = "stopping"
          BY <4>2 DEF Vmms
        <5>3. QED BY <1>0, <4>1, <4>2, <5>1, <5>2
      <4>4. QED BY <1>0, <4>1, <4>2, <4>3
    <3>2. CASE ~processAlive(e[2])
      BY <2>1, <3>2 DEF processAlive, Live
    <3>3. QED BY <3>1, <3>2
  <2>5. \A q \in Pids : Running(q)' => /\ Running(q) /\ q # e[2]
                                       /\ vmm'[q].id = vmm[q].id
    BY <2>4 DEF Running
  <2>6. Closed'
    BY <1>0, <2>2, <2>3 DEF Closed, Tracked, LoopSteps
  <2>7. Held'
    BY <2>2, <2>5, ReconcilingHolds DEF StrayInv, Held, Owned
  <2>8. Visits'
    <3>1. \A f \in todo'[Main] : records'[f[1]] = f[2] /\ f[1] # job'[Main].id
      <4>1. SUFFICES ASSUME NEW f \in todo[Main], f # e
                     PROVE  records[f[1]] = f[2] /\ f[1] # e[1]
        BY <2>2, <2>3
      <4>2. records[f[1]] = f[2] /\ records[e[1]] = e[2]
        BY <1>0, <2>2 DEF Visits
      <4>3. f \in Ids \X Pids
        BY <1>0
      <4>4. QED BY <2>2, <4>1, <4>2, <4>3
    <3>2. \A q \in Pids : Running(q)' /\ records'[vmm'[q].id] = q
                             => <<vmm'[q].id, q>> \in todo'[Main]
      BY <1>0, <2>2, <2>5 DEF Visits
    <3>3. QED BY <3>1, <3>2 DEF Visits
  <2>9. QED BY <2>6, <2>7, <2>8 DEF StrayInv
<1>3. CASE gcRecord
  <2> DEFINE i == job[Main].id
  <2>1. /\ phase = "reconciling" /\ pc[Main] = "gcRecord" /\ i \in Ids
        /\ UNCHANGED <<phase, inst, adrift, vmm, todo>> /\ Moves(Main, "gc", NoJob)
        /\ records' = [records EXCEPT ![i] = None] \/ UNCHANGED records
    BY <1>0, <1>3
    DEF gcRecord, Remove, Moves, Goto, Closed, TypeInv, JobOK, JobFits, LoopSteps
  <2>2. /\ pc'[Main] = "gc" /\ job'[Main] = NoJob
        /\ \A p \in Procs \ {Main} : pc'[p] = pc[p] /\ job'[p] = job[p]
    BY <2>1, OneMoves
  <2>3. \A k \in Ids : k # i => records'[k] = records[k]
    BY <1>0, <2>1
  <2>4. Closed'
    BY <1>0, <2>1, <2>2 DEF Closed, Tracked, LoopSteps
  <2>5. \A e \in todo[Main] : e[1] \in Ids /\ e[1] # i
    BY <1>0, <2>1 DEF Visits
  <2>6. \A q \in Pids : Running(q) /\ records[vmm[q].id] = q => records'[vmm[q].id] = q
    <3>1. SUFFICES ASSUME NEW q \in Pids, Running(q), records[vmm[q].id] = q
                   PROVE  records'[vmm[q].id] = q
      OBVIOUS
    <3>2. <<vmm[q].id, q>> \in todo[Main]
      BY <1>0, <2>1, <3>1 DEF Visits
    <3>3. vmm[q].id \in Ids /\ vmm[q].id # i
      BY <2>5, <3>2
    <3>4. QED BY <2>3, <3>1, <3>3
  <2>7. Held'
    BY <2>1, <2>6, ReconcilingHolds DEF StrayInv, Held, Owned, Running
  <2>8. Visits'
    <3>1. \A e \in todo'[Main] : records'[e[1]] = e[2] /\ pc'[Main] # "gcRecord"
      BY <1>0, <2>1, <2>2, <2>3, <2>5 DEF Visits
    <3>2. \A q \in Pids : Running(q)' /\ records'[vmm'[q].id] = q
                             => <<vmm'[q].id, q>> \in todo'[Main]
      <4>1. SUFFICES ASSUME NEW q \in Pids, Running(q), records'[vmm[q].id] = q
                     PROVE  <<vmm[q].id, q>> \in todo[Main]
        BY <2>1 DEF Running
      <4>2. vmm[q].id \in Ids
        BY <4>1 DEF StrayInv, Held
      <4>3. records[vmm[q].id] = q
        BY <1>0, <2>1, <4>1, <4>2, NoneAssumption
      <4>4. QED BY <1>0, <2>1, <4>1, <4>3 DEF Visits
    <3>3. QED BY <3>1, <3>2 DEF Visits
  <2>9. QED BY <2>4, <2>7, <2>8 DEF StrayInv
<1>4. CASE Serve
  <2>1. /\ phase = "reconciling" /\ phase' = "serving" /\ todo[Main] = {} /\ pc[Main] = "gc"
        /\ UNCHANGED <<inst, job, vmm, records, adrift>> /\ Moves(Main, "idle", job[Main])
    BY <1>4 DEF Serve, Moves, Goto, TypeInv, TypeOK
  <2>2. pc'[Main] = "idle" /\ \A p \in Procs \ {Main} : pc'[p] = pc[p]
    BY <2>1, OneMoves
  <2>3. Closed'
    BY <1>0, <2>1, <2>2 DEF Closed, LoopSteps
  <2>4. \A q \in Pids : Running(q) => q \in adrift
    BY <1>0, <2>1, ReconcilingHolds DEF Visits
  <2>5. Held'
    BY <2>1, <2>4 DEF StrayInv, Held, Owned, Running
  <2>6. QED BY <2>1, <2>3, <2>5 DEF StrayInv, Visits
<1>5. QED
  BY <1>1, <1>2, <1>3, <1>4

LEMMA MainStray ==
  ASSUME TypeInv, StrayInv, MainStep
  PROVE  StrayInv'
<1>. Main \in Procs BY DEF Procs
<1>0. Closed BY DEF StrayInv
<1>a. ASSUME pc[Main] \notin {"idle", "gc", "gcRecord"} PROVE Up
  BY <1>0, <1>a, BusyIsUp
<1>1. CASE Start \/ ReconcileKill \/ gcRecord \/ Serve
  BY <1>1, ReconcileStray
<1>2. CASE DrainList
  <2>1. /\ Up /\ pc[Main] = "idle" /\ UNCHANGED <<phase, inst, adrift, vmm, job>>
        /\ Goto(Main, "drain")
    BY <1>2 DEF DrainList, Up
  <2>2. NoneStarts /\ Rests("drain", job[Main]) /\ Keeps(Main, "drain", job[Main])
    BY <1>0, <2>1 DEF Closed, Rests, LoopSteps, NoneStarts, Keeps, Running, OwnSteps
  <2>3. QED BY <2>1, <2>2, StrayGoto
<1>3. CASE DrainNext
  <2>1. PICK e \in todo[Main] :
          job' = [job EXCEPT ![Main] = [NoJob EXCEPT !.kind = "terminate", !.id = e[1]]]
    BY <1>3 DEF DrainNext
  <2> DEFINE j == [NoJob EXCEPT !.kind = "terminate", !.id = e[1]]
  <2>2. /\ pc[Main] = "drain" /\ UNCHANGED <<phase, inst, adrift, vmm>>
        /\ Moves(Main, "term", j)
    BY <1>3, <2>1 DEF DrainNext, Moves, Goto
  <2>3. Rests("term", j) /\ NoneStarts /\ Keeps(Main, "term", j)
    BY <2>2 DEF Rests, LoopSteps, NoneStarts, Keeps, Running, OwnSteps
  <2> HIDE DEF j
  <2>4. QED BY <2>2, <2>3, <1>a, StrayKept
<1>4. CASE Exit
  BY <1>4, DieStray DEF Exit
<1>5. CASE TerminateStep(Main)
  BY <1>5, TerminateStray
<1>6. QED BY <1>1, <1>2, <1>3, <1>4, <1>5 DEF MainStep

LEMMA EnvironmentStray ==
  ASSUME TypeInv, StrayInv, Environment
  PROVE  StrayInv'
<1>1. ASSUME NEW q \in Pids, VmmExits(q) \/ PidReused(q) PROVE StrayInv'
  <2>1. /\ vmm \in [Pids -> Vmms]
        /\ UNCHANGED <<phase, inst, pc, job, todo, records, adrift>>
    BY <1>1 DEF VmmExits, PidReused, volatile, TypeInv, TypeOK
  <2>2. vmm'[q].st \in {"gone", "foreign"} /\ \A r \in Pids \ {q} : vmm'[r] = vmm[r]
    BY <1>1, <2>1 DEF VmmExits, PidReused, NoVmm, Vmms
  <2>3. NoneStarts
    BY <2>2 DEF NoneStarts, Running
  <2>4. Held'
    BY <2>1, <2>3 DEF StrayInv, Held, Owned, NoneStarts, Tracked
  <2>5. Closed' /\ Visits'
    BY <2>1, <2>3 DEF StrayInv, Closed, Visits, NoneStarts, Tracked
  <2>6. QED BY <2>4, <2>5 DEF StrayInv
<1>2. CASE Shutdown
  BY <1>2 DEF Shutdown, volatile, StrayInv, Held, Owned, Closed, Visits, Running, Tracked
<1>3. CASE Crash
  BY <1>3, DieStray DEF Crash
<1>4. QED BY <1>1, <1>2, <1>3 DEF Environment

LEMMA NextStray == TypeInv /\ StrayInv /\ [Next]_vars => StrayInv'
<1> SUFFICES ASSUME TypeInv, StrayInv, [Next]_vars PROVE StrayInv'
  OBVIOUS
<1>1. ASSUME NEW p \in Clients, Request(p) \/ ClientStep(p) PROVE StrayInv'
  <2>1. p \in Procs BY DEF Procs
  <2>2. TerminateRequest(p)
          => \E id \in Ids : Up /\ pc[p] \notin OwnSteps /\ TerminateLocked(p, id)
    BY DEF TerminateRequest, MayStart, OwnSteps, Up
  <2>3. QED
    BY <1>1, <2>1, <2>2, LaunchStray, TerminateStray, StopStray DEF Request, ClientStep
<1>2. CASE UNCHANGED vars
  BY <1>2 DEF vars, volatile, StrayInv, Held, Owned, Closed, Visits, Running, Tracked
<1>3. QED
  BY <1>1, <1>2, ReaperStray, MainStray, EnvironmentStray DEF Next

LEMMA StrayInvariant == Spec => []StrayInv
<1>1. Init => StrayInv
  BY DEF Init, InitVolatile, StrayInv, Held, Closed, Visits, Running, Tracked, NoVmm, Procs
<1>2. QED
  BY <1>1, InitTypeInv, NextTypes, NextStray, PTL DEF Spec

\* No VMM runs that nobody can reach: it is tracked, in the hands of an operation, named
\* by a record that Reconcile visits before the server listens, or one of the two kinds
\* that the code is known to lose (a replaced entry, no record when the process died).
THEOREM NoVmmLost == Spec => []NoStrayVmm
<1>1. StrayInv => NoStrayVmm
  BY DEF StrayInv, Held, Owned, Running, NoStrayVmm
<1>2. QED BY <1>1, StrayInvariant, PTL

-----------------------------------------------------------------------------
(* CapInv: a tracked VMM is in its cgroup leaf.                             *)

CapsKept == \A q \in Pids : Capped(vmm, q) => Capped(vmm', q)

\* A step of p: what it brings to the insert, or tracks, is in its leaf.
LEMMA CapsMove ==
  ASSUME TypeInv, CapInv, NEW p \in Procs, NEW s, NEW j, Moves(p, s, j), CapsKept,
         s = "insert" => Capped(vmm', j.pid),
         \A i \in Ids : inst'[i] \in {None, inst[i]} \/ Capped(vmm', inst'[i].pid)
  PROVE  CapInv'
<1>0. /\ pc'[p] = s /\ job'[p] = j
      /\ \A q \in Procs \ {p} : pc'[q] = pc[q] /\ job'[q] = job[q]
  BY OneMoves
<1>1. ASSUME NEW q \in Procs, pc'[q] = "insert" PROVE Capped(vmm', job'[q].pid)
  <2>1. CASE q = p BY <1>0, <1>1, <2>1
  <2>2. CASE q # p
    <3>1. pc[q] = "insert" /\ job'[q] = job[q] BY <1>0, <1>1, <2>2
    <3>2. job[q].pid \in Pids BY <3>1 DEF TypeInv, JobOK, JobFits, VmmSteps
    <3>3. QED BY <3>1, <3>2 DEF CapInv, CapsKept
  <2>3. QED BY <2>1, <2>2
<1>2. ASSUME NEW i \in Tracked' PROVE Capped(vmm', inst'[i].pid)
  <2>1. i \in Ids /\ inst'[i] # None BY DEF Tracked
  <2>2. CASE inst'[i] = inst[i]
    <3>1. i \in Tracked /\ inst[i].pid \in Pids
      BY <2>1, <2>2 DEF Tracked, TypeInv, TypeOK, Instances
    <3>2. QED BY <2>2, <3>1 DEF CapInv, CapsKept
  <2>3. QED BY <2>1, <2>2
<1>3. QED BY <1>1, <1>2 DEF CapInv

\* A step that stops short of the insert and tracks nothing new.
LEMMA CapsShort ==
  ASSUME TypeInv, CapInv, NEW p \in Procs, NEW s, NEW j, Moves(p, s, j), s # "insert",
         CapsKept, \A i \in Ids : inst'[i] \in {None, inst[i]}
  PROVE  CapInv'
  BY CapsMove

LEMMA CapsGoto ==
  ASSUME TypeInv, CapInv, NEW p \in Procs, NEW s, Goto(p, s), s # "insert", UNCHANGED job,
         CapsKept, UNCHANGED inst
  PROVE  CapInv'
<1>1. Moves(p, s, job[p])
  BY DEF TypeInv, TypeOK, Goto, Moves
<1>2. QED BY <1>1, CapsShort

LEMMA CapsFinish ==
  ASSUME TypeInv, CapInv, NEW p \in Procs, Finish(p), CapsKept, UNCHANGED inst
  PROVE  CapInv'
<1>1. Moves(p, Return(p), NoJob) /\ Return(p) # "insert"
  BY DEF Finish, Goto, Moves, Return
<1>2. QED BY <1>1, CapsShort

LEMMA StopCaps ==
  ASSUME TypeInv, NEW q \in Pids, vmm' = StopVMM(vmm, q)
  PROVE  CapsKept
  BY DEF TypeInv, TypeOK, Vmms, StopVMM, CapsKept, Capped, Live

LEMMA SameCaps ==
  ASSUME UNCHANGED vmm
  PROVE  CapsKept
  BY DEF CapsKept, Capped

\* A pid that was free says nothing yet.
LEMMA FreeCaps ==
  ASSUME TypeInv, NEW q \in FreePids, NEW v, vmm' = [vmm EXCEPT ![q] = v]
  PROVE  CapsKept
<1>1. q \in Pids /\ vmm[q].st = "free" /\ vmm \in [Pids -> Vmms]
  BY DEF FreePids, TypeInv, TypeOK
<1>2. \A r \in Pids \ {q} : vmm'[r] = vmm[r]
  BY <1>1
<1>3. QED BY <1>1, <1>2 DEF CapsKept, Capped

LEMMA LaunchCaps ==
  ASSUME TypeInv, CapInv, NEW p \in Clients, LaunchAdmit(p) \/ LaunchStep(p)
  PROVE  CapInv'
<1>. p \in Procs BY DEF Procs
<1>0. /\ job[p] \in Jobs /\ JobFits(pc[p], job[p]) /\ vmm \in [Pids -> Vmms]
      /\ inst \in [Ids -> Instances \cup {None}]
  BY DEF TypeInv, TypeOK, JobOK
<1>a. ASSUME NEW vs, Cleanup(p, vs), CapsKept PROVE CapInv'
  BY <1>a, CapsFinish DEF Cleanup
<1>1. CASE LaunchAdmit(p)
  <2>1. \E j : Moves(p, "alloc", j)
    BY <1>1 DEF LaunchAdmit, Goto, Moves
  <2>2. UNCHANGED <<inst, vmm>> BY <1>1 DEF LaunchAdmit
  <2>3. QED BY <2>1, <2>2, SameCaps, CapsShort
<1>2. CASE LaunchAlloc(p)
  <2>1. UNCHANGED <<inst, vmm>> BY <1>2 DEF LaunchAlloc
  <2>2. ASSUME NEW c \in CIDs, Goto(p, "build"), job' = [job EXCEPT ![p].cid = c] PROVE CapInv'
    <3>1. Moves(p, "build", [job[p] EXCEPT !.cid = c])
      BY <2>2 DEF Goto, Moves
    <3>2. QED BY <2>1, <3>1, SameCaps, CapsShort
  <2>3. CASE Finish(p)
    BY <2>1, <2>3, SameCaps, CapsFinish
  <2>4. QED BY <1>2, <2>2, <2>3 DEF LaunchAlloc
<1>3. CASE LaunchBuild(p)
  BY <1>3, SameCaps, CapsGoto DEF LaunchBuild
<1>4. CASE LaunchCgroup(p)
  BY <1>4, SameCaps, CapsGoto DEF LaunchCgroup
<1>5. CASE LaunchBuildFails(p) \/ LaunchCgroupFails(p)
  BY <1>5, SameCaps, CapsFinish DEF LaunchBuildFails, LaunchCgroupFails
<1>6. CASE LaunchBoot(p)
  <2>1. PICK q \in FreePids :
          /\ vmm' = [vmm EXCEPT ![q] = [NoVmm EXCEPT !.st = "run", !.id = job[p].id]]
          /\ job' = [job EXCEPT ![p].pid = q]
    BY <1>6 DEF LaunchBoot
  <2>2. Moves(p, "place", [job[p] EXCEPT !.pid = q]) /\ UNCHANGED inst
    BY <1>6, <2>1 DEF LaunchBoot, Goto, Moves
  <2>3. CapsKept BY <2>1, FreeCaps
  <2>4. QED BY <2>2, <2>3, CapsShort
<1>7. CASE LaunchBootFails(p)
  <2>1. CASE Cleanup(p, vmm)
    BY <1>a, <2>1, SameCaps DEF Cleanup
  <2>2. ASSUME NEW q \in FreePids, NEW v, Cleanup(p, [vmm EXCEPT ![q] = v]) PROVE CapInv'
    <3>1. CapsKept BY <2>2, FreeCaps DEF Cleanup
    <3>2. QED BY <1>a, <2>2, <3>1
  <2>3. QED BY <1>7, <2>1, <2>2 DEF LaunchBootFails
<1>8. CASE LaunchPlace(p)
  <2>1. /\ UNCHANGED inst /\ Moves(p, "insert", job[p]) /\ job[p].pid \in Pids
        /\ vmm' = [vmm EXCEPT ![job[p].pid].capped = TRUE] /\ vmm[job[p].pid].st \in Live
    BY <1>0, <1>8 DEF LaunchPlace, CanPlace, Moves, Goto, TypeInv, TypeOK, JobFits, VmmSteps
  <2>2. CapsKept /\ Capped(vmm', job[p].pid)
    BY <1>0, <2>1 DEF CapsKept, Capped, Vmms, Live
  <2>3. QED BY <2>1, <2>2, CapsMove
<1>9. CASE LaunchPlaceFails(p) \/ RekeyFails(p)
  <2>1. pc[p] \in {"place", "insert"} /\ Cleanup(p, StopVMM(vmm, job[p].pid))
    BY <1>9 DEF LaunchPlaceFails, RekeyFails
  <2>2. job[p].pid \in Pids /\ vmm' = StopVMM(vmm, job[p].pid)
    BY <1>0, <2>1 DEF JobFits, VmmSteps, Cleanup
  <2>3. QED BY <1>a, <2>1, <2>2, StopCaps
<1>10. CASE LaunchInsert(p)
  <2> DEFINE n == [cid |-> job[p].cid, pid |-> job[p].pid, mem |-> job[p].mem]
             j == [job[p] EXCEPT !.cid = None]
  <2>1. /\ pc[p] = "insert" /\ UNCHANGED vmm /\ Moves(p, "save", j)
        /\ inst' = [inst EXCEPT ![job[p].id] = n] /\ n.pid = job[p].pid
    BY <1>10 DEF LaunchInsert, Goto, Moves
  <2>2. Capped(vmm', n.pid)
    BY <2>1 DEF CapInv
  <2> HIDE DEF n, j
  <2>3. \A i \in Ids : inst'[i] = inst[i] \/ inst'[i] = n
    BY <1>0, <2>1
  <2>4. QED BY <2>1, <2>2, <2>3, SameCaps, CapsMove
<1>11. CASE LaunchSave(p)
  BY <1>11, SameCaps, CapsFinish DEF LaunchSave
<1>12. QED
  BY <1>1, <1>2, <1>3, <1>4, <1>5, <1>6, <1>7, <1>8, <1>9, <1>10, <1>11 DEF LaunchStep

LEMMA TerminateCaps ==
  ASSUME TypeInv, CapInv, NEW p \in Procs,
         (\E id \in Ids : TerminateLocked(p, id)) \/ TerminateStep(p)
  PROVE  CapInv'
<1>0. JobFits(pc[p], job[p]) /\ inst \in [Ids -> Instances \cup {None}]
  BY DEF TypeInv, TypeOK, JobOK
<1>1. ASSUME NEW id, TerminateLocked(p, id) PROVE CapInv'
  <2>1. UNCHANGED vmm /\ \E j : Moves(p, "halt", j)
    BY <1>1 DEF TerminateLocked, Goto, Moves
  <2>2. \A i \in Ids : inst'[i] \in {None, inst[i]}
    BY <1>0, <1>1 DEF TerminateLocked
  <2>3. QED BY <2>1, <2>2, SameCaps, CapsShort
<1>2. CASE TerminateNotFound(p)
  BY <1>2, SameCaps, CapsFinish DEF TerminateNotFound
<1>3. CASE TerminateHalt(p)
  <2>1. job[p].pid \in Pids
    BY <1>0, <1>3 DEF TerminateHalt, JobFits, VmmSteps
  <2>2. CapsKept BY <1>3, <2>1, StopCaps DEF TerminateHalt
  <2>3. QED BY <1>3, <2>2, CapsGoto DEF TerminateHalt
<1>4. CASE TerminateReclaim(p)
  <2>1. Moves(p, "unrecord", [job[p] EXCEPT !.cid = None]) /\ UNCHANGED <<inst, vmm>>
    BY <1>4 DEF TerminateReclaim, Goto, Moves
  <2>2. QED BY <2>1, SameCaps, CapsShort
<1>5. CASE TerminateUnrecord(p)
  BY <1>5, SameCaps, CapsFinish DEF TerminateUnrecord
<1>6. QED BY <1>1, <1>2, <1>3, <1>4, <1>5 DEF TerminateStep, TerminateChosen

LEMMA StopOpCaps ==
  ASSUME TypeInv, CapInv, NEW p \in Clients, StopLookup(p) \/ StopStep(p)
  PROVE  CapInv'
<1>. p \in Procs BY DEF Procs
<1>0. vmm \in [Pids -> Vmms]
  BY DEF TypeInv, TypeOK
<1>1. CASE StopLookup(p)
  <2>1. UNCHANGED <<inst, vmm>> /\ \E j : Moves(p, "pause", j)
    BY <1>1 DEF StopLookup, Goto, Moves
  <2>2. QED BY <2>1, SameCaps, CapsShort
<1>2. CASE StopPause(p)
  <2>1. CanPause(p) /\ vmm' = [vmm EXCEPT ![job[p].pid].st = "paused"]
    BY <1>2 DEF StopPause
  <2>2. CapsKept
    BY <1>0, <2>1 DEF CanPause, Vmms, CapsKept, Capped, Live
  <2>3. QED BY <1>2, <2>2, CapsGoto DEF StopPause
<1>3. CASE StopCapture(p)
  <2>1. UNCHANGED <<inst, vmm>> /\ Moves(p, "term", [job[p] EXCEPT !.pid = None])
    BY <1>3 DEF StopCapture, Goto, Moves
  <2>2. QED BY <2>1, SameCaps, CapsShort
<1>4. CASE StopFails(p)
  BY <1>4, SameCaps, CapsFinish DEF StopFails
<1>5. QED BY <1>1, <1>2, <1>3, <1>4 DEF StopStep

\* Steps of the loops of reaper and main.
LEMMA LoopCaps ==
  ASSUME TypeInv, CapInv,
         \/ ReapList \/ ReapProbe \/ ReapDone
         \/ Start \/ ReconcileKill \/ gcRecord \/ Serve \/ DrainList \/ DrainNext
  PROVE  CapInv'
<1>. Reaper \in Procs /\ Main \in Procs BY DEF Procs
<1>0. vmm \in [Pids -> Vmms]
  BY DEF TypeInv, TypeOK
<1>1. CASE ReapList \/ ReapDone
  BY <1>1, SameCaps, CapsGoto DEF ReapList, ReapDone
<1>2. CASE ReapProbe
  <2>1. UNCHANGED <<inst, vmm>> BY <1>2 DEF ReapProbe
  <2>2. CASE UNCHANGED <<pc, job>>
    BY <2>1, <2>2 DEF CapInv, Capped, Tracked
  <2>3. CASE ~UNCHANGED <<pc, job>>
    <3>1. \E j : Moves(Reaper, "term", j)
      BY <1>2, <2>3 DEF ReapProbe, Goto, Moves
    <3>2. QED BY <2>1, <3>1, SameCaps, CapsShort
  <2>4. QED BY <2>2, <2>3
<1>3. CASE Start \/ Serve \/ DrainList
  BY <1>3, SameCaps, CapsGoto DEF Start, Serve, DrainList
<1>4. CASE ReconcileKill
  <2>1. UNCHANGED inst /\ \E j : Moves(Main, "gcRecord", j)
    BY <1>4 DEF ReconcileKill, Goto, Moves
  <2>2. CapsKept
    <3>1. PICK e \in todo[Main] :
            IF processAlive(e[2])
            THEN \E st \in {"gone", "stopping"} :
                   vmm' = [vmm EXCEPT ![e[2]] =
                             IF st = "gone" \/ @.st = "foreign" THEN [NoVmm EXCEPT !.st = "gone"]
                             ELSE [@ EXCEPT !.st = "stopping"]]
            ELSE UNCHANGED vmm
      BY <1>4 DEF ReconcileKill
    <3>2. CASE UNCHANGED vmm BY <3>2, SameCaps
    <3>3. CASE processAlive(e[2])
      <4>1. e[2] \in Pids
        BY DEF TypeInv, TypeOK
      <4>2. PICK st \in {"gone", "stopping"} :
              vmm' = [vmm EXCEPT ![e[2]] =
                        IF st = "gone" \/ @.st = "foreign" THEN [NoVmm EXCEPT !.st = "gone"]
                        ELSE [@ EXCEPT !.st = "stopping"]]
        BY <3>1, <3>3
      <4>3. \A r \in Pids \ {e[2]} : vmm'[r] = vmm[r]
        BY <1>0, <4>1, <4>2
      <4>4. \/ vmm'[e[2]] = [NoVmm EXCEPT !.st = "gone"]
            \/ /\ vmm'[e[2]] = [vmm[e[2]] EXCEPT !.st = "stopping"]
               /\ vmm[e[2]].st # "foreign"
        BY <1>0, <4>1, <4>2
      <4>5. Capped(vmm, e[2]) => Capped(vmm', e[2])
        <5>1. CASE vmm'[e[2]] = [NoVmm EXCEPT !.st = "gone"]
          BY <5>1 DEF NoVmm, Capped, Live
        <5>2. CASE vmm'[e[2]] = [vmm[e[2]] EXCEPT !.st = "stopping"] /\ vmm[e[2]].st # "foreign"
          BY <1>0, <3>3, <4>1, <5>2 DEF processAlive, Vmms, Capped, Live
        <5>3. QED BY <4>4, <5>1, <5>2
      <4>6. QED BY <4>3, <4>5 DEF CapsKept, Capped
    <3>4. QED BY <3>1, <3>2, <3>3
  <2>3. QED BY <2>1, <2>2, CapsShort
<1>5. CASE gcRecord
  <2>1. UNCHANGED <<inst, vmm>> /\ Moves(Main, "gc", NoJob)
    BY <1>5 DEF gcRecord, Goto, Moves
  <2>2. QED BY <2>1, SameCaps, CapsShort
<1>6. CASE DrainNext
  <2>1. UNCHANGED <<inst, vmm>> /\ \E j : Moves(Main, "term", j)
    BY <1>6 DEF DrainNext, Goto, Moves
  <2>2. QED BY <2>1, SameCaps, CapsShort
<1>7. QED BY <1>1, <1>2, <1>3, <1>4, <1>5, <1>6

LEMMA DieCaps == Die => CapInv'
  BY DEF Die, CapInv, Tracked

\* A VMM that ends, or whose pid is given away, is not in any leaf any more.
LEMMA ExitCaps ==
  ASSUME TypeInv, NEW q \in Pids, VmmExits(q) \/ PidReused(q)
  PROVE  CapsKept
<1>1. vmm \in [Pids -> Vmms]
  BY DEF TypeInv, TypeOK
<1>2. vmm'[q].st \in {"gone", "foreign"} /\ \A r \in Pids \ {q} : vmm'[r] = vmm[r]
  BY <1>1 DEF VmmExits, PidReused, NoVmm, Vmms
<1>3. QED BY <1>2 DEF CapsKept, Capped, Live

LEMMA NextCaps == TypeInv /\ CapInv /\ [Next]_vars => CapInv'
<1> SUFFICES ASSUME TypeInv, CapInv, [Next]_vars PROVE CapInv'
  OBVIOUS
<1>. \A p \in Clients : p \in Procs BY DEF Procs
<1>. Reaper \in Procs /\ Main \in Procs BY DEF Procs
<1>1. ASSUME NEW p \in Clients, Request(p) \/ ClientStep(p) PROVE CapInv'
  BY <1>1, LaunchCaps, TerminateCaps, StopOpCaps DEF Request, TerminateRequest, ClientStep
<1>2. CASE ReaperStep \/ MainStep
  BY <1>2, LoopCaps, TerminateCaps, DieCaps DEF ReaperStep, MainStep, Exit
<1>3. ASSUME NEW q \in Pids, VmmExits(q) \/ PidReused(q) PROVE CapInv'
  <2>1. UNCHANGED <<inst, pc, job>>
    BY <1>3 DEF VmmExits, PidReused, volatile
  <2>2. \A p \in Procs : pc[p] = "insert" => job[p].pid \in Pids
    BY DEF TypeInv, JobOK, JobFits, VmmSteps
  <2>3. \A id \in Tracked : inst[id].pid \in Pids
    BY DEF Tracked, TypeInv, TypeOK, Instances
  <2>4. CapsKept BY <1>3, ExitCaps
  <2>5. QED BY <2>1, <2>2, <2>3, <2>4 DEF CapInv, CapsKept, Tracked
<1>4. CASE Shutdown \/ UNCHANGED vars
  BY <1>4 DEF Shutdown, vars, volatile, CapInv, Capped, Tracked
<1>5. CASE Crash
  BY <1>5, DieCaps DEF Crash
<1>6. QED
  BY <1>1, <1>2, <1>3, <1>4, <1>5 DEF Next, Environment

\* placeInCgroup fails closed: whatever other operations on the same id, failures, deaths
\* and crashes come in between, no sandbox is tracked with a VMM outside its leaf.
THEOREM TrackedStaysCapped == Spec => []TrackedIsCapped
<1>1. Init => CapInv
  BY DEF Init, InitVolatile, CapInv, Tracked
<1>2. Spec => []TypeInv
  BY InitTypeInv, NextTypes, PTL DEF Spec
<1>3. Spec => []CapInv
  BY <1>1, <1>2, NextCaps, PTL DEF Spec
<1>4. CapInv => TrackedIsCapped
  BY DEF CapInv, Capped, TrackedIsCapped
<1>5. QED BY <1>3, <1>4, PTL

-----------------------------------------------------------------------------
(* SoleInv: with one operation of the callers per id, a tracked sandbox is  *)
(* whole and has its record, unless its launch was early.                   *)

\* Step s with locals j leaves the goroutine p and those that launch or end apart.
Apart(p, s, j) ==
  /\ s \in BootSteps => p \in Clients /\ inst[j.id] = None
  /\ s # "save"
  /\ s \in BootSteps /\ j.id \notin early' =>
       \A q \in Procs \ {p} : job[q].id = j.id => pc[q] \notin EndSteps
  /\ s \in EndSteps /\ j.id \notin early' =>
       /\ inst[j.id] = None
       /\ \A q \in Procs \ {p} : job[q].id = j.id => pc[q] \notin BootSteps
  /\ p \in Clients /\ j.id # None => \A q \in Clients \ {p} : job[q].id # j.id

\* An id ceases to be early only when nobody else launches it and it is not tracked.
EarlyKept(p) == \A i \in early \ early' :
  inst[i] = None /\ \A q \in Procs \ {p} : job[q].id = i => pc[q] \notin BootSteps

HostKept(p) ==
  \/ UNCHANGED host
  \/ /\ pc[p] \in BootSteps \cup {"reclaim"}
     /\ \A i \in Ids : i # job[p].id => host'[i] = host[i]

RecordsKept(p) == "redis" \notin MayFail =>
  /\ \A i \in Tracked \ early : (pc[p] = "save" /\ i = job[p].id) \/ records'[i] = records[i]
  /\ pc[p] = "save" => records'[job[p].id] = job[p].pid

\* Artefacts that p works on are nobody else's.
LEMMA HostApart ==
  ASSUME TypeInv, Alone, NEW p \in Procs, pc[p] \in BootSteps \cup {"reclaim"}
  PROVE  /\ job[p].id \notin Tracked \ early
         /\ \A q \in Procs \ {p} :
              pc[q] \in BootSteps /\ job[q].id \notin early => job[q].id # job[p].id
<1>1. job[p].id \notin Tracked \ early
  BY DEF Alone, EndSteps, Tracked
<1>2. ASSUME NEW q \in Procs \ {p}, pc[q] \in BootSteps, job[q].id \notin early,
             job[q].id = job[p].id
      PROVE  FALSE
  <2>1. pc[p] # "reclaim"
    BY <1>2 DEF Alone, EndSteps
  <2>2. p \in Clients /\ q \in Clients
    BY <1>2, <2>1 DEF Alone
  <2>3. job[q].id # None
    BY <1>2, NoneAssumption DEF TypeInv, JobOK, JobFits, BootSteps, LoopSteps
  <2>4. QED BY <1>2, <2>2, <2>3 DEF Alone
<1>3. QED BY <1>1, <1>2

\* A step of p that tracks and drops nothing.
LEMMA SoleKept ==
  ASSUME TypeInv, Sole, NEW p \in Procs, NEW s, NEW j, Moves(p, s, j), UNCHANGED inst,
         Apart(p, s, j), EarlyKept(p), HostKept(p), RecordsKept(p),
         j.id \notin early' => StageAt(host', s, j)
  PROVE  Sole'
<1>0. /\ pc'[p] = s /\ job'[p] = j
      /\ \A q \in Procs \ {p} : pc'[q] = pc[q] /\ job'[q] = job[q]
  BY OneMoves
<1>1. Alone'
  <2>1. SUFFICES ASSUME NEW q \in Procs
                 PROVE  /\ pc'[q] \in BootSteps \cup {"save"} => q \in Clients
                        /\ q \in Clients /\ job'[q].id # None =>
                             \A r \in Clients \ {q} : job'[r].id # job'[q].id
                        /\ pc'[q] \in BootSteps => inst[job'[q].id] = None
                        /\ pc'[q] \in BootSteps /\ job'[q].id \notin early' =>
                             \A r \in Procs \ {q} : job'[r].id = job'[q].id => pc'[r] \notin EndSteps
                        /\ pc'[q] \in EndSteps /\ job'[q].id \notin early' => inst[job'[q].id] = None
                        /\ pc'[q] = "save" /\ inst[job'[q].id] # None
                             => inst[job'[q].id].pid = job'[q].pid
    BY DEF Alone
  <2>2. CASE q = p
    BY <1>0, <2>2 DEF Apart, Procs
  <2>3. CASE q # p
    <3>1. pc'[q] = pc[q] /\ job'[q] = job[q] BY <1>0, <2>3
    <3>2. ASSUME q \in Clients, job[q].id # None, NEW r \in Clients \ {q}
          PROVE  job'[r].id # job[q].id
      <4>1. CASE r = p BY <1>0, <2>3, <3>2, <4>1 DEF Apart
      <4>2. CASE r # p BY <1>0, <3>2, <4>2 DEF Sole, Alone, Procs
      <4>3. QED BY <4>1, <4>2
    <3>3. ASSUME pc[q] \in BootSteps, job[q].id \notin early', NEW r \in Procs \ {q},
                 job'[r].id = job[q].id
          PROVE  pc'[r] \notin EndSteps
      <4>1. CASE r = p BY <1>0, <2>3, <3>3, <4>1 DEF Apart
      <4>2. CASE r # p
        <5>1. job[q].id \notin early
          BY <2>3, <3>3 DEF EarlyKept
        <5>2. QED BY <1>0, <3>3, <4>2, <5>1 DEF Sole, Alone
      <4>3. QED BY <4>1, <4>2
    <3>4. ASSUME pc[q] \in EndSteps, job[q].id \notin early' PROVE inst[job[q].id] = None
      BY <3>4 DEF EarlyKept, Sole, Alone
    <3>5. QED BY <3>1, <3>2, <3>3, <3>4 DEF Sole, Alone
  <2>4. QED BY <2>2, <2>3
<1>2. Tracked' = Tracked /\ Tracked \ early' \subseteq Tracked \ early
  BY DEF Tracked, EarlyKept
<1>3. Staged'
  <2>1. ASSUME NEW q \in Procs, job'[q].id \notin early' PROVE StageAt(host', pc'[q], job'[q])
    <3>1. CASE q = p BY <1>0, <2>1, <3>1
    <3>2. CASE q # p
      <4>1. pc'[q] = pc[q] /\ job'[q] = job[q] BY <1>0, <3>2
      <4>2. CASE pc[q] \in BootSteps
        <5>1. job[q].id \in Ids /\ job[q].id \notin early
          BY <2>1, <3>2, <4>1, <4>2
          DEF TypeInv, JobOK, JobFits, BootSteps, LoopSteps, EarlyKept
        <5>2. host'[job[q].id] = host[job[q].id]
          BY <3>2, <4>2, <5>1, HostApart DEF HostKept, Sole
        <5>3. StageAt(host, pc[q], job[q])
          BY <5>1 DEF Sole, Staged
        <5>4. QED BY <4>1, <5>2, <5>3 DEF StageAt
      <4>3. CASE pc[q] \notin BootSteps
        BY <4>1, <4>3 DEF StageAt, BootSteps
      <4>4. QED BY <4>2, <4>3
    <3>3. QED BY <3>1, <3>2
  <2>2. ASSUME NEW i \in Tracked \ early' PROVE host'[i] = Parts
    <3>1. i \in Ids /\ i \in Tracked \ early
      BY <1>2 DEF Tracked
    <3>2. host[i] = Parts
      BY <3>1 DEF Sole, Staged
    <3>3. host'[i] = host[i]
      BY <3>1, HostApart DEF HostKept, Sole
    <3>4. QED BY <3>2, <3>3
  <2>3. QED BY <1>2, <2>1, <2>2 DEF Staged
<1>4. Recorded'
  <2>1. SUFFICES ASSUME "redis" \notin MayFail, NEW i \in Tracked \ early'
                 PROVE  \/ records'[i] = inst[i].pid
                        \/ \E q \in Clients : pc'[q] = "save" /\ job'[q].id = i
    BY <1>2 DEF Recorded
  <2>2. i \in Tracked \ early BY <1>2
  <2>3. CASE pc[p] = "save" /\ i = job[p].id
    BY <2>1, <2>3 DEF RecordsKept, Sole, Alone, Tracked
  <2>4. CASE ~(pc[p] = "save" /\ i = job[p].id)
    <3>1. records'[i] = records[i]
      BY <2>1, <2>2, <2>4 DEF RecordsKept
    <3>2. QED BY <1>0, <2>1, <2>2, <2>4, <3>1 DEF Sole, Recorded, Procs
  <2>5. QED BY <2>3, <2>4
<1>5. QED BY <1>1, <1>3, <1>4 DEF Sole

\* Going on with the same sandbox leaves everybody as far apart as before.
LEMMA ApartSame ==
  ASSUME TypeInv, Alone, NEW p \in Procs, NEW s, NEW j, j.id = job[p].id, UNCHANGED early,
         s # "save", s \in BootSteps => pc[p] \in BootSteps,
         s \in EndSteps => pc[p] \in EndSteps
  PROVE  Apart(p, s, j) /\ EarlyKept(p)
<1>1. EarlyKept(p) BY DEF EarlyKept
<1>2. s \in BootSteps => p \in Clients /\ inst[j.id] = None
  BY DEF Alone
<1>3. s \in BootSteps /\ j.id \notin early =>
        \A q \in Procs \ {p} : job[q].id = j.id => pc[q] \notin EndSteps
  BY DEF Alone
<1>4. s \in EndSteps /\ j.id \notin early =>
        \A q \in Procs \ {p} : job[q].id = j.id => pc[q] \notin BootSteps
  BY DEF Alone
<1>5. QED BY <1>1, <1>2, <1>3, <1>4 DEF Apart, Alone

LEMMA ApartIdle ==
  ASSUME NEW p \in Procs, NEW s \in LoopSteps, UNCHANGED early
  PROVE  Apart(p, s, NoJob) /\ EarlyKept(p) /\ \A hs : StageAt(hs, s, NoJob)
<1>1. s \notin BootSteps \cup EndSteps \cup {"save"}
  BY DEF LoopSteps, BootSteps, EndSteps
<1>2. QED
  BY <1>1 DEF Apart, EarlyKept, NoJob, StageAt, BootSteps

\* A goroutine that is done, or never started.
LEMMA SoleRests ==
  ASSUME TypeInv, Sole, NEW p \in Procs, NEW s \in LoopSteps, Moves(p, s, NoJob),
         UNCHANGED <<inst, early>>, HostKept(p), RecordsKept(p)
  PROVE  Sole'
  BY ApartIdle, SoleKept

LEMMA SoleFinish ==
  ASSUME TypeInv, Sole, NEW p \in Procs, Finish(p), UNCHANGED <<inst, early>>,
         HostKept(p), RecordsKept(p)
  PROVE  Sole'
<1>1. Return(p) \in LoopSteps /\ Moves(p, Return(p), NoJob)
  BY DEF Finish, Goto, Moves, Return, LoopSteps
<1>2. QED BY <1>1, SoleRests

LEMMA LaunchSole ==
  ASSUME TypeInv, OnePerId, Sole, NEW p \in Clients, LaunchAdmit(p) \/ LaunchStep(p)
  PROVE  Sole'
<1>. p \in Procs BY DEF Procs
<1>0. /\ Alone /\ job[p] \in Jobs /\ JobFits(pc[p], job[p])
      /\ job[p].id \notin early => StageAt(host, pc[p], job[p])
      /\ host \in [Ids -> SUBSET Parts]
  BY DEF Sole, Staged, TypeInv, TypeOK, JobOK, Parts
<1>a. ASSUME UNCHANGED records, pc[p] # "save" PROVE RecordsKept(p)
  BY <1>a DEF RecordsKept
<1>b. ASSUME pc[p] \in BootSteps, NEW ps, host' = [host EXCEPT ![job[p].id] = ps]
      PROVE  HostKept(p)
  BY <1>0, <1>b DEF HostKept
<1>c. ASSUME pc[p] \in BootSteps, NEW vs, Cleanup(p, vs) PROVE Sole'
  <2>1. HostKept(p) /\ RecordsKept(p)
    BY <1>a, <1>b, <1>c DEF Cleanup, BootSteps
  <2>2. QED BY <1>c, <2>1, SoleFinish DEF Cleanup
<1>1. CASE LaunchAdmit(p)
  <2>1. PICK id \in Ids, mem \in Mems, kind \in Kinds :
          /\ MayStart(p, id) /\ inst[id] = None
          /\ job' = [job EXCEPT ![p] = [NoJob EXCEPT !.kind = kind, !.id = id, !.mem = mem]]
          /\ early' = IF Ending(id) THEN early \cup {id} ELSE early \ {id}
    BY <1>1 DEF LaunchAdmit
  <2> DEFINE j == [NoJob EXCEPT !.kind = kind, !.id = id, !.mem = mem]
  <2>2. /\ UNCHANGED <<inst, host, records>> /\ pc[p] = "idle"
        /\ Moves(p, "alloc", j) /\ j.id = id
    BY <1>1, <2>1 DEF LaunchAdmit, MayStart, Goto, Moves, NoJob
  <2>3. \A q \in Clients : job[q].id # id
    BY <2>1 DEF MayStart
  <2>4. id \notin early' => \A q \in Procs : job[q].id = id => pc[q] \notin EndSteps
    BY <2>1 DEF Ending, EndSteps
  <2> HIDE DEF j
  <2>5. Apart(p, "alloc", j)
    BY <2>1, <2>2, <2>3, <2>4 DEF Apart, BootSteps, EndSteps
  <2>6. EarlyKept(p)
    BY <1>0, <2>1, <2>3 DEF EarlyKept, Alone
  <2>7. StageAt(host', "alloc", j)
    BY DEF StageAt
  <2>8. QED BY <1>a, <2>2, <2>5, <2>6, <2>7, SoleKept DEF HostKept
<1>2. CASE LaunchAlloc(p)
  <2>1. UNCHANGED <<inst, early, host, records>> /\ pc[p] = "alloc"
    BY <1>2 DEF LaunchAlloc
  <2>2. HostKept(p) /\ RecordsKept(p)
    BY <1>a, <2>1 DEF HostKept
  <2>3. ASSUME NEW c \in CIDs, Goto(p, "build"), job' = [job EXCEPT ![p].cid = c]
        PROVE  Sole'
    <3> DEFINE j == [job[p] EXCEPT !.cid = c]
    <3>1. Moves(p, "build", j) /\ j.id = job[p].id
      BY <1>0, <2>3 DEF Moves, Goto, Jobs
    <3> HIDE DEF j
    <3>2. Apart(p, "build", j) /\ EarlyKept(p)
      BY <1>0, <2>1, <3>1, ApartSame DEF BootSteps, EndSteps
    <3>3. StageAt(host', "build", j)
      BY DEF StageAt
    <3>4. QED BY <2>1, <2>2, <3>1, <3>2, <3>3, SoleKept
  <2>4. CASE Finish(p)
    BY <2>1, <2>2, <2>4, SoleFinish
  <2>5. QED BY <1>2, <2>3, <2>4 DEF LaunchAlloc
<1>3. CASE LaunchBuild(p)
  <2>1. /\ pc[p] = "build" /\ UNCHANGED <<inst, early, records>> /\ Moves(p, "cgroup", job[p])
        /\ host' = [host EXCEPT ![job[p].id] = @ \cup {"state"}] /\ job[p].id \in Ids
    BY <1>0, <1>3
    DEF LaunchBuild, Moves, Goto, TypeInv, TypeOK, JobFits, LoopSteps
  <2>2. HostKept(p) /\ RecordsKept(p)
    BY <1>a, <1>b, <2>1 DEF BootSteps
  <2>3. Apart(p, "cgroup", job[p]) /\ EarlyKept(p)
    BY <1>0, <2>1, ApartSame DEF BootSteps, EndSteps
  <2>4. StageAt(host', "cgroup", job[p])
    BY <1>0, <2>1 DEF StageAt
  <2>5. QED BY <2>1, <2>2, <2>3, <2>4, SoleKept
<1>4. CASE LaunchBuildFails(p) \/ LaunchCgroupFails(p)
  <2>1. /\ pc[p] \in {"build", "cgroup"} /\ UNCHANGED <<inst, early, records>> /\ Finish(p)
        /\ \E ps : host' = [host EXCEPT ![job[p].id] = ps]
    BY <1>4 DEF LaunchBuildFails, LaunchCgroupFails
  <2>2. HostKept(p) /\ RecordsKept(p)
    BY <1>a, <1>b, <2>1 DEF BootSteps
  <2>3. QED BY <2>1, <2>2, SoleFinish
<1>5. CASE LaunchCgroup(p)
  <2>1. /\ pc[p] = "cgroup" /\ UNCHANGED <<inst, early, records>> /\ Moves(p, "boot", job[p])
        /\ host' = [host EXCEPT ![job[p].id] = @ \cup {"leaf"}] /\ job[p].id \in Ids
    BY <1>0, <1>5
    DEF LaunchCgroup, Moves, Goto, TypeInv, TypeOK, JobFits, LoopSteps
  <2>2. HostKept(p) /\ RecordsKept(p)
    BY <1>a, <1>b, <2>1 DEF BootSteps
  <2>3. Apart(p, "boot", job[p]) /\ EarlyKept(p)
    BY <1>0, <2>1, ApartSame DEF BootSteps, EndSteps
  <2>4. job[p].id \notin early' => StageAt(host', "boot", job[p])
    BY <1>0, <2>1 DEF StageAt
  <2>5. QED BY <2>1, <2>2, <2>3, <2>4, SoleKept
<1>6. CASE LaunchBoot(p)
  <2>1. PICK q \in FreePids : job' = [job EXCEPT ![p].pid = q]
    BY <1>6 DEF LaunchBoot
  <2> DEFINE j == [job[p] EXCEPT !.pid = q]
  <2>2. /\ pc[p] = "boot" /\ UNCHANGED <<inst, early, records>> /\ Moves(p, "place", j)
        /\ j.id = job[p].id /\ j.id \in Ids
        /\ host' = [host EXCEPT ![job[p].id] = @ \cup {"chroot"}]
    BY <1>0, <1>6, <2>1 DEF LaunchBoot, Moves, Goto, Jobs, JobFits, LoopSteps
  <2> HIDE DEF j
  <2>3. HostKept(p) /\ RecordsKept(p)
    BY <1>a, <1>b, <2>2 DEF BootSteps
  <2>4. Apart(p, "place", j) /\ EarlyKept(p)
    BY <1>0, <2>2, ApartSame DEF BootSteps, EndSteps
  <2>5. j.id \notin early' => StageAt(host', "place", j)
    BY <1>0, <2>2 DEF StageAt
  <2>6. QED BY <2>2, <2>3, <2>4, <2>5, SoleKept
<1>7. CASE LaunchBootFails(p) \/ LaunchPlaceFails(p) \/ RekeyFails(p)
  BY <1>c, <1>7 DEF LaunchBootFails, LaunchPlaceFails, RekeyFails, BootSteps
<1>8. CASE LaunchPlace(p)
  <2>1. /\ pc[p] = "place" /\ UNCHANGED <<inst, early, host, records>>
        /\ Moves(p, "insert", job[p])
    BY <1>8 DEF LaunchPlace, Moves, Goto, TypeInv, TypeOK
  <2>2. HostKept(p) /\ RecordsKept(p)
    BY <1>a, <2>1 DEF HostKept
  <2>3. Apart(p, "insert", job[p]) /\ EarlyKept(p)
    BY <1>0, <2>1, ApartSame DEF BootSteps, EndSteps
  <2>4. job[p].id \notin early' => StageAt(host', "insert", job[p])
    BY <1>0, <2>1 DEF StageAt
  <2>5. QED BY <2>1, <2>2, <2>3, <2>4, SoleKept
<1>9. CASE LaunchInsert(p)
  <2> DEFINE i == job[p].id
             n == [cid |-> job[p].cid, pid |-> job[p].pid, mem |-> job[p].mem]
             j == [job[p] EXCEPT !.cid = None]
  <2>1. /\ pc[p] = "insert" /\ UNCHANGED <<early, host, records>> /\ i \in Ids
        /\ Moves(p, "save", j) /\ j.id = i /\ j.pid = job[p].pid
        /\ inst' = [inst EXCEPT ![i] = n]
    BY <1>0, <1>9 DEF LaunchInsert, Goto, JobFits, LoopSteps, Moves, Jobs
  <2>2. n # None /\ n.pid = job[p].pid
    <3>1. n \in Instances
      BY <1>0, <2>1 DEF JobFits, Jobs, Instances, CidSteps, VmmSteps, BootSteps
    <3>2. QED BY <3>1, NoneAssumption DEF Instances
  <2>3. i \notin early => host[i] = Parts
    BY <1>0, <2>1 DEF StageAt, Parts
  <2>4. /\ \A q \in Clients \ {p} : job[q].id # i
        /\ i \notin early => \A q \in Procs \ {p} : job[q].id = i => pc[q] \notin EndSteps
    BY <1>0, <2>1, NoneAssumption DEF Alone, BootSteps
  <2> HIDE DEF i, n, j
  <2>5. /\ pc'[p] = "save" /\ job'[p] = j
        /\ \A r \in Procs \ {p} : pc'[r] = pc[r] /\ job'[r] = job[r]
    BY <2>1, OneMoves
  <2>6. /\ inst'[i] = n /\ \A k \in Ids \ {i} : inst'[k] = inst[k]
        /\ Tracked' = Tracked \cup {i}
    BY <2>1, <2>2 DEF TypeInv, TypeOK, Tracked
  <2>7. Alone'
    <3>1. SUFFICES ASSUME NEW q \in Procs
                   PROVE  /\ pc'[q] \in BootSteps \cup {"save"} => q \in Clients
                          /\ q \in Clients /\ job'[q].id # None =>
                               \A r \in Clients \ {q} : job'[r].id # job'[q].id
                          /\ pc'[q] \in BootSteps => inst'[job'[q].id] = None
                          /\ pc'[q] \in BootSteps /\ job'[q].id \notin early =>
                               \A r \in Procs \ {q} : job'[r].id = job'[q].id => pc'[r] \notin EndSteps
                          /\ pc'[q] \in EndSteps /\ job'[q].id \notin early => inst'[job'[q].id] = None
                          /\ pc'[q] = "save" /\ inst'[job'[q].id] # None
                               => inst'[job'[q].id].pid = job'[q].pid
      BY <2>1 DEF Alone
    <3>2. CASE q = p
      BY <2>1, <2>2, <2>4, <2>5, <2>6, <3>2 DEF BootSteps, EndSteps, Procs
    <3>3. CASE q # p
      <4>1. pc'[q] = pc[q] /\ job'[q] = job[q] BY <2>5, <3>3
      <4>2. ASSUME q \in Clients, NEW r \in Clients \ {q}, job[q].id # None
            PROVE  job'[r].id # job[q].id
        BY <1>0, <2>1, <2>4, <2>5, <3>3, <4>2 DEF Alone, Procs
      <4>3. ASSUME pc[q] \in BootSteps, job[q].id \notin early, NEW r \in Procs \ {q},
                   job'[r].id = job[q].id
            PROVE  pc'[r] \notin EndSteps
        BY <1>0, <2>5, <4>3 DEF Alone, EndSteps
      <4>4. CASE pc[q] \in BootSteps \cup EndSteps \cup {"save"}
        <5>1. job[q].id \in Ids
          BY <4>4 DEF TypeInv, JobOK, JobFits, BootSteps, EndSteps, LoopSteps
        <5>2. pc[q] \in BootSteps \cup {"save"} => q \in Clients
          BY <1>0 DEF Alone
        <5>3. job[q].id # i \/ (pc[q] \in EndSteps /\ i \in early)
          BY <2>4, <3>3, <4>4, <5>2
        <5>4. pc[q] \in EndSteps => pc[q] \notin BootSteps \cup {"save"}
          BY DEF EndSteps, BootSteps
        <5>5. CASE job[q].id # i
          <6>1. inst'[job[q].id] = inst[job[q].id]
            BY <2>6, <5>1, <5>5
          <6>2. QED BY <1>0, <4>1, <4>2, <4>3, <5>2, <6>1 DEF Alone
        <5>6. CASE pc[q] \in EndSteps /\ i \in early /\ job[q].id = i
          BY <4>1, <4>2, <5>4, <5>6
        <5>7. QED BY <5>3, <5>5, <5>6
      <4>5. CASE pc[q] \notin BootSteps \cup EndSteps \cup {"save"}
        BY <4>1, <4>2, <4>5
      <4>6. QED BY <4>4, <4>5
    <3>4. QED BY <3>2, <3>3
  <2>8. Staged'
    <3>1. \A q \in Procs : job'[q].id \notin early => StageAt(host, pc'[q], job'[q])
      BY <2>5 DEF Sole, Staged, StageAt
    <3>2. \A k \in Tracked' \ early : host[k] = Parts
      BY <2>3, <2>6 DEF Sole, Staged
    <3>3. QED BY <2>1, <3>1, <3>2 DEF Staged, StageAt
  <2>9. Recorded'
    <3>1. SUFFICES ASSUME "redis" \notin MayFail, NEW k \in Tracked' \ early
                   PROVE  \/ records'[k] = inst'[k].pid
                          \/ \E q \in Clients : pc'[q] = "save" /\ job'[q].id = k
      BY <2>1 DEF Recorded
    <3>2. CASE k = i BY <2>1, <2>5, <3>2
    <3>3. CASE k # i
      <4>1. \/ records[k] = inst[k].pid
            \/ \E q \in Clients : pc[q] = "save" /\ job[q].id = k
        BY <2>6, <3>1, <3>3 DEF Sole, Recorded
      <4>2. QED BY <2>1, <2>5, <2>6, <3>3, <4>1 DEF Tracked, Procs
    <3>4. QED BY <3>2, <3>3
  <2>10. QED BY <2>7, <2>8, <2>9 DEF Sole
<1>10. CASE LaunchSave(p)
  <2>1. /\ pc[p] = "save" /\ UNCHANGED <<inst, early, host>> /\ Finish(p) /\ job[p].id \in Ids
        /\ \/ records' = [records EXCEPT ![job[p].id] = job[p].pid]
           \/ "redis" \in MayFail
    BY <1>0, <1>10 DEF LaunchSave, Save, JobFits, LoopSteps
  <2>2. RecordsKept(p)
    BY <2>1 DEF RecordsKept, TypeInv, TypeOK, Tracked
  <2>3. QED BY <2>1, <2>2, SoleFinish DEF HostKept
<1>11. QED
  BY <1>1, <1>2, <1>3, <1>4, <1>5, <1>6, <1>7, <1>8, <1>9, <1>10 DEF LaunchStep

LEMMA TerminateSole ==
  ASSUME TypeInv, Sole, NEW p \in Procs,
         \/ \E id \in Ids : /\ pc[p] \in {"idle", "term"} /\ TerminateLocked(p, id)
                            /\ p \in Clients => \A q \in Clients \ {p} : job[q].id # id
         \/ TerminateStep(p)
  PROVE  Sole'
<1>0. /\ Alone /\ job[p] \in Jobs /\ JobFits(pc[p], job[p])
      /\ host \in [Ids -> SUBSET Parts] /\ records \in [Ids -> Pids \cup {None}]
  BY DEF Sole, TypeInv, TypeOK, JobOK, Parts
<1>a. ASSUME UNCHANGED records, pc[p] # "save" PROVE RecordsKept(p)
  BY <1>a DEF RecordsKept
<1>1. ASSUME NEW id \in Ids, pc[p] \in {"idle", "term"}, TerminateLocked(p, id),
             p \in Clients => \A q \in Clients \ {p} : job[q].id # id
      PROVE  Sole'
  <2> DEFINE j == [NoJob EXCEPT !.kind = "terminate", !.id = id,
                     !.cid = inst[id].cid, !.pid = inst[id].pid]
  <2>1. /\ Moves(p, "halt", j) /\ j.id = id /\ inst[id] # None
        /\ inst' = [inst EXCEPT ![id] = None] /\ UNCHANGED <<early, host, records>>
    BY <1>1 DEF TerminateLocked, Moves, Goto, NoJob
  <2> HIDE DEF j
  <2>2. /\ pc'[p] = "halt" /\ job'[p] = j
        /\ \A r \in Procs \ {p} : pc'[r] = pc[r] /\ job'[r] = job[r]
    BY <2>1, OneMoves
  <2>3. /\ inst'[id] = None /\ \A k \in Ids \ {id} : inst'[k] = inst[k]
        /\ Tracked' = Tracked \ {id}
    BY <2>1 DEF TypeInv, TypeOK, Tracked
  <2>4. Alone'
    <3>1. SUFFICES ASSUME NEW q \in Procs
                   PROVE  /\ pc'[q] \in BootSteps \cup {"save"} => q \in Clients
                          /\ q \in Clients /\ job'[q].id # None =>
                               \A r \in Clients \ {q} : job'[r].id # job'[q].id
                          /\ pc'[q] \in BootSteps => inst'[job'[q].id] = None
                          /\ pc'[q] \in BootSteps /\ job'[q].id \notin early =>
                               \A r \in Procs \ {q} : job'[r].id = job'[q].id => pc'[r] \notin EndSteps
                          /\ pc'[q] \in EndSteps /\ job'[q].id \notin early => inst'[job'[q].id] = None
                          /\ pc'[q] = "save" /\ inst'[job'[q].id] # None
                               => inst'[job'[q].id].pid = job'[q].pid
      BY <2>1 DEF Alone
    <3>2. CASE q = p
      BY <1>1, <2>1, <2>2, <2>3, <3>2 DEF BootSteps, EndSteps, Procs
    <3>3. CASE q # p
      <4>1. pc'[q] = pc[q] /\ job'[q] = job[q] BY <2>2, <3>3
      <4>2. ASSUME q \in Clients, NEW r \in Clients \ {q}, job[q].id # None
            PROVE  job'[r].id # job[q].id
        BY <1>0, <1>1, <2>1, <2>2, <3>3, <4>2 DEF Alone, Procs
      <4>3. CASE pc[q] \in BootSteps \cup EndSteps \cup {"save"}
        <5>1. job[q].id \in Ids
          BY <4>3 DEF TypeInv, JobOK, JobFits, BootSteps, EndSteps, LoopSteps
        <5>2. inst'[job[q].id] \in {None, inst[job[q].id]}
          BY <2>3, <5>1
        <5>3. ASSUME pc[q] \in BootSteps PROVE job[q].id # id
          BY <1>0, <2>1, <5>3 DEF Alone
        <5>4. ASSUME pc[q] \in BootSteps, job[q].id \notin early, NEW r \in Procs \ {q},
                     job'[r].id = job[q].id
              PROVE  pc'[r] \notin EndSteps
          <6>1. r # p BY <2>1, <2>2, <5>3, <5>4
          <6>2. QED BY <1>0, <2>2, <5>4, <6>1 DEF Alone
        <5>5. QED BY <1>0, <4>1, <4>2, <5>2, <5>4 DEF Alone
      <4>4. CASE pc[q] \notin BootSteps \cup EndSteps \cup {"save"}
        BY <4>1, <4>2, <4>4
      <4>5. QED BY <4>3, <4>4
    <3>4. QED BY <3>2, <3>3
  <2>5. Staged'
    <3>1. \A q \in Procs : job'[q].id \notin early => StageAt(host, pc'[q], job'[q])
      BY <2>2 DEF Sole, Staged, StageAt
    <3>2. \A k \in Tracked' \ early : host[k] = Parts
      BY <2>3 DEF Sole, Staged
    <3>3. QED BY <2>1, <3>1, <3>2 DEF Staged, StageAt
  <2>6. Recorded'
    <3>1. SUFFICES ASSUME "redis" \notin MayFail, NEW k \in Tracked' \ early
                   PROVE  \/ records'[k] = inst'[k].pid
                          \/ \E q \in Clients : pc'[q] = "save" /\ job'[q].id = k
      BY <2>1 DEF Recorded
    <3>2. k \in Tracked \ early /\ inst'[k] = inst[k]
      BY <2>3, <3>1 DEF Tracked
    <3>3. \/ records[k] = inst[k].pid
          \/ \E q \in Clients : pc[q] = "save" /\ job[q].id = k
      BY <3>1, <3>2 DEF Sole, Recorded
    <3>4. QED BY <1>1, <2>1, <2>2, <3>2, <3>3 DEF Procs
  <2>7. QED BY <2>4, <2>5, <2>6 DEF Sole
<1>2. CASE TerminateChosen(p)
  <2>1. job[p].id \in Ids /\ job[p].id # None
    BY <1>0, <1>2, NoneAssumption DEF TerminateChosen, JobFits, LoopSteps
  <2>2. p \in Clients => \A q \in Clients \ {p} : job[q].id # job[p].id
    BY <1>0, <2>1 DEF Alone
  <2>3. QED BY <1>1, <1>2, <2>1, <2>2 DEF TerminateChosen
<1>3. CASE TerminateNotFound(p)
  <2>1. UNCHANGED <<inst, early, host, records>> /\ pc[p] = "term" /\ Finish(p)
    BY <1>3 DEF TerminateNotFound
  <2>2. QED BY <1>a, <2>1, SoleFinish DEF HostKept
<1>4. CASE TerminateHalt(p)
  <2>1. /\ pc[p] = "halt" /\ UNCHANGED <<inst, early, host, records>>
        /\ Moves(p, "reclaim", job[p])
    BY <1>4 DEF TerminateHalt, Moves, Goto, TypeInv, TypeOK
  <2>2. HostKept(p) /\ RecordsKept(p)
    BY <1>a, <2>1 DEF HostKept
  <2>3. Apart(p, "reclaim", job[p]) /\ EarlyKept(p)
    BY <1>0, <2>1, ApartSame DEF BootSteps, EndSteps
  <2>4. StageAt(host', "reclaim", job[p])
    BY DEF StageAt
  <2>5. QED BY <2>1, <2>2, <2>3, <2>4, SoleKept
<1>5. CASE TerminateReclaim(p)
  <2> DEFINE j == [job[p] EXCEPT !.cid = None]
  <2>1. /\ pc[p] = "reclaim" /\ UNCHANGED <<inst, early, records>> /\ Moves(p, "unrecord", j)
        /\ j.id = job[p].id /\ \E ps : host' = [host EXCEPT ![job[p].id] = ps]
    BY <1>0, <1>5 DEF TerminateReclaim, Moves, Goto, Jobs
  <2> HIDE DEF j
  <2>2. HostKept(p) /\ RecordsKept(p)
    BY <1>0, <1>a, <2>1 DEF HostKept
  <2>3. Apart(p, "unrecord", j) /\ EarlyKept(p)
    BY <1>0, <2>1, ApartSame DEF BootSteps, EndSteps
  <2>4. StageAt(host', "unrecord", j)
    BY DEF StageAt
  <2>5. QED BY <2>1, <2>2, <2>3, <2>4, SoleKept
<1>6. CASE TerminateUnrecord(p)
  <2>1. /\ pc[p] = "unrecord" /\ UNCHANGED <<inst, early, host>> /\ Finish(p)
        /\ records' = [records EXCEPT ![job[p].id] = None] \/ UNCHANGED records
    BY <1>6 DEF TerminateUnrecord, Remove
  <2>2. job[p].id \notin Tracked \ early
    BY <1>0, <2>1 DEF Alone, EndSteps, Tracked
  <2>3. RecordsKept(p)
    BY <1>0, <2>1, <2>2 DEF RecordsKept, Tracked
  <2>4. QED BY <2>1, <2>3, SoleFinish DEF HostKept
<1>7. QED
  BY <1>1, <1>2, <1>3, <1>4, <1>5, <1>6 DEF TerminateStep

LEMMA StopSole ==
  ASSUME TypeInv, OnePerId, Sole, NEW p \in Clients, StopLookup(p) \/ StopStep(p)
  PROVE  Sole'
<1>. p \in Procs BY DEF Procs
<1>0. Alone /\ job[p] \in Jobs
  BY DEF Sole, TypeInv, TypeOK
<1>a. ASSUME UNCHANGED records, pc[p] # "save" PROVE RecordsKept(p)
  BY <1>a DEF RecordsKept
<1>1. CASE StopLookup(p)
  <2>1. PICK id \in Ids :
          /\ MayStart(p, id)
          /\ job' = [job EXCEPT ![p] = [NoJob EXCEPT !.kind = "stop", !.id = id,
                                          !.pid = inst[id].pid]]
    BY <1>1 DEF StopLookup
  <2> DEFINE j == [NoJob EXCEPT !.kind = "stop", !.id = id, !.pid = inst[id].pid]
  <2>2. /\ UNCHANGED <<inst, early, host, records>> /\ pc[p] = "idle" /\ Moves(p, "pause", j)
        /\ j.id = id
    BY <1>1, <2>1 DEF StopLookup, MayStart, Goto, Moves, NoJob
  <2>3. \A q \in Clients : job[q].id # id
    BY <2>1 DEF MayStart
  <2> HIDE DEF j
  <2>4. Apart(p, "pause", j) /\ EarlyKept(p)
    BY <2>2, <2>3 DEF Apart, EarlyKept, BootSteps, EndSteps
  <2>5. StageAt(host', "pause", j)
    BY DEF StageAt
  <2>6. QED BY <1>a, <2>2, <2>4, <2>5, SoleKept DEF HostKept
<1>2. CASE StopPause(p)
  <2>1. /\ pc[p] = "pause" /\ UNCHANGED <<inst, early, host, records>>
        /\ Moves(p, "capture", job[p])
    BY <1>2 DEF StopPause, Moves, Goto, TypeInv, TypeOK
  <2>2. Apart(p, "capture", job[p]) /\ EarlyKept(p)
    BY <1>0, <2>1, ApartSame DEF BootSteps, EndSteps
  <2>3. StageAt(host', "capture", job[p])
    BY DEF StageAt
  <2>4. QED BY <1>a, <2>1, <2>2, <2>3, SoleKept DEF HostKept
<1>3. CASE StopCapture(p)
  <2> DEFINE j == [job[p] EXCEPT !.pid = None]
  <2>1. /\ pc[p] = "capture" /\ UNCHANGED <<inst, early, host, records>> /\ Moves(p, "term", j)
        /\ j.id = job[p].id
    BY <1>0, <1>3 DEF StopCapture, Moves, Goto, Jobs
  <2> HIDE DEF j
  <2>2. Apart(p, "term", j) /\ EarlyKept(p)
    BY <1>0, <2>1, ApartSame DEF BootSteps, EndSteps
  <2>3. StageAt(host', "term", j)
    BY DEF StageAt
  <2>4. QED BY <1>a, <2>1, <2>2, <2>3, SoleKept DEF HostKept
<1>4. CASE StopFails(p)
  <2>1. /\ pc[p] \in {"pause", "capture"} /\ UNCHANGED <<inst, early, host, records>>
        /\ Finish(p)
    BY <1>4 DEF StopFails
  <2>2. QED BY <1>a, <2>1, SoleFinish DEF HostKept
<1>5. QED BY <1>1, <1>2, <1>3, <1>4 DEF StopStep

\* Reaper or main hands an id to Terminate, whoever else works on that id.
LEMMA SoleChosen ==
  ASSUME TypeInv, Sole, NEW p \in Procs \ Clients, pc[p] # "save", NEW j, Moves(p, "term", j),
         UNCHANGED <<inst, early, host, records>>
  PROVE  Sole'
<1>1. Apart(p, "term", j) /\ EarlyKept(p) /\ StageAt(host', "term", j)
  BY DEF Apart, EarlyKept, StageAt, BootSteps, EndSteps
<1>2. HostKept(p) /\ RecordsKept(p)
  BY DEF HostKept, RecordsKept
<1>3. QED BY <1>1, <1>2, SoleKept

\* A loop goes on without an operation.
LEMMA SoleLoops ==
  ASSUME TypeInv, Closed, Sole, NEW p \in Procs, pc[p] \in LoopSteps, NEW s \in LoopSteps,
         Goto(p, s), UNCHANGED <<inst, job, early, host, records>>
  PROVE  Sole'
<1>1. Moves(p, s, NoJob)
  BY DEF Closed, Moves, Goto, TypeInv, TypeOK
<1>2. HostKept(p) /\ RecordsKept(p)
  BY DEF HostKept, RecordsKept, LoopSteps
<1>3. QED BY <1>1, <1>2, SoleRests

LEMMA ReaperSole ==
  ASSUME TypeInv, Closed, Sole, ReaperStep
  PROVE  Sole'
<1>. Reaper \in Procs \ Clients BY ProcsAssumption DEF Procs
<1>1. CASE ReapList \/ ReapDone
  BY <1>1, SoleLoops DEF ReapList, ReapDone, LoopSteps
<1>2. CASE ReapProbe
  <2>1. PICK e \in todo[Reaper] :
          IF processAlive(e[2])
          THEN UNCHANGED <<pc, job>>
          ELSE /\ Goto(Reaper, "term")
               /\ job' = [job EXCEPT ![Reaper] = [NoJob EXCEPT !.kind = "terminate", !.id = e[1]]]
    BY <1>2 DEF ReapProbe
  <2>2. pc[Reaper] = "reap" /\ UNCHANGED <<inst, early, host, records>>
    BY <1>2 DEF ReapProbe
  <2>3. CASE UNCHANGED <<pc, job>>
    <3>1. Goto(Reaper, "reap")
      BY <2>2, <2>3 DEF Goto, TypeInv, TypeOK
    <3>2. QED BY <2>2, <2>3, <3>1, SoleLoops DEF LoopSteps
  <2>4. CASE ~processAlive(e[2])
    <3> DEFINE j == [NoJob EXCEPT !.kind = "terminate", !.id = e[1]]
    <3>1. Moves(Reaper, "term", j)
      BY <2>1, <2>4 DEF Moves, Goto
    <3> HIDE DEF j
    <3>2. QED BY <2>2, <3>1, SoleChosen
  <2>5. QED BY <2>1, <2>3, <2>4
<1>3. CASE TerminateStep(Reaper)
  BY <1>3, TerminateSole
<1>4. QED BY <1>1, <1>2, <1>3 DEF ReaperStep

\* Nothing is tracked, no goroutine launches, ends or saves anything, no handler works.
Empty ==
  /\ \A id \in Ids : inst[id] = None
  /\ \A p \in Procs : pc[p] \notin BootSteps \cup EndSteps \cup {"save"}
  /\ \A p \in Clients : job[p].id = None

LEMMA SoleWhenEmpty == Empty => Sole
  BY DEF Empty, Sole, Alone, Staged, StageAt, Recorded, Tracked, BootSteps

LEMMA EmptyWhenDown ==
  ASSUME Closed, phase \in {"down", "reconciling"}
  PROVE  Empty
<1>1. \A id \in Ids : inst[id] = None
  BY DEF Closed, Tracked
<1>2. \A p \in Procs : pc[p] \in {"idle", "gc", "gcRecord"}
  BY DEF Closed
<1>3. \A p \in Clients : pc[p] = "idle" /\ p \in Procs
  BY ProcsAssumption DEF Closed, Procs
<1>4. \A p \in Clients : job[p].id = None
  BY <1>3 DEF Closed, LoopSteps, NoJob
<1>5. QED BY <1>1, <1>2, <1>4 DEF Empty, BootSteps, EndSteps

LEMMA SoleWhenDown == Closed' /\ (phase \in {"down", "reconciling"})' => Sole'
<1>1. Closed /\ phase \in {"down", "reconciling"} => Sole
  BY EmptyWhenDown, SoleWhenEmpty
<1>2. QED BY <1>1, PTL

LEMMA MainSole ==
  ASSUME TypeInv, StrayInv, Sole, MainStep, StrayInv'
  PROVE  Sole'
<1>. Main \in Procs \ Clients BY ProcsAssumption DEF Procs
<1>0. Closed /\ Closed' BY DEF StrayInv
<1>1. CASE Start \/ Serve \/ DrainList
  <2>1. \E s \in LoopSteps : /\ Goto(Main, s) /\ pc[Main] \in LoopSteps
                             /\ UNCHANGED <<inst, job, early, host, records>>
    BY <1>1 DEF Start, Serve, DrainList, LoopSteps
  <2>2. QED BY <1>0, <2>1, SoleLoops
<1>2. CASE ReconcileKill \/ gcRecord
  <2>1. phase' = "reconciling"
    BY <1>0, <1>2 DEF ReconcileKill, gcRecord, Closed
  <2>2. QED BY <1>0, <2>1, SoleWhenDown
<1>3. CASE DrainNext
  <2>1. PICK e \in todo[Main] :
          job' = [job EXCEPT ![Main] = [NoJob EXCEPT !.kind = "terminate", !.id = e[1]]]
    BY <1>3 DEF DrainNext
  <2> DEFINE j == [NoJob EXCEPT !.kind = "terminate", !.id = e[1]]
  <2>2. /\ pc[Main] = "drain" /\ UNCHANGED <<inst, early, host, records>>
        /\ Moves(Main, "term", j)
    BY <1>3, <2>1 DEF DrainNext, Moves, Goto
  <2> HIDE DEF j
  <2>3. QED BY <2>2, SoleChosen
<1>4. CASE Exit
  BY <1>0, <1>4, SoleWhenDown DEF Exit, Die
<1>5. CASE TerminateStep(Main)
  BY <1>5, TerminateSole
<1>6. QED BY <1>1, <1>2, <1>3, <1>4, <1>5 DEF MainStep

LEMMA SoleSame ==
  ASSUME Sole, UNCHANGED <<inst, pc, job, early, host, records>>
  PROVE  Sole'
  BY DEF Sole, Alone, Staged, StageAt, Recorded, Tracked

LEMMA NextSole == TypeInv /\ StrayInv /\ SoleInv /\ [Next]_vars /\ StrayInv' => SoleInv'
<1> SUFFICES ASSUME TypeInv, StrayInv, Sole, OnePerId, [Next]_vars, StrayInv' PROVE Sole'
  BY DEF SoleInv
<1>0. Closed /\ Closed' BY DEF StrayInv
<1>1. ASSUME NEW p \in Clients, Request(p) \/ ClientStep(p) PROVE Sole'
  <2>1. p \in Procs BY DEF Procs
  <2>2. TerminateRequest(p)
          => \E id \in Ids : /\ pc[p] \in {"idle", "term"} /\ TerminateLocked(p, id)
                             /\ p \in Clients => \A q \in Clients \ {p} : job[q].id # id
    BY DEF TerminateRequest, MayStart
  <2>3. QED
    BY <1>1, <2>1, <2>2, LaunchSole, TerminateSole, StopSole DEF Request, ClientStep
<1>2. CASE Environment
  <2>1. CASE Crash
    BY <1>0, <2>1, SoleWhenDown DEF Crash, Die
  <2>2. CASE Shutdown \/ \E q \in Pids : VmmExits(q) \/ PidReused(q)
    BY <2>2, SoleSame DEF Shutdown, VmmExits, PidReused, volatile
  <2>3. QED BY <1>2, <2>1, <2>2 DEF Environment
<1>3. CASE UNCHANGED vars
  BY <1>3, SoleSame DEF vars, volatile
<1>4. QED
  BY <1>0, <1>1, <1>2, <1>3, ReaperSole, MainSole DEF Next

LEMMA SoleInvariant == Spec => []SoleInv
<1>1. Init => SoleInv
  <2>1. Init => Empty
    BY DEF Init, InitVolatile, Empty, NoJob, BootSteps, EndSteps, Procs
  <2>2. QED BY <2>1, SoleWhenEmpty DEF SoleInv
<1>2. TypeInv /\ StrayInv /\ SoleInv /\ [Next]_vars => SoleInv'
  BY NextStray, NextSole
<1>3. Spec => []TypeInv
  BY InitTypeInv, NextTypes, PTL DEF Spec
<1>4. QED
  BY <1>1, <1>2, <1>3, StrayInvariant, PTL DEF Spec

\* When callers wait for each answer, a tracked sandbox has its disk, chroot and leaf, however
\* the reaper, shutdown, failures and crashes come in between: no stale launch, termination or
\* reaping has taken any of them away, unless it was launched while the Terminate of its
\* predecessor was still at work (early).
THEOREM TrackedStaysWhole == Spec => []TrackedIsWhole
<1>1. SoleInv => TrackedIsWhole
  BY DEF SoleInv, Sole, Staged, Parts, TrackedIsWhole
<1>2. QED BY <1>1, SoleInvariant, PTL

\* With such callers and a working Redis it has a record that names its VMM, or its launch is
\* about to write one, with the same exception.
THEOREM TrackedStaysDurable == Spec => []TrackedIsDurable
<1>1. SoleInv => TrackedIsDurable
  BY DEF SoleInv, Sole, Recorded, TrackedIsDurable
<1>2. QED BY <1>1, SoleInvariant, PTL

-----------------------------------------------------------------------------
(* Sums over finite sets.  Induction is over the subsets of a finite set:   *)
(* were a claim false of some, it would be false of a minimal one.          *)

\* What SumFunctionOnSet computes: it takes the elements of a set one by one.
Pick(s) == CHOOSE x \in s : TRUE
Adds(f, S, g) == g = [s \in SUBSET S |-> IF s = {} THEN 0 ELSE f[Pick(s)] + g[s \ {Pick(s)}]]

\* Of the subsets of a finite set with some property one is minimal.
LEMMA MinimalSubset ==
  ASSUME NEW S, IsFiniteSet(S), NEW B \in SUBSET SUBSET S, B # {}
  PROVE  \E T \in B : \A U \in B : U \subseteq T => U = T
<1>1. IsWellFoundedOn(StrictSubsetOrdering(S), SUBSET S)
  BY FS_StrictSubsetOrderingWellFounded, FS_FiniteSubsetsOfFinite
<1>2. PICK T \in B : \A U \in B : ~(<<U, T>> \in StrictSubsetOrdering(S))
  <2>1. B \subseteq SUBSET S OBVIOUS
  <2>2. QED BY <1>1, <2>1, WFMin
<1>3. QED
  BY <1>2 DEF StrictSubsetOrdering

LEMMA PickIn ==
  ASSUME NEW S, S # {}
  PROVE  Pick(S) \in S
<1>1. \E x \in S : TRUE OBVIOUS
<1>2. QED BY <1>1, Zenon DEF Pick

\* One step of the sum of f over a subset of S.
LEMMA AddsStep ==
  ASSUME NEW f, NEW S, NEW g, Adds(f, S, g), NEW s \in SUBSET S
  PROVE  g[s] = IF s = {} THEN 0 ELSE f[Pick(s)] + g[s \ {Pick(s)}]
  BY DEF Adds

LEMMA AddsUnique ==
  ASSUME NEW S, IsFiniteSet(S), NEW f, NEW g, NEW h, NEW T, NEW U,
         S \subseteq T, S \subseteq U, Adds(f, T, g), Adds(f, U, h)
  PROVE  g[S] = h[S]
<1> DEFINE B == {s \in SUBSET S : g[s] # h[s]}
<1>1. SUFFICES ASSUME B # {} PROVE FALSE
  OBVIOUS
<1>2. PICK s \in B : \A t \in B : t \subseteq s => t = s
  <2>1. B \in SUBSET SUBSET S OBVIOUS
  <2> HIDE DEF B
  <2>2. QED BY <1>1, <2>1, MinimalSubset
<1>3. /\ g[s] = IF s = {} THEN 0 ELSE f[Pick(s)] + g[s \ {Pick(s)}]
      /\ h[s] = IF s = {} THEN 0 ELSE f[Pick(s)] + h[s \ {Pick(s)}]
  <2>1. s \in SUBSET T /\ s \in SUBSET U BY <1>2
  <2>2. QED BY <2>1, AddsStep
<1>4. s # {} => Pick(s) \in s
  BY PickIn
<1>5. s # {} => s \ {Pick(s)} \notin B
  BY <1>2, <1>4
<1>6. QED BY <1>2, <1>3, <1>5

LEMMA AddsExists ==
  ASSUME NEW S, IsFiniteSet(S), NEW f
  PROVE  \E g : Adds(f, S, g)
<1> DEFINE B == {s \in SUBSET S : ~\E g : Adds(f, s, g)}
<1>1. SUFFICES ASSUME B # {} PROVE FALSE
  OBVIOUS
<1>2. PICK T \in B : \A t \in B : t \subseteq T => t = T
  <2>1. B \in SUBSET SUBSET S OBVIOUS
  <2> HIDE DEF B
  <2>2. QED BY <1>1, <2>1, MinimalSubset
<1>3. IsFiniteSet(T)
  BY <1>2, FS_Subset
<1> DEFINE Of(s) == CHOOSE g : Adds(f, s, g)
           V(s) == IF s = {} THEN 0 ELSE f[Pick(s)] + Of(s \ {Pick(s)})[s \ {Pick(s)}]
           G == [s \in SUBSET T |-> V(s)]
<1>4. ASSUME NEW s \in SUBSET T, s # T PROVE Adds(f, s, Of(s))
  <2>1. \E g : Adds(f, s, g) BY <1>2, <1>4
  <2>2. QED BY <2>1, Zenon
<1>5. ASSUME NEW s \in SUBSET T, s # {}
      PROVE  Of(s \ {Pick(s)})[s \ {Pick(s)}] = G[s \ {Pick(s)}]
  <2> DEFINE t == s \ {Pick(s)}
  <2>1. t \in SUBSET T /\ t # T /\ Pick(s) \in s
    BY <1>5, PickIn
  <2>2. Adds(f, t, Of(t))
    BY <1>4, <2>1
  <2>3. CASE t = {}
    BY <2>1, <2>2, <2>3, AddsStep
  <2>4. CASE t # {}
    <3> DEFINE u == t \ {Pick(t)}
    <3>1. u \in SUBSET T /\ u \in SUBSET t /\ u # T /\ IsFiniteSet(u)
      BY <1>3, <2>1, FS_Subset
    <3>2. Adds(f, u, Of(u))
      BY <1>4, <3>1
    <3>3. Of(t)[t] = f[Pick(t)] + Of(t)[u]
      <4>1. t \in SUBSET t /\ u = t \ {Pick(t)} OBVIOUS
      <4> HIDE DEF Of, t, u
      <4>2. QED BY <2>2, <2>4, <4>1, AddsStep
    <3>4. Of(t)[u] = Of(u)[u]
      <4> HIDE DEF Of, t, u
      <4>1. QED BY <2>2, <3>1, <3>2, AddsUnique
    <3>5. G[t] = f[Pick(t)] + Of(u)[u]
      BY <2>1, <2>4
    <3>6. QED BY <3>3, <3>4, <3>5
  <2>5. QED BY <2>3, <2>4
<1>6. G = [s \in SUBSET T |-> IF s = {} THEN 0 ELSE f[Pick(s)] + G[s \ {Pick(s)}]]
  <2>1. \A s \in SUBSET T : V(s) = IF s = {} THEN 0 ELSE f[Pick(s)] + G[s \ {Pick(s)}]
    <3> HIDE DEF G, Of
    <3>1. QED BY <1>5
  <2> HIDE DEF V
  <2>2. QED BY <2>1
<1>7. Adds(f, T, G)
  <2> HIDE DEF G
  <2>1. QED BY <1>6 DEF Adds
<1>8. QED BY <1>2, <1>7

LEMMA SumIs ==
  ASSUME NEW f, NEW S
  PROVE  SumFunctionOnSet(f, S) = (CHOOSE g : Adds(f, S, g))[S]
  BY DEF SumFunctionOnSet, FoldFunctionOnSet, MapThenFoldSet, Adds, Pick

\* The sum over the empty set, and over another one by what Pick takes first.
LEMMA SumFirst ==
  ASSUME NEW f, NEW S, IsFiniteSet(S)
  PROVE  /\ S = {} => SumFunctionOnSet(f, S) = 0
         /\ S # {} => SumFunctionOnSet(f, S)
                        = f[Pick(S)] + SumFunctionOnSet(f, S \ {Pick(S)})
<1> DEFINE Of(s) == CHOOSE g : Adds(f, s, g)
<1>1. ASSUME NEW s \in SUBSET S PROVE Adds(f, s, Of(s)) /\ SumFunctionOnSet(f, s) = Of(s)[s]
  <2>1. IsFiniteSet(s) BY FS_Subset
  <2>2. \E g : Adds(f, s, g) BY <2>1, AddsExists
  <2>3. QED BY <2>2, SumIs, Zenon
<1> HIDE DEF Of
<1>2. Of(S)[S] = IF S = {} THEN 0 ELSE f[Pick(S)] + Of(S)[S \ {Pick(S)}]
  BY <1>1, AddsStep
<1>3. ASSUME S # {} PROVE Of(S)[S \ {Pick(S)}] = Of(S \ {Pick(S)})[S \ {Pick(S)}]
  <2> DEFINE t == S \ {Pick(S)}
  <2>1. t \in SUBSET S /\ t \subseteq t /\ t \subseteq S /\ IsFiniteSet(t)
    BY FS_Subset
  <2> HIDE DEF t
  <2>2. Of(S)[t] = Of(t)[t]
    BY <1>1, <2>1, AddsUnique
  <2>3. QED BY <2>2 DEF t
<1>4. QED BY <1>1, <1>2, <1>3

\* A sum of numbers is a number.
LEMMA SumType ==
  ASSUME NEW f, NEW S, IsFiniteSet(S), \A x \in S : f[x] \in Nat
  PROVE  SumFunctionOnSet(f, S) \in Nat
<1> DEFINE B == {s \in SUBSET S : SumFunctionOnSet(f, s) \notin Nat}
<1>1. SUFFICES ASSUME B # {} PROVE FALSE
  OBVIOUS
<1>2. PICK s \in B : \A t \in B : t \subseteq s => t = s
  <2>1. B \in SUBSET SUBSET S OBVIOUS
  <2> HIDE DEF B
  <2>2. QED BY <1>1, <2>1, MinimalSubset
<1>3. IsFiniteSet(s) BY <1>2, FS_Subset
<1>4. CASE s = {}
  <2>1. SumFunctionOnSet(f, s) = 0 BY <1>3, <1>4, SumFirst
  <2>2. QED BY <1>2, <2>1
<1>5. CASE s # {}
  <2>1. Pick(s) \in s BY <1>5, PickIn
  <2>2. s \ {Pick(s)} \notin B BY <1>2, <2>1
  <2>3. SumFunctionOnSet(f, s \ {Pick(s)}) \in Nat /\ f[Pick(s)] \in Nat
    BY <1>2, <2>1, <2>2
  <2>4. SumFunctionOnSet(f, s) = f[Pick(s)] + SumFunctionOnSet(f, s \ {Pick(s)})
    BY <1>3, <1>5, SumFirst
  <2>5. QED BY <1>2, <2>3, <2>4
<1>6. QED BY <1>4, <1>5

\* Any element may be taken out of a sum, not just the one Pick takes.
LEMMA SumTakeOut ==
  ASSUME NEW f, NEW S, IsFiniteSet(S), \A x \in S : f[x] \in Nat, NEW a \in S
  PROVE  SumFunctionOnSet(f, S) = f[a] + SumFunctionOnSet(f, S \ {a})
<1> DEFINE Sum(s) == SumFunctionOnSet(f, s)
           B == {s \in SUBSET S : \E x \in s : Sum(s) # f[x] + Sum(s \ {x})}
<1>1. SUFFICES ASSUME B # {} PROVE FALSE
  OBVIOUS
<1>2. PICK s \in B : \A t \in B : t \subseteq s => t = s
  <2>1. B \in SUBSET SUBSET S OBVIOUS
  <2> HIDE DEF B
  <2>2. QED BY <1>1, <2>1, MinimalSubset
<1>3. PICK x \in s : Sum(s) # f[x] + Sum(s \ {x})
  BY <1>2
<1> DEFINE y == Pick(s)
           r == (s \ {x}) \ {y}
<1>4. y \in s BY <1>3, PickIn
<1>5. /\ IsFiniteSet(s) /\ IsFiniteSet(s \ {y}) /\ IsFiniteSet(s \ {x}) /\ IsFiniteSet(r)
      /\ s \in SUBSET S
  BY <1>2, FS_Subset
<1>6. Sum(s) = f[y] + Sum(s \ {y})
  BY <1>3, <1>5, SumFirst
<1>7. CASE x = y
  BY <1>3, <1>6, <1>7
<1>8. CASE x # y
  <2>1. s \ {y} \notin B /\ s \ {x} \notin B
    BY <1>2, <1>3, <1>4
  <2>2. Sum(s \ {y}) = f[x] + Sum((s \ {y}) \ {x})
    BY <1>3, <1>5, <1>8, <2>1
  <2>3. Sum(s \ {x}) = f[y] + Sum(r)
    BY <1>4, <1>5, <1>8, <2>1
  <2>4. (s \ {y}) \ {x} = r
    OBVIOUS
  <2>5. Sum(r) \in Nat /\ f[x] \in Nat /\ f[y] \in Nat
    <3>1. \A z \in r : f[z] \in Nat BY <1>5
    <3> HIDE DEF r
    <3>2. Sum(r) \in Nat BY <1>5, <3>1, SumType
    <3>3. QED BY <1>3, <1>4, <1>5, <3>2
  <2> HIDE DEF Sum, r, y
  <2>6. QED BY <1>3, <1>6, <2>2, <2>3, <2>4, <2>5
<1>9. QED BY <1>7, <1>8

\* A sum depends on the values at the elements only.
LEMMA SumSame ==
  ASSUME NEW f, NEW g, NEW S, IsFiniteSet(S), \A x \in S : f[x] = g[x]
  PROVE  SumFunctionOnSet(f, S) = SumFunctionOnSet(g, S)
<1> DEFINE B == {s \in SUBSET S : SumFunctionOnSet(f, s) # SumFunctionOnSet(g, s)}
<1>1. SUFFICES ASSUME B # {} PROVE FALSE
  OBVIOUS
<1>2. PICK s \in B : \A t \in B : t \subseteq s => t = s
  <2>1. B \in SUBSET SUBSET S OBVIOUS
  <2> HIDE DEF B
  <2>2. QED BY <1>1, <2>1, MinimalSubset
<1>3. IsFiniteSet(s) BY <1>2, FS_Subset
<1>4. CASE s = {}
  BY <1>2, <1>3, <1>4, SumFirst
<1>5. CASE s # {}
  <2>1. Pick(s) \in s BY <1>5, PickIn
  <2>2. s \ {Pick(s)} \notin B BY <1>2, <2>1
  <2>3. /\ SumFunctionOnSet(f, s) = f[Pick(s)] + SumFunctionOnSet(f, s \ {Pick(s)})
        /\ SumFunctionOnSet(g, s) = g[Pick(s)] + SumFunctionOnSet(g, s \ {Pick(s)})
    BY <1>3, <1>5, SumFirst
  <2>4. QED BY <1>2, <2>1, <2>2, <2>3
<1>6. QED BY <1>4, <1>5

\* A sum of numbers up to m.
LEMMA SumBound ==
  ASSUME NEW f, NEW S, IsFiniteSet(S), NEW m \in Nat, \A x \in S : f[x] \in 0 .. m
  PROVE  SumFunctionOnSet(f, S) <= Cardinality(S) * m
<1> DEFINE Sum(s) == SumFunctionOnSet(f, s)
           B == {s \in SUBSET S : ~(Sum(s) <= Cardinality(s) * m)}
<1>1. SUFFICES ASSUME B # {} PROVE FALSE
  OBVIOUS
<1>2. PICK s \in B : \A t \in B : t \subseteq s => t = s
  <2>1. B \in SUBSET SUBSET S OBVIOUS
  <2> HIDE DEF B
  <2>2. QED BY <1>1, <2>1, MinimalSubset
<1>3. IsFiniteSet(s) /\ s \in SUBSET S BY <1>2, FS_Subset
<1>4. CASE s = {}
  <2>1. Sum(s) = 0 BY <1>3, <1>4, SumFirst
  <2>2. Cardinality(s) = 0 BY <1>4, FS_EmptySet
  <2>3. ~(Sum(s) <= Cardinality(s) * m) BY <1>2
  <2> HIDE DEF Sum
  <2>4. QED BY <2>1, <2>2, <2>3
<1>5. CASE s # {}
  <2> DEFINE t == s \ {Pick(s)}
  <2>1. Pick(s) \in s BY <1>5, PickIn
  <2>2. t \notin B /\ t \in SUBSET S BY <1>2, <2>1
  <2>3. Sum(t) <= Cardinality(t) * m BY <2>2
  <2>4. Sum(s) = f[Pick(s)] + Sum(t)
    BY <1>3, <1>5, SumFirst
  <2>5. IsFiniteSet(t) /\ Cardinality(t) = Cardinality(s) - 1
    BY <1>3, <2>1, FS_RemoveElement
  <2>6. Cardinality(s) \in Nat /\ Cardinality(t) \in Nat
    BY <1>3, <2>5, FS_CardinalityType
  <2>7. Sum(t) \in Nat
    <3>1. \A x \in t : f[x] \in Nat BY <2>2
    <3> HIDE DEF t
    <3>2. QED BY <2>5, <3>1, SumType
  <2>8. f[Pick(s)] \in 0 .. m
    BY <1>3, <2>1
  <2>9. Cardinality(s) * m = Cardinality(t) * m + m
    <3> DEFINE c == Cardinality(t)
    <3>1. c \in Nat /\ Cardinality(s) = c + 1
      BY <2>5, <2>6
    <3> HIDE DEF c
    <3>2. (c + 1) * m = c * m + m
      BY <3>1
    <3>3. QED BY <3>1, <3>2 DEF c
  <2>10. ~(Sum(s) <= Cardinality(s) * m)
    BY <1>2
  <2>11. Cardinality(t) * m \in Nat
    BY <2>6
  <2> HIDE DEF Sum, t
  <2>12. QED BY <2>3, <2>4, <2>7, <2>8, <2>9, <2>10, <2>11
<1>6. QED BY <1>4, <1>5

\* A sum over fewer elements is not larger.
LEMMA SumSubset ==
  ASSUME NEW f, NEW S, IsFiniteSet(S), \A x \in S : f[x] \in Nat, NEW T \in SUBSET S
  PROVE  SumFunctionOnSet(f, T) <= SumFunctionOnSet(f, S)
<1> DEFINE Sum(s) == SumFunctionOnSet(f, s)
           B == {s \in SUBSET (S \ T) : ~(Sum(T) <= Sum(T \cup s))}
<1>0. IsFiniteSet(S \ T) /\ T \cup (S \ T) = S BY FS_Subset
<1>1. SUFFICES ASSUME B # {} PROVE FALSE
  <2>1. S \ T \notin B => Sum(T) <= Sum(T \cup (S \ T)) OBVIOUS
  <2>2. QED BY <1>0, <2>1
<1>2. PICK s \in B : \A t \in B : t \subseteq s => t = s
  <2>1. B \in SUBSET SUBSET (S \ T) OBVIOUS
  <2> HIDE DEF B
  <2>2. QED BY <1>0, <1>1, <2>1, MinimalSubset
<1>a. \A t \in SUBSET S : IsFiniteSet(t) /\ Sum(t) \in Nat
  BY FS_Subset, SumType
<1>3. CASE s = {}
  <2>1. T \cup s = T BY <1>3
  <2>2. Sum(T) \in Nat BY <1>a
  <2>3. ~(Sum(T) <= Sum(T \cup s)) BY <1>2
  <2> HIDE DEF Sum
  <2>4. QED BY <2>1, <2>2, <2>3
<1>4. CASE s # {}
  <2>1. PICK x \in s : TRUE BY <1>4
  <2> DEFINE t == s \ {x}
  <2>2. t \notin B /\ t \in SUBSET (S \ T) BY <1>2, <2>1
  <2>3. Sum(T) <= Sum(T \cup t) BY <2>2
  <2>4. (T \cup s) \ {x} = T \cup t /\ x \in T \cup s /\ T \cup s \in SUBSET S
        /\ T \cup t \in SUBSET S
    BY <1>2, <2>1
  <2>5. Sum(T \cup s) = f[x] + Sum((T \cup s) \ {x})
    <3> DEFINE U == T \cup s
    <3>1. IsFiniteSet(U) /\ x \in U /\ \A z \in U : f[z] \in Nat
      BY <1>a, <2>4
    <3> HIDE DEF U
    <3>2. SumFunctionOnSet(f, U) = f[x] + SumFunctionOnSet(f, U \ {x})
      BY <3>1, SumTakeOut
    <3>3. QED BY <3>2 DEF U
  <2>6. f[x] \in Nat /\ Sum(T \cup t) \in Nat /\ Sum(T) \in Nat
    BY <1>a, <2>4
  <2>7. ~(Sum(T) <= Sum(T \cup s)) BY <1>2
  <2>8. Sum((T \cup s) \ {x}) = Sum(T \cup t)
    BY <2>4, Zenon
  <2> HIDE DEF Sum, t
  <2>9. QED BY <2>3, <2>5, <2>6, <2>7, <2>8
<1>5. QED BY <1>3, <1>4

\* A set of numbers has a least one: what well-foundedness of < says of sets.
LEMMA LeastNumber ==
  ASSUME NEW S \in SUBSET Nat, S # {}
  PROVE  \E m \in S : \A k \in S : m <= k
<1> DEFINE Below == {p \in Nat \X Nat : p[1] < p[2]}
<1>1. IsWellFoundedOn(OpToRel(<, Nat), Nat) BY NatLessThanWellFounded, Zenon
<1>2. IsWellFoundedOn(Below, Nat) BY <1>1, Zenon DEF OpToRel
<1>3. PICK m \in S : \A k \in S : <<k, m>> \notin Below
  <2> HIDE DEF Below
  <2> QED BY <1>2, WFMin
<1>4. ASSUME NEW k \in S PROVE m <= k
  <2>1. m \in Nat /\ k \in Nat OBVIOUS
  <2>2. ~(k < m) BY <1>3, <2>1
  <2>3. QED BY <2>1, <2>2
<1>5. QED BY <1>4

\* A set of numbers with a bound has a highest one, and Max is it.
LEMMA HighestNumber ==
  ASSUME NEW S \in SUBSET Nat, S # {}, NEW b \in Nat, \A k \in S : k <= b
  PROVE  Max(S) \in S /\ \A k \in S : k <= Max(S)
<1> DEFINE Bounds == {c \in Nat : \A k \in S : k <= c}
<1>1. b \in Bounds OBVIOUS
<1>2. PICK m \in Bounds : \A c \in Bounds : m <= c
  <2> HIDE DEF Bounds
  <2>1. Bounds \in SUBSET Nat BY DEF Bounds
  <2>2. QED BY <1>1, <2>1, LeastNumber
<1>3. m \in Nat /\ \A k \in S : k \in Nat /\ k <= m BY <1>2
<1>4. m \in S
  <2> SUFFICES ASSUME m \notin S PROVE FALSE OBVIOUS
  <2>1. \A k \in S : k < m BY <1>3
  <2>2. m > 0
    <3>1. PICK k \in S : TRUE OBVIOUS
    <3>2. k \in Nat /\ k < m BY <1>3, <2>1
    <3>3. QED BY <1>3, <3>2
  <2>3. m - 1 \in Bounds BY <1>3, <2>1, <2>2
  <2>4. QED BY <1>2, <1>3, <2>3
<1>5. \E x \in S : \A y \in S : x >= y BY <1>3, <1>4
<1>6. Max(S) \in S /\ \A y \in S : Max(S) >= y BY <1>5, Zenon DEF Max
<1>7. QED BY <1>3, <1>6

\* A part of a sum: fewer elements, each with the value it had.
LEMMA PartialSum ==
  ASSUME NEW f, NEW g, IsFiniteSet(DOMAIN f), DOMAIN g \subseteq DOMAIN f,
         \A x \in DOMAIN f : f[x] \in Nat, \A x \in DOMAIN g : g[x] = f[x]
  PROVE  /\ IsFiniteSet(DOMAIN g) /\ Cardinality(DOMAIN g) <= Cardinality(DOMAIN f)
         /\ Cardinality(DOMAIN g) \in Nat /\ Cardinality(DOMAIN f) \in Nat
         /\ SumFunction(g) \in Nat /\ SumFunction(f) \in Nat
         /\ SumFunction(g) <= SumFunction(f)
<1> DEFINE S == DOMAIN f
           T == DOMAIN g
<1>1. T \in SUBSET S /\ IsFiniteSet(S) OBVIOUS
<1>2. IsFiniteSet(T) /\ Cardinality(T) <= Cardinality(S)
  <2> HIDE DEF S, T
  <2> QED BY <1>1, FS_Subset
<1>3. Cardinality(T) \in Nat /\ Cardinality(S) \in Nat
  BY <1>1, <1>2, FS_CardinalityType
<1>4. SumFunctionOnSet(g, T) = SumFunctionOnSet(f, T)
  BY <1>2, SumSame
<1>5. SumFunctionOnSet(f, T) <= SumFunctionOnSet(f, S)
  BY <1>1, SumSubset
<1>6. SumFunctionOnSet(f, T) \in Nat /\ SumFunctionOnSet(f, S) \in Nat
  BY <1>1, <1>2, SumType
<1>7. QED BY <1>2, <1>3, <1>4, <1>5, <1>6 DEF SumFunction

\* A sum to which a, with value v, was added, or whose value at a was replaced.
LEMMA LargerSum ==
  ASSUME NEW f, NEW g, NEW a, NEW v \in Nat, IsFiniteSet(DOMAIN f),
         DOMAIN g = DOMAIN f \cup {a}, g[a] = v,
         \A x \in DOMAIN f : f[x] \in Nat, \A x \in DOMAIN f \ {a} : g[x] = f[x]
  PROVE  /\ IsFiniteSet(DOMAIN g) /\ Cardinality(DOMAIN g) <= Cardinality(DOMAIN f) + 1
         /\ Cardinality(DOMAIN g) \in Nat /\ Cardinality(DOMAIN f) \in Nat
         /\ SumFunction(g) \in Nat /\ SumFunction(f) \in Nat
         /\ SumFunction(g) <= SumFunction(f) + v
         /\ a \notin DOMAIN f => /\ SumFunction(g) = SumFunction(f) + v
                                 /\ Cardinality(DOMAIN g) = Cardinality(DOMAIN f) + 1
<1> DEFINE S == DOMAIN f
           T == DOMAIN g
           R == S \ {a}
<1>1. IsFiniteSet(S) /\ T = S \cup {a} /\ a \in T /\ R \in SUBSET S OBVIOUS
<1>2. /\ IsFiniteSet(T) /\ Cardinality(T) <= Cardinality(S) + 1
      /\ a \notin S => Cardinality(T) = Cardinality(S) + 1
      /\ Cardinality(T) \in Nat /\ Cardinality(S) \in Nat
  <2> HIDE DEF S, T
  <2>1. /\ IsFiniteSet(S \cup {a})
        /\ Cardinality(S \cup {a}) = IF a \in S THEN Cardinality(S) ELSE Cardinality(S) + 1
    BY <1>1, FS_AddElement
  <2>2. Cardinality(S) \in Nat BY <1>1, FS_CardinalityType
  <2>3. QED BY <1>1, <2>1, <2>2
<1>3. /\ \A x \in T : g[x] \in Nat
      /\ \A x \in S : f[x] \in Nat
      /\ \A x \in R : f[x] \in Nat
      /\ \A x \in R : g[x] = f[x]
  OBVIOUS
<1>4. g[a] = v /\ T \ {a} = R /\ (a \notin S => R = S)
  OBVIOUS
<1>5. IsFiniteSet(R)
  BY <1>1, FS_Subset
<1> HIDE DEF S, T, R
<1>6. SumFunctionOnSet(g, T) = v + SumFunctionOnSet(g, R)
  BY <1>1, <1>2, <1>3, <1>4, SumTakeOut
<1>7. SumFunctionOnSet(g, R) = SumFunctionOnSet(f, R)
  BY <1>3, <1>5, SumSame
<1>8. SumFunctionOnSet(f, R) <= SumFunctionOnSet(f, S)
  BY <1>1, <1>3, SumSubset
<1>9. SumFunctionOnSet(f, R) \in Nat /\ SumFunctionOnSet(f, S) \in Nat
  BY <1>1, <1>3, <1>5, SumType
<1>10. SumFunction(f) = SumFunctionOnSet(f, S) /\ SumFunction(g) = SumFunctionOnSet(g, T)
  BY DEF SumFunction, S, T
<1>11. /\ IsFiniteSet(DOMAIN g) /\ Cardinality(DOMAIN g) <= Cardinality(DOMAIN f) + 1
       /\ Cardinality(DOMAIN g) \in Nat /\ Cardinality(DOMAIN f) \in Nat
       /\ a \notin DOMAIN f => Cardinality(DOMAIN g) = Cardinality(DOMAIN f) + 1
  BY <1>2 DEF S, T
<1>12. a \notin DOMAIN f => R = S
  BY <1>4 DEF S
<1>13. a \notin DOMAIN f => SumFunction(g) = SumFunction(f) + v
  BY <1>6, <1>7, <1>9, <1>10, <1>12
<1>14. /\ SumFunction(g) \in Nat /\ SumFunction(f) \in Nat
       /\ SumFunction(g) <= SumFunction(f) + v
  BY <1>6, <1>7, <1>8, <1>9, <1>10
<1>15. QED BY <1>11, <1>13, <1>14

-----------------------------------------------------------------------------
(* LoadInv: concurrent launches overshoot the limits by a bounded amount.   *)

\* The memory of what is tracked, and of what was admitted and is not tracked yet.
TrackedMem == [id \in Tracked |-> inst[id].mem]
AdmittedMem == [p \in Admitted |-> job[p].mem]

\* The most a handler adds to the memory in use behind the others' backs.
Slack == Max({0} \cup {m \in Mems : m <= MemoryBudget})

\* Finitely many sandboxes are tracked, and nothing was admitted that would not fit
\* into an empty host.
Fits == MemoryBudget > 0 => \A p \in Admitted : job[p].mem <= MemoryBudget
LoadInv == IsFiniteSet(Tracked) /\ Fits /\ OvershootBounded

\* p may take up a launch only where it was in that launch before.
LaunchKept(p, s, j) == s \in BootSteps => pc[p] \in BootSteps /\ j.mem = job[p].mem

LEMMA SlackBounds ==
  /\ Slack \in Nat /\ Slack <= MemoryBudget
  /\ \A m \in Mems : m <= MemoryBudget => m <= Slack
<1> DEFINE S == {0} \cup {m \in Mems : m <= MemoryBudget}
<1>1. S \in SUBSET Nat /\ S # {} /\ MemoryBudget \in Nat /\ \A k \in S : k <= MemoryBudget
  <2>1. MemoryBudget \in Nat /\ \A m \in Mems : m \in Nat BY LimitsAssumption
  <2>2. ASSUME NEW k \in S PROVE k \in Nat /\ k <= MemoryBudget BY <2>1
  <2>3. 0 \in S OBVIOUS
  <2> HIDE DEF S
  <2>4. QED BY <2>1, <2>2, <2>3
<1>2. \A m \in Mems : m <= MemoryBudget => m \in S
  OBVIOUS
<1>3. Slack = Max(S)
  BY DEF Slack
<1> HIDE DEF S
<1>4. Max(S) \in S /\ \A k \in S : k <= Max(S)
  BY <1>1, HighestNumber
<1>5. QED BY <1>1, <1>2, <1>3, <1>4

\* The two sums that OvershootBounded adds are finite sums of numbers.
LEMMA LoadTypes ==
  ASSUME TypeInv, IsFiniteSet(Tracked)
  PROVE  /\ DOMAIN TrackedMem = Tracked /\ DOMAIN AdmittedMem = Admitted
         /\ \A id \in Tracked : TrackedMem[id] = inst[id].mem /\ TrackedMem[id] \in Nat
         /\ \A p \in Admitted : AdmittedMem[p] = job[p].mem /\ AdmittedMem[p] \in Mems
                                /\ AdmittedMem[p] \in Nat
         /\ IsFiniteSet(Admitted)
<1>1. \A id \in Tracked : inst[id].mem \in Mems
  BY DEF Tracked, TypeInv, TypeOK, Instances
<1>2. \A p \in Admitted : job[p].mem \in Mems
  BY DEF Admitted, TypeInv, JobOK, JobFits, BootSteps, Procs
<1>3. Admitted \in SUBSET Clients
  BY DEF Admitted
<1>4. IsFiniteSet(Admitted)
  BY <1>3, ClientsAssumption, FS_Subset
<1>5. QED BY <1>1, <1>2, <1>4, LimitsAssumption DEF TrackedMem, AdmittedMem

LEMMA OvershootIs ==
  OvershootBounded <=>
    /\ MaxConcurrent > 0 =>
         Cardinality(Tracked) + Cardinality(Admitted)
           <= MaxConcurrent + Cardinality(Clients) - 1
    /\ MemoryBudget > 0 =>
         SumFunction(TrackedMem) + SumFunction(AdmittedMem)
           <= MemoryBudget + (Cardinality(Clients) - 1) * Slack
  BY DEF OvershootBounded, MemInUse, TrackedMem, AdmittedMem, Slack

\* Nothing is admitted or tracked that was not, and the rest stays what it was.
LEMMA LoadShrinks ==
  ASSUME TypeInv, TypeInv', LoadInv, Tracked' \subseteq Tracked, Admitted' \subseteq Admitted,
         \A id \in Tracked' : inst'[id] = inst[id],
         \A p \in Admitted' : job'[p].mem = job[p].mem
  PROVE  LoadInv'
<1>1. IsFiniteSet(Tracked')
  BY FS_Subset DEF LoadInv
<1>2. Fits'
  BY DEF LoadInv, Fits
<1>3. /\ DOMAIN TrackedMem = Tracked /\ DOMAIN AdmittedMem = Admitted
      /\ \A id \in Tracked : TrackedMem[id] = inst[id].mem /\ TrackedMem[id] \in Nat
      /\ \A p \in Admitted : AdmittedMem[p] = job[p].mem /\ AdmittedMem[p] \in Nat
      /\ IsFiniteSet(Admitted) /\ IsFiniteSet(Tracked)
  BY LoadTypes DEF LoadInv
<1>4. /\ DOMAIN TrackedMem' = Tracked' /\ DOMAIN AdmittedMem' = Admitted'
      /\ \A id \in Tracked' : TrackedMem'[id] = inst'[id].mem
      /\ \A p \in Admitted' : AdmittedMem'[p] = job'[p].mem
  BY DEF TrackedMem, AdmittedMem
<1>5. /\ Cardinality(Tracked') <= Cardinality(Tracked)
      /\ Cardinality(Tracked') \in Nat /\ Cardinality(Tracked) \in Nat
      /\ SumFunction(TrackedMem') \in Nat /\ SumFunction(TrackedMem) \in Nat
      /\ SumFunction(TrackedMem') <= SumFunction(TrackedMem)
  <2>1. \A x \in DOMAIN TrackedMem' : TrackedMem'[x] = TrackedMem[x]
    BY <1>3, <1>4
  <2>2. QED BY <1>3, <1>4, <2>1, PartialSum
<1>6. /\ Cardinality(Admitted') <= Cardinality(Admitted)
      /\ Cardinality(Admitted') \in Nat /\ Cardinality(Admitted) \in Nat
      /\ SumFunction(AdmittedMem') \in Nat /\ SumFunction(AdmittedMem) \in Nat
      /\ SumFunction(AdmittedMem') <= SumFunction(AdmittedMem)
  <2>1. \A x \in DOMAIN AdmittedMem' : AdmittedMem'[x] = AdmittedMem[x]
    BY <1>3, <1>4
  <2>2. QED BY <1>3, <1>4, <2>1, PartialSum
<1>7. OvershootBounded'
  <2> DEFINE N == MaxConcurrent + Cardinality(Clients) - 1
             M == MemoryBudget + (Cardinality(Clients) - 1) * Slack
  <2>1. N \in Int /\ M \in Int
    <3>1. Cardinality(Clients) \in Nat BY ClientsAssumption, FS_CardinalityType
    <3>2. QED BY <3>1, SlackBounds, LimitsAssumption
  <2>2. /\ MaxConcurrent > 0 => Cardinality(Tracked) + Cardinality(Admitted) <= N
        /\ MemoryBudget > 0 => SumFunction(TrackedMem) + SumFunction(AdmittedMem) <= M
    BY OvershootIs DEF LoadInv
  <2> HIDE DEF N, M
  <2>3. /\ MaxConcurrent > 0 => Cardinality(Tracked') + Cardinality(Admitted') <= N
        /\ MemoryBudget > 0 => SumFunction(TrackedMem') + SumFunction(AdmittedMem') <= M
    BY <1>5, <1>6, <2>1, <2>2
  <2>4. OvershootBounded' <=>
          /\ MaxConcurrent > 0 => Cardinality(Tracked') + Cardinality(Admitted') <= N
          /\ MemoryBudget > 0 => SumFunction(TrackedMem') + SumFunction(AdmittedMem') <= M
    BY DEF OvershootBounded, MemInUse, TrackedMem, AdmittedMem, Slack, N, M
  <2>5. QED BY <2>3, <2>4
<1>8. QED BY <1>1, <1>2, <1>7 DEF LoadInv

\* A goroutine moves, takes up no launch, and drops an entry at most.
LEMMA LoadMoves ==
  ASSUME TypeInv, TypeInv', LoadInv, NEW p \in Procs, NEW s, NEW j, Moves(p, s, j),
         LaunchKept(p, s, j),
         \A id \in Ids : inst'[id] \in {None, inst[id]}
  PROVE  LoadInv'
<1>0. /\ pc'[p] = s /\ job'[p] = j
      /\ \A q \in Procs \ {p} : pc'[q] = pc[q] /\ job'[q] = job[q]
  BY OneMoves
<1>1. \A id \in Tracked' : id \in Tracked /\ inst'[id] = inst[id]
  BY DEF Tracked
<1>2. ASSUME NEW q \in Admitted' PROVE q \in Admitted /\ job'[q].mem = job[q].mem
  <2>1. q \in Clients /\ q \in Procs /\ pc'[q] \in BootSteps
    BY DEF Admitted, BootSteps, Procs
  <2>2. pc[q] \in BootSteps /\ job'[q].mem = job[q].mem
    BY <1>0, <2>1 DEF LaunchKept
  <2>3. QED BY <2>1, <2>2 DEF Admitted, BootSteps
<1>3. QED BY <1>1, <1>2, LoadShrinks

LEMMA LoadGoto ==
  ASSUME TypeInv, TypeInv', LoadInv, NEW p \in Procs, NEW s, Goto(p, s), UNCHANGED <<inst, job>>,
         s \in BootSteps => pc[p] \in BootSteps
  PROVE  LoadInv'
<1>1. Moves(p, s, job[p]) /\ LaunchKept(p, s, job[p])
  BY DEF Goto, Moves, LaunchKept, TypeInv, TypeOK
<1>2. QED BY <1>1, LoadMoves

LEMMA LoadFinish ==
  ASSUME TypeInv, TypeInv', LoadInv, NEW p \in Procs, Finish(p), UNCHANGED inst
  PROVE  LoadInv'
<1>1. Moves(p, Return(p), NoJob) /\ LaunchKept(p, Return(p), NoJob)
  BY DEF Finish, Goto, Moves, Return, LaunchKept, BootSteps
<1>2. QED BY <1>1, LoadMoves

\* Admission: what is in flight is what the other handlers launch.
LEMMA AdmitLoad ==
  ASSUME TypeInv, TypeInv', LoadInv, NEW p \in Clients, LaunchAdmit(p)
  PROVE  LoadInv'
<1>. p \in Procs BY DEF Procs
<1>1. PICK id \in Ids, mem \in Mems, kind \in Kinds :
        /\ pc[p] = "idle" /\ admitLocked(mem) /\ Goto(p, "alloc") /\ UNCHANGED inst
        /\ job' = [job EXCEPT ![p] = [NoJob EXCEPT !.kind = kind, !.id = id, !.mem = mem]]
  BY DEF LaunchAdmit, MayStart
<1>2. /\ pc'[p] = "alloc" /\ job'[p].mem = mem /\ mem \in Nat
      /\ \A q \in Procs \ {p} : pc'[q] = pc[q] /\ job'[q] = job[q]
  BY <1>1, LimitsAssumption DEF Goto, TypeInv, TypeOK, NoJob
<1>3. /\ p \notin Admitted /\ Admitted' = Admitted \cup {p} /\ Tracked' = Tracked
      /\ \A q \in Admitted : job'[q] = job[q]
  BY <1>1, <1>2 DEF Admitted, Tracked, Procs
<1>4. /\ DOMAIN TrackedMem = Tracked /\ DOMAIN AdmittedMem = Admitted
      /\ \A i \in Tracked : TrackedMem[i] = inst[i].mem /\ TrackedMem[i] \in Nat
      /\ \A q \in Admitted : AdmittedMem[q] = job[q].mem /\ AdmittedMem[q] \in Mems
                             /\ AdmittedMem[q] \in Nat
      /\ IsFiniteSet(Admitted) /\ IsFiniteSet(Tracked)
  BY LoadTypes DEF LoadInv
<1>5. /\ DOMAIN AdmittedMem' = Admitted \cup {p} /\ AdmittedMem'[p] = mem
      /\ \A q \in Admitted \ {p} : AdmittedMem'[q] = AdmittedMem[q]
      /\ TrackedMem' = TrackedMem
  <2>1. AdmittedMem' = [q \in Admitted \cup {p} |-> job'[q].mem]
    BY <1>3 DEF AdmittedMem
  <2>2. TrackedMem' = [i \in Tracked |-> inst[i].mem]
    BY <1>1, <1>3 DEF TrackedMem
  <2>3. QED BY <1>2, <1>3, <1>4, <2>1, <2>2 DEF TrackedMem
<1>6. /\ Cardinality(Admitted') = Cardinality(Admitted) + 1
      /\ Cardinality(Admitted) \in Nat
      /\ SumFunction(AdmittedMem') = SumFunction(AdmittedMem) + mem
      /\ SumFunction(AdmittedMem) \in Nat
  <2> DEFINE f == AdmittedMem
             g == AdmittedMem'
             v == mem
  <2>1. /\ IsFiniteSet(DOMAIN f) /\ DOMAIN g = DOMAIN f \cup {p} /\ g[p] = v
        /\ \A x \in DOMAIN f : f[x] \in Nat
        /\ \A x \in DOMAIN f \ {p} : g[x] = f[x]
        /\ p \notin DOMAIN f
    BY <1>3, <1>4, <1>5
  <2>2. DOMAIN f = Admitted /\ DOMAIN g = Admitted'
    BY <1>3, <1>4, <1>5
  <2>3. v \in Nat BY <1>2
  <2> HIDE DEF f, g, v
  <2>4. /\ Cardinality(DOMAIN f) \in Nat /\ SumFunction(f) \in Nat
        /\ p \notin DOMAIN f => /\ SumFunction(g) = SumFunction(f) + v
                                /\ Cardinality(DOMAIN g) = Cardinality(DOMAIN f) + 1
    BY <2>1, <2>3, LargerSum
  <2>5. QED BY <2>1, <2>2, <2>4 DEF f, g, v
<1>7. /\ SumFunction(TrackedMem) \in Nat /\ Cardinality(Tracked) \in Nat
      /\ SumFunction(TrackedMem) = MemInUse
  <2>1. SumFunction(TrackedMem) \in Nat /\ Cardinality(Tracked) \in Nat
    <3>1. /\ DOMAIN TrackedMem \subseteq DOMAIN TrackedMem
          /\ \A x \in DOMAIN TrackedMem : TrackedMem[x] = TrackedMem[x]
      OBVIOUS
    <3>2. QED BY <1>4, <3>1, PartialSum
  <2>2. QED BY <2>1 DEF MemInUse, TrackedMem
<1>8. Cardinality(Admitted) <= Cardinality(Clients) - 1 /\ Cardinality(Clients) \in Nat
  <2>1. Admitted \in SUBSET (Clients \ {p})
    BY <1>3 DEF Admitted
  <2>2. IsFiniteSet(Clients \ {p}) /\ Cardinality(Clients \ {p}) = Cardinality(Clients) - 1
    BY ClientsAssumption, FS_RemoveElement
  <2>3. QED BY <2>1, <2>2, ClientsAssumption, FS_Subset, FS_CardinalityType
<1>9. /\ MaxConcurrent > 0 => Cardinality(Tracked) < MaxConcurrent
      /\ MemoryBudget > 0 => SumFunction(TrackedMem) + mem <= MemoryBudget
      /\ MaxConcurrent \in Nat /\ MemoryBudget \in Nat
  BY <1>1, <1>7, LimitsAssumption DEF admitLocked
<1>10. MemoryBudget > 0 => mem <= MemoryBudget
  BY <1>2, <1>7, <1>9
<1>11. Fits'
  BY <1>2, <1>3, <1>10 DEF LoadInv, Fits
<1>12. MemoryBudget > 0 =>
         SumFunction(AdmittedMem) <= (Cardinality(Clients) - 1) * Slack
  <2>1. SUFFICES ASSUME MemoryBudget > 0
                 PROVE  SumFunction(AdmittedMem) <= (Cardinality(Clients) - 1) * Slack
    OBVIOUS
  <2>2. Slack \in Nat /\ \A m \in Mems : m <= MemoryBudget => m <= Slack
    BY SlackBounds
  <2>3. \A q \in Admitted : AdmittedMem[q] \in 0 .. Slack
    BY <1>4, <2>1, <2>2 DEF LoadInv, Fits
  <2>4. SumFunctionOnSet(AdmittedMem, Admitted) <= Cardinality(Admitted) * Slack
    BY <1>4, <2>2, <2>3, SumBound
  <2>5. SumFunction(AdmittedMem) = SumFunctionOnSet(AdmittedMem, Admitted)
    BY <1>4 DEF SumFunction
  <2>6. \A a, b, c \in Nat : a <= b => a * c <= b * c
    OBVIOUS
  <2>7. Cardinality(Admitted) * Slack <= (Cardinality(Clients) - 1) * Slack
    BY <1>6, <1>8, <2>2, <2>6
  <2> DEFINE x == Cardinality(Admitted) * Slack
             y == (Cardinality(Clients) - 1) * Slack
  <2>8. x \in Int /\ y \in Int
    BY <1>6, <1>8, <2>2
  <2>9. x <= y /\ SumFunctionOnSet(AdmittedMem, Admitted) <= x
    BY <2>4, <2>7
  <2> HIDE DEF x, y
  <2>10. SumFunction(AdmittedMem) <= y
    BY <1>6, <2>5, <2>8, <2>9
  <2>11. QED BY <2>10 DEF y
<1>13. OvershootBounded'
  <2> DEFINE y == (Cardinality(Clients) - 1) * Slack
  <2>1. y \in Int BY <1>8, SlackBounds
  <2>2. MemoryBudget > 0 => SumFunction(AdmittedMem) <= y BY <1>12
  <2> HIDE DEF y
  <2>3. MemoryBudget > 0 => SumFunction(TrackedMem') + SumFunction(AdmittedMem') <= MemoryBudget + y
    <3>1. SumFunction(TrackedMem') = SumFunction(TrackedMem) BY <1>5
    <3>2. QED BY <1>2, <1>6, <1>7, <1>9, <2>1, <2>2, <3>1
  <2>4. MaxConcurrent > 0 => Cardinality(Tracked') + Cardinality(Admitted')
                               <= MaxConcurrent + Cardinality(Clients) - 1
    BY <1>3, <1>6, <1>7, <1>8, <1>9
  <2>5. QED
    BY <2>3, <2>4 DEF OvershootBounded, MemInUse, TrackedMem, AdmittedMem, Slack, y
<1>14. QED BY <1>3, <1>4, <1>11, <1>13 DEF LoadInv

\* An admitted launch becomes a tracked sandbox.
LEMMA InsertLoad ==
  ASSUME TypeInv, TypeInv', LoadInv, NEW p \in Clients, LaunchInsert(p)
  PROVE  LoadInv'
<1>. p \in Procs BY DEF Procs
<1> DEFINE id == job[p].id
           mem == job[p].mem
<1>1. /\ pc[p] = "insert" /\ Goto(p, "save") /\ job' = [job EXCEPT ![p].cid = None]
      /\ inst' = [inst EXCEPT ![id] = [cid |-> job[p].cid, pid |-> job[p].pid, mem |-> mem]]
  BY DEF LaunchInsert
<1>2. /\ id \in Ids /\ mem \in Mems /\ mem \in Nat /\ p \in Admitted
      /\ job[p].cid \in CIDs /\ job[p].pid \in Pids
  <2>1. JobFits("insert", job[p]) /\ job[p] \in Jobs
    BY <1>1 DEF TypeInv, TypeOK, JobOK
  <2>2. QED BY <1>1, <2>1, LimitsAssumption
        DEF JobFits, Jobs, CidSteps, VmmSteps, BootSteps, LoopSteps, Admitted
<1>3. pc'[p] = "save" /\ \A q \in Procs \ {p} : pc'[q] = pc[q] /\ job'[q] = job[q]
  BY <1>1 DEF Goto, TypeInv, TypeOK
<1>4. Admitted' = Admitted \ {p} /\ \A q \in Admitted' : job'[q] = job[q]
  BY <1>3 DEF Admitted, Procs
<1>5. inst'[id].mem = mem /\ inst'[id] # None /\ \A i \in Ids \ {id} : inst'[i] = inst[i]
  BY <1>1, <1>2, NoneAssumption DEF TypeInv, TypeOK
<1> HIDE DEF id, mem
<1>6. Tracked' = Tracked \cup {id} /\ \A i \in Tracked \ {id} : inst'[i] = inst[i]
  BY <1>2, <1>5 DEF Tracked
<1>7. /\ DOMAIN TrackedMem = Tracked /\ DOMAIN AdmittedMem = Admitted
      /\ \A i \in Tracked : TrackedMem[i] = inst[i].mem /\ TrackedMem[i] \in Nat
      /\ \A q \in Admitted : AdmittedMem[q] = job[q].mem /\ AdmittedMem[q] \in Nat
      /\ IsFiniteSet(Admitted) /\ IsFiniteSet(Tracked)
  BY LoadTypes DEF LoadInv
<1>8. /\ IsFiniteSet(Tracked') /\ Cardinality(Tracked') <= Cardinality(Tracked) + 1
      /\ Cardinality(Tracked') \in Nat /\ Cardinality(Tracked) \in Nat
      /\ SumFunction(TrackedMem') \in Nat /\ SumFunction(TrackedMem) \in Nat
      /\ SumFunction(TrackedMem') <= SumFunction(TrackedMem) + mem
  <2>1. TrackedMem' = [i \in Tracked \cup {id} |-> inst'[i].mem]
    BY <1>6 DEF TrackedMem
  <2>2. /\ DOMAIN TrackedMem' = Tracked \cup {id} /\ TrackedMem'[id] = mem
        /\ \A i \in Tracked \ {id} : TrackedMem'[i] = TrackedMem[i]
    BY <1>5, <1>6, <1>7, <2>1
  <2> DEFINE f == TrackedMem
             g == TrackedMem'
  <2>3. /\ IsFiniteSet(DOMAIN f) /\ DOMAIN g = DOMAIN f \cup {id} /\ g[id] = mem
        /\ \A x \in DOMAIN f : f[x] \in Nat
        /\ \A x \in DOMAIN f \ {id} : g[x] = f[x]
    BY <1>7, <2>2
  <2>4. DOMAIN f = Tracked /\ DOMAIN g = Tracked'
    BY <1>6, <1>7, <2>2
  <2>5. mem \in Nat
    BY <1>2
  <2> HIDE DEF f, g
  <2>6. /\ IsFiniteSet(DOMAIN g) /\ Cardinality(DOMAIN g) <= Cardinality(DOMAIN f) + 1
        /\ Cardinality(DOMAIN g) \in Nat /\ Cardinality(DOMAIN f) \in Nat
        /\ SumFunction(g) \in Nat /\ SumFunction(f) \in Nat
        /\ SumFunction(g) <= SumFunction(f) + mem
    BY <2>3, <2>5, LargerSum
  <2>7. QED BY <2>4, <2>6 DEF f, g
<1>9. /\ Cardinality(Admitted) = Cardinality(Admitted') + 1
      /\ Cardinality(Admitted') \in Nat
      /\ SumFunction(AdmittedMem) = SumFunction(AdmittedMem') + mem
      /\ SumFunction(AdmittedMem') \in Nat
  <2>1. AdmittedMem' = [q \in Admitted \ {p} |-> job'[q].mem]
    BY <1>4 DEF AdmittedMem
  <2>2. /\ DOMAIN AdmittedMem' = Admitted \ {p} /\ AdmittedMem[p] = mem
        /\ \A q \in Admitted \ {p} : AdmittedMem'[q] = AdmittedMem[q] /\ AdmittedMem'[q] \in Nat
    BY <1>2, <1>4, <1>7, <2>1 DEF mem
  <2>3. IsFiniteSet(Admitted \ {p}) /\ Admitted = (Admitted \ {p}) \cup {p}
    BY <1>2, <1>7, FS_RemoveElement
  <2> DEFINE f == AdmittedMem'
             g == AdmittedMem
  <2>4. /\ IsFiniteSet(DOMAIN f) /\ DOMAIN g = DOMAIN f \cup {p} /\ g[p] = mem
        /\ \A x \in DOMAIN f : f[x] \in Nat
        /\ \A x \in DOMAIN f \ {p} : g[x] = f[x]
        /\ p \notin DOMAIN f
    BY <1>7, <2>2, <2>3
  <2>5. DOMAIN f = Admitted' /\ DOMAIN g = Admitted
    BY <1>4, <1>7, <2>2
  <2> HIDE DEF f, g
  <2>6. /\ Cardinality(DOMAIN f) \in Nat /\ SumFunction(f) \in Nat
        /\ p \notin DOMAIN f => /\ SumFunction(g) = SumFunction(f) + mem
                                /\ Cardinality(DOMAIN g) = Cardinality(DOMAIN f) + 1
    BY <1>2, <2>4, LargerSum
  <2>7. QED BY <2>4, <2>5, <2>6 DEF f, g
<1>10. Fits'
  BY <1>4 DEF LoadInv, Fits
<1>11. OvershootBounded'
  <2> DEFINE N == MaxConcurrent + Cardinality(Clients) - 1
             M == MemoryBudget + (Cardinality(Clients) - 1) * Slack
  <2>1. N \in Int /\ M \in Int
    <3>1. Cardinality(Clients) \in Nat BY ClientsAssumption, FS_CardinalityType
    <3>2. QED BY <3>1, SlackBounds, LimitsAssumption
  <2>2. /\ MaxConcurrent > 0 => Cardinality(Tracked) + Cardinality(Admitted) <= N
        /\ MemoryBudget > 0 => SumFunction(TrackedMem) + SumFunction(AdmittedMem) <= M
    BY OvershootIs DEF LoadInv
  <2> HIDE DEF N, M
  <2>3. /\ MaxConcurrent > 0 => Cardinality(Tracked') + Cardinality(Admitted') <= N
        /\ MemoryBudget > 0 => SumFunction(TrackedMem') + SumFunction(AdmittedMem') <= M
    BY <1>2, <1>8, <1>9, <2>1, <2>2
  <2>4. QED
    BY <2>3 DEF OvershootBounded, MemInUse, TrackedMem, AdmittedMem, Slack, N, M
<1>12. QED BY <1>8, <1>10, <1>11 DEF LoadInv

LEMMA LaunchLoad ==
  ASSUME TypeInv, TypeInv', LoadInv, NEW p \in Clients, LaunchStep(p)
  PROVE  LoadInv'
<1>. p \in Procs BY DEF Procs
<1>0. job[p] \in Jobs /\ job \in [Procs -> Jobs] BY DEF TypeInv, TypeOK
<1>1. CASE LaunchAlloc(p)
  <2>1. CASE Exhausted /\ Finish(p)
    BY <1>1, <2>1, LoadFinish DEF LaunchAlloc
  <2>2. ASSUME NEW c \in CIDs, Goto(p, "build"), job' = [job EXCEPT ![p].cid = c] PROVE LoadInv'
    <3> DEFINE j == [job[p] EXCEPT !.cid = c]
    <3>1. /\ Moves(p, "build", j) /\ j.mem = job[p].mem /\ pc[p] = "alloc" /\ UNCHANGED inst
      BY <1>0, <1>1, <2>2 DEF LaunchAlloc, Moves, Goto, Jobs
    <3> HIDE DEF j
    <3>2. LaunchKept(p, "build", j)
      BY <3>1 DEF LaunchKept, BootSteps
    <3>3. QED BY <3>1, <3>2, LoadMoves
  <2>3. QED BY <1>1, <2>1, <2>2 DEF LaunchAlloc
<1>2. CASE LaunchBuild(p) \/ LaunchCgroup(p) \/ LaunchPlace(p)
  BY <1>2, LoadGoto DEF LaunchBuild, LaunchCgroup, LaunchPlace, BootSteps
<1>3. CASE LaunchBuildFails(p) \/ LaunchCgroupFails(p) \/ LaunchSave(p)
  BY <1>3, LoadFinish DEF LaunchBuildFails, LaunchCgroupFails, LaunchSave
<1>4. CASE LaunchBootFails(p) \/ LaunchPlaceFails(p) \/ RekeyFails(p)
  BY <1>4, LoadFinish DEF LaunchBootFails, LaunchPlaceFails, RekeyFails, Cleanup
<1>5. CASE LaunchBoot(p)
  <2>1. PICK q \in FreePids : job' = [job EXCEPT ![p].pid = q]
    BY <1>5 DEF LaunchBoot
  <2> DEFINE j == [job[p] EXCEPT !.pid = q]
  <2>2. Moves(p, "place", j) /\ j.mem = job[p].mem /\ pc[p] = "boot" /\ UNCHANGED inst
    BY <1>0, <1>5, <2>1 DEF LaunchBoot, Moves, Goto, Jobs
  <2> HIDE DEF j
  <2>3. LaunchKept(p, "place", j)
    BY <2>2 DEF LaunchKept, BootSteps
  <2>4. QED BY <2>2, <2>3, LoadMoves
<1>6. CASE LaunchInsert(p)
  BY <1>6, InsertLoad
<1>7. QED BY <1>1, <1>2, <1>3, <1>4, <1>5, <1>6 DEF LaunchStep

LEMMA TerminateLoad ==
  ASSUME TypeInv, TypeInv', LoadInv, NEW p \in Procs,
         (\E id \in Ids : TerminateLocked(p, id)) \/ TerminateStep(p)
  PROVE  LoadInv'
<1>0. job[p] \in Jobs /\ inst \in [Ids -> Instances \cup {None}] BY DEF TypeInv, TypeOK
<1>1. ASSUME NEW id, TerminateLocked(p, id) PROVE LoadInv'
  <2> DEFINE j == [NoJob EXCEPT !.kind = "terminate", !.id = id,
                     !.cid = inst[id].cid, !.pid = inst[id].pid]
  <2>1. Moves(p, "halt", j) /\ LaunchKept(p, "halt", j)
    BY <1>1 DEF TerminateLocked, Moves, Goto, LaunchKept, BootSteps
  <2>2. \A i \in Ids : inst'[i] \in {None, inst[i]}
    BY <1>0, <1>1 DEF TerminateLocked
  <2> HIDE DEF j
  <2>3. QED BY <2>1, <2>2, LoadMoves
<1>2. CASE TerminateChosen(p)
  BY <1>1, <1>2 DEF TerminateChosen
<1>3. CASE TerminateNotFound(p) \/ TerminateUnrecord(p)
  BY <1>3, LoadFinish DEF TerminateNotFound, TerminateUnrecord
<1>4. CASE TerminateHalt(p)
  BY <1>4, LoadGoto DEF TerminateHalt, BootSteps
<1>5. CASE TerminateReclaim(p)
  <2> DEFINE j == [job[p] EXCEPT !.cid = None]
  <2>1. Moves(p, "unrecord", j) /\ LaunchKept(p, "unrecord", j) /\ UNCHANGED inst
    BY <1>5 DEF TerminateReclaim, Moves, Goto, LaunchKept, BootSteps
  <2> HIDE DEF j
  <2>2. QED BY <2>1, LoadMoves
<1>6. QED BY <1>1, <1>2, <1>3, <1>4, <1>5 DEF TerminateStep

\* A goroutine that goes on outside a launch.
LEMMA LoadElsewhere ==
  ASSUME TypeInv, TypeInv', LoadInv, NEW p \in Procs, NEW s, NEW j, Goto(p, s),
         job' = [job EXCEPT ![p] = j], UNCHANGED inst, s \notin BootSteps
  PROVE  LoadInv'
<1>1. Moves(p, s, j) /\ LaunchKept(p, s, j)
  BY DEF Moves, Goto, LaunchKept
<1>2. QED BY <1>1, LoadMoves

LEMMA StopLoad ==
  ASSUME TypeInv, TypeInv', LoadInv, NEW p \in Clients, StopLookup(p) \/ StopStep(p)
  PROVE  LoadInv'
<1>. p \in Procs BY DEF Procs
<1>0. "pause" \notin BootSteps /\ "term" \notin BootSteps /\ "capture" \notin BootSteps
  BY DEF BootSteps
<1>1. CASE StopLookup(p)
  <2>1. \E j : Goto(p, "pause") /\ job' = [job EXCEPT ![p] = j] /\ UNCHANGED inst
    BY <1>1 DEF StopLookup
  <2>2. QED BY <1>0, <2>1, LoadElsewhere
<1>2. CASE StopPause(p)
  BY <1>0, <1>2, LoadGoto DEF StopPause
<1>3. CASE StopCapture(p)
  <2>1. \E j : Goto(p, "term") /\ job' = [job EXCEPT ![p] = j] /\ UNCHANGED inst
    BY <1>3 DEF StopCapture
  <2>2. QED BY <1>0, <2>1, LoadElsewhere
<1>4. CASE StopFails(p)
  BY <1>4, LoadFinish DEF StopFails
<1>5. QED BY <1>1, <1>2, <1>3, <1>4 DEF StopStep

\* Nothing is tracked and nothing is launched: both sums are empty.
LEMMA LoadWhenEmpty ==
  ASSUME Tracked = {}, Admitted = {}
  PROVE  LoadInv
<1>1. IsFiniteSet(Tracked) /\ IsFiniteSet({}) /\ Cardinality({}) = 0 BY FS_EmptySet
<1>2. Fits BY DEF Fits
<1>3. SumFunction(TrackedMem) = 0 /\ SumFunction(AdmittedMem) = 0
  <2>1. DOMAIN TrackedMem = {} /\ DOMAIN AdmittedMem = {}
    BY DEF TrackedMem, AdmittedMem
  <2>2. QED BY <1>1, <2>1, SumFirst DEF SumFunction
<1>4. Cardinality(Clients) \in Nat
  BY ClientsAssumption, FS_CardinalityType
<1>5. MaxConcurrent > 0 => Cardinality(Tracked) + Cardinality(Admitted)
                             <= MaxConcurrent + Cardinality(Clients) - 1
  BY <1>1, <1>4, LimitsAssumption
<1>6. MemoryBudget > 0 => 0 <= MemoryBudget + (Cardinality(Clients) - 1) * Slack
  <2>1. Slack \in Nat /\ Slack <= MemoryBudget /\ MemoryBudget \in Nat
    BY SlackBounds, LimitsAssumption
  <2>2. CASE Cardinality(Clients) = 0
    BY <2>1, <2>2
  <2>3. CASE Cardinality(Clients) > 0
    <3>1. (Cardinality(Clients) - 1) * Slack >= 0
      <4>1. Cardinality(Clients) - 1 \in Nat BY <1>4, <2>3
      <4>2. \A a, b \in Nat : a * b \in Nat OBVIOUS
      <4>3. (Cardinality(Clients) - 1) * Slack \in Nat BY <2>1, <4>1, <4>2
      <4>4. QED BY <4>3
    <3>2. (Cardinality(Clients) - 1) * Slack \in Int BY <1>4, <2>1
    <3>3. QED BY <2>1, <3>1, <3>2
  <2>4. QED BY <1>4, <2>2, <2>3
<1>7. OvershootBounded
  BY <1>3, <1>5, <1>6, OvershootIs
<1>8. QED BY <1>1, <1>2, <1>7 DEF LoadInv


LEMMA NextLoad == TypeInv /\ TypeInv' /\ LoadInv /\ [Next]_vars => LoadInv'
<1> SUFFICES ASSUME TypeInv, TypeInv', LoadInv, [Next]_vars PROVE LoadInv'
  OBVIOUS
<1>0. Reaper \in Procs /\ Main \in Procs /\ \A p \in Clients : p \in Procs
  BY DEF Procs
<1>a. \A s \in LoopSteps \cup {"term", "gcRecord"} : s \notin BootSteps
  BY DEF LoopSteps, BootSteps
<1>1. ASSUME NEW p \in Clients, Request(p) \/ ClientStep(p) PROVE LoadInv'
  BY <1>0, <1>1, AdmitLoad, LaunchLoad, TerminateLoad, StopLoad
  DEF Request, ClientStep, TerminateRequest
<1>2. CASE ReaperStep
  <2>1. CASE ReapList \/ ReapDone
    BY <1>0, <1>a, <2>1, LoadGoto DEF ReapList, ReapDone, LoopSteps
  <2>2. CASE ReapProbe
    <3>1. CASE UNCHANGED <<pc, job>>
      <4>1. Goto(Reaper, "reap") /\ UNCHANGED <<inst, job>>
        BY <2>2, <3>1 DEF ReapProbe, Goto, TypeInv, TypeOK
      <4>2. QED BY <1>0, <1>a, <4>1, LoadGoto DEF LoopSteps
    <3>2. CASE \E j : Goto(Reaper, "term") /\ job' = [job EXCEPT ![Reaper] = j]
      BY <1>0, <1>a, <2>2, <3>2, LoadElsewhere DEF ReapProbe
    <3>3. QED BY <2>2, <3>1, <3>2 DEF ReapProbe
  <2>3. QED BY <1>0, <1>2, <2>1, <2>2, TerminateLoad DEF ReaperStep
<1>b. ASSUME Die PROVE LoadInv'
  <2>1. Tracked' = {} /\ Admitted' = {}
    BY <1>b DEF Die, Tracked, Admitted, Procs
  <2>2. Tracked' \subseteq Tracked /\ Admitted' \subseteq Admitted
    BY <2>1
  <2>3. QED BY <2>1, <2>2, LoadShrinks
<1>3. CASE MainStep
  <2>1. CASE Start \/ Serve \/ DrainList
    BY <1>0, <1>a, <2>1, LoadGoto DEF Start, Serve, DrainList, LoopSteps
  <2>2. CASE ReconcileKill \/ gcRecord \/ DrainNext
    <3>1. \E s \in {"gcRecord", "gc", "term"} : \E j :
            Goto(Main, s) /\ job' = [job EXCEPT ![Main] = j] /\ UNCHANGED inst
      BY <2>2 DEF ReconcileKill, gcRecord, DrainNext
    <3>2. QED BY <1>0, <1>a, <3>1, LoadElsewhere DEF LoopSteps
  <2>3. QED BY <1>0, <1>3, <1>b, <2>1, <2>2, TerminateLoad DEF MainStep, Exit
<1>c. ASSUME UNCHANGED <<inst, pc, job>> PROVE LoadInv'
  <2>1. Tracked' = Tracked /\ Admitted' = Admitted
    BY <1>c DEF Tracked, Admitted
  <2>2. QED BY <1>c, <2>1, LoadShrinks
<1>4. CASE Environment
  BY <1>4, <1>b, <1>c DEF Environment, VmmExits, PidReused, Shutdown, Crash, volatile
<1>5. CASE UNCHANGED vars
  BY <1>5, <1>c DEF vars, volatile
<1>6. QED BY <1>1, <1>2, <1>3, <1>4, <1>5 DEF Next

\* However many handlers launch at the same time, the sandboxes tracked and in flight
\* exceed MaxConcurrent by less than the number of handlers, and their memory exceeds
\* the budget by at most the largest admissible request for every handler but one.
THEOREM LimitsOvershootBounded == Spec => []OvershootBounded
<1>1. Init => LoadInv
  <2>1. Init => Tracked = {} /\ Admitted = {}
    BY DEF Init, InitVolatile, Tracked, Admitted, Procs
  <2>2. QED BY <2>1, LoadWhenEmpty
<1>2. TypeInv /\ TypeInv' /\ LoadInv /\ [Next]_vars => LoadInv'
  BY NextLoad
<1>3. Spec => []TypeInv
  BY InitTypeInv, NextTypes, PTL DEF Spec
<1>4. LoadInv => OvershootBounded
  BY DEF LoadInv
<1>5. QED
  BY <1>1, <1>2, <1>3, <1>4, PTL DEF Spec
=============================================================================
