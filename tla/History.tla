------------------------------- MODULE History --------------------------------
(***************************************************************************)
(* The REST handlers over one sandbox id (internal/gateway/api.go and      *)
(* sandbox_api.go): its row and its snapshot rows in Postgres, its         *)
(* snapshot directories on disk, and of the supervisor whether a VM with   *)
(* this id is tracked.  A handler is a sequence of supervisor calls, file  *)
(* operations and SQL statements, each its own step, with no transaction   *)
(* around them; every statement runs under the request's context and may   *)
(* fail, and most handlers then log and go on.  No handler uses the rows   *)
(* of another id, so one id is enough.                                     *)
(*                                                                         *)
(* authorizeSandbox is part of the first step of its handler: the owner of *)
(* a row never changes and rows stay (IdentityKept), so its outcome does   *)
(* not depend on when it is read.                                          *)
(***************************************************************************)
EXTENDS Naturals, Sequences, SequencesExt

CONSTANTS
  Requests,  \* requests in progress at the same time
  Users,     \* operators; none of them is an admin
  Service,   \* the principal of the API token: an admin with an empty UserID
  NoOwner,   \* owner_id is NULL
  Names,     \* names a client may give
  Unnamed,   \* the empty name
  MaxSnaps   \* bound: snapshots taken

Principals == Users \cup {Service}
Owners == Users \cup {NoOwner}
Snaps == 1 .. MaxSnaps
NoSnap == 0

ASSUME HistoryAssumption ==
  /\ MaxSnaps \in Nat
  /\ Service \notin Owners /\ NoOwner \notin Users /\ Unnamed \notin Names

VARIABLES
  vm,      \* the supervisor's VM with this id: "none", "running" or "paused"
  base,    \* the snapshot the guest was restored from, NoSnap after a launch
  row,     \* the row of sandboxes, or NoRow
  snaps,   \* the rows of snapshots by created_at; the directory each one names
  files,   \* snapshot directories on disk
  taken,   \* snapshots taken; the last one is the newest state of the guest
  req,     \* requests: step, principal, name read, snapshot at hand, snapshots to delete
  torn,    \* history: snapshots whose row and files a failed statement, a failed removal
           \* or a crash has parted
  calm     \* history: no requests overlapped, nothing failed halfway, no VM died

vars == <<vm, base, row, snaps, files, taken, req, torn, calm>>

Row == [status : {"running", "stopped", "archived"}, owner : Owners,
        name : Names \cup {Unnamed}]
NoRow == [status |-> "absent", owner |-> NoOwner, name |-> Unnamed]

Idle == [pc |-> "idle", who |-> Service, name |-> Unnamed, snap |-> NoSnap, todo |-> <<>>]

Init ==
  /\ vm = "none" /\ base = NoSnap
  /\ row = NoRow /\ snaps = <<>> /\ files = {} /\ taken = 0
  /\ req = [r \in Requests |-> Idle]
  /\ torn = {} /\ calm = TRUE

-----------------------------------------------------------------------------
(* Requests.                                                                *)

\* Faulty: the API token counts as an account.
UserID_OfToken(p) == p

\* Principal.UserID
UserID(p) == IF p = Service THEN NoOwner ELSE p

\* authorizeSandbox: a row nobody owns is everybody's.
Authorized(p) ==
  /\ row # NoRow
  /\ p = Service \/ row.owner = NoOwner \/ row.owner = UserID(p)

\* Request r enters its handler on behalf of p, with its next step at pc.
Enter(r, p, pc) ==
  /\ req[r] = Idle
  /\ req' = [req EXCEPT ![r] = [Idle EXCEPT !.pc = pc, !.who = p]]
  /\ calm' = (calm /\ \A q \in Requests : req[q] = Idle)

Goto(r, pc) == req' = [req EXCEPT ![r].pc = pc]

Respond(r) == req' = [req EXCEPT ![r] = Idle]

-----------------------------------------------------------------------------
(* Statements of SandboxRepo.                                               *)

\* Faulty: on conflict the owner is overwritten as well.
Upsert_TakesOver(r) == row' = [status |-> "running", owner |-> UserID(req[r].who),
                               name |-> req[r].name]

\* A new row belongs to the caller; an existing one keeps its owner, and its name
\* unless one is given.
Upsert(r) ==
  row' = IF row = NoRow
           THEN [status |-> "running", owner |-> UserID(req[r].who), name |-> req[r].name]
           ELSE [row EXCEPT !.status = "running",
                            !.name = IF req[r].name = Unnamed THEN @ ELSE req[r].name]

\* An UPDATE changes nothing where there is no row.
SetStatus(s) == row' = IF row = NoRow THEN row ELSE [row EXCEPT !.status = s]

MarkStopped == SetStatus("stopped")

Archive == SetStatus("archived")

-----------------------------------------------------------------------------
(* launchVM and terminateVM.                                                *)

\* Launch finds no VM with this id.  The caller need not own the row.
LaunchBegins(r) == \E p \in Principals :
  /\ vm = "none"
  /\ Enter(r, p, "launching")
  /\ UNCHANGED <<vm, base, row, snaps, files, taken, torn>>

LaunchBoots(r) ==
  /\ req[r].pc = "launching"
  /\ vm' = "running" /\ base' = NoSnap
  /\ Goto(r, "upsert")
  /\ UNCHANGED <<row, snaps, files, taken, torn, calm>>

\* Admission, boot or the cgroup fails; what is rolled back is the supervisor's.
LaunchFails(r) ==
  /\ req[r].pc = "launching"
  /\ Respond(r)
  /\ UNCHANGED <<vm, base, row, snaps, files, taken, torn, calm>>

\* The Upsert at the end of launchVM and resumeSandbox, then the answer.
RecordRunning(r) ==
  /\ req[r].pc = "upsert"
  /\ \/ Upsert(r) /\ UNCHANGED calm
     \/ UNCHANGED row /\ calm' = FALSE
  /\ Respond(r)
  /\ UNCHANGED <<vm, base, snaps, files, taken, torn>>

\* sup.Terminate, and nothing at all when there is no VM.  Who asks does not matter.
TerminateKills(r) ==
  /\ vm # "none"
  /\ vm' = "none"
  /\ Enter(r, Service, "mark")
  /\ UNCHANGED <<base, row, snaps, files, taken, torn>>

\* MarkStopped at the end of terminateVM and stopSandbox, then the answer.
RecordStopped(r) ==
  /\ req[r].pc = "mark"
  /\ \/ MarkStopped /\ UNCHANGED calm
     \/ UNCHANGED row /\ calm' = FALSE
  /\ Respond(r)
  /\ UNCHANGED <<vm, base, snaps, files, taken, torn>>

-----------------------------------------------------------------------------
(* stopSandbox.                                                             *)

StopBegins(r) == \E p \in Principals :
  /\ Authorized(p) /\ vm # "none"
  /\ Enter(r, p, "capture")
  /\ UNCHANGED <<vm, base, row, snaps, files, taken, torn>>

\* CreatePausedWithDisk makes the directory and pauses the guest.
StopPauses(r) ==
  /\ req[r].pc = "capture" /\ vm # "none" /\ taken < MaxSnaps
  /\ vm' = "paused"
  /\ taken' = taken + 1
  /\ files' = files \cup {taken + 1}
  /\ req' = [req EXCEPT ![r].pc = "snapshot", ![r].snap = taken + 1]
  /\ UNCHANGED <<base, row, snaps, torn, calm>>

\* Memory and device state are written and the disk is copied; a disk already open is
\* copied although the VM is terminated meanwhile.
StopCaptures(r) ==
  /\ req[r].pc = "snapshot"
  /\ Goto(r, "teardown")
  /\ UNCHANGED <<vm, base, row, snaps, files, taken, torn, calm>>

\* Faulty: the partial snapshot stays on disk.
StopFails_Keeps(r) ==
  /\ req[r].pc \in {"capture", "snapshot"}
  /\ calm' = FALSE
  /\ Respond(r)
  /\ UNCHANGED <<vm, base, row, snaps, files, taken, torn>>

\* The VM is gone, the pause, the snapshot or the copy fails: the directory is removed, and a
\* guest that was paused by then stays paused.  The error of the removal is discarded, and a
\* directory that is left is known to nobody; after a failed pause it is one more.
StopFails(r) ==
  /\ req[r].pc \in {"capture", "snapshot"}
  /\ \/ files' = files \ {req[r].snap} /\ UNCHANGED <<taken, torn>>
     \/ /\ req[r].pc = "snapshot"
        /\ torn' = torn \cup {req[r].snap} /\ UNCHANGED <<files, taken>>
     \/ /\ req[r].pc = "capture" /\ vm # "none" /\ taken < MaxSnaps
        /\ taken' = taken + 1
        /\ files' = files \cup {taken + 1} /\ torn' = torn \cup {taken + 1}
  /\ calm' = FALSE
  /\ Respond(r)
  /\ UNCHANGED <<vm, base, row, snaps>>

\* Terminate by id, whichever VM that is by now; a missing one is logged.
StopTearsDown(r) ==
  /\ req[r].pc = "teardown"
  /\ vm' = "none"
  /\ Goto(r, "record")
  /\ UNCHANGED <<base, row, snaps, files, taken, torn, calm>>

\* Snapshots.Create; when it fails the directory is known to nobody.
RecordSnapshot(r) ==
  /\ req[r].pc = "record"
  /\ \/ snaps' = Append(snaps, req[r].snap) /\ UNCHANGED <<torn, calm>>
     \/ torn' = torn \cup {req[r].snap} /\ calm' = FALSE /\ UNCHANGED snaps
  /\ Goto(r, "mark")
  /\ UNCHANGED <<vm, base, row, files, taken>>

-----------------------------------------------------------------------------
(* resumeSandbox.                                                           *)

\* The row is read, name included, and no VM with this id is found.  The status of the
\* row is not looked at.
ResumeBegins(r) == \E p \in Principals :
  /\ Authorized(p) /\ vm = "none"
  /\ req[r] = Idle
  /\ req' = [req EXCEPT ![r] = [Idle EXCEPT !.pc = "latest", !.who = p, !.name = row.name]]
  /\ calm' = (calm /\ \A q \in Requests : req[q] = Idle)
  /\ UNCHANGED <<vm, base, row, snaps, files, taken, torn>>

\* Faulty: the order of created_at is reversed.
Latest_Oldest == Head(snaps)

\* SnapshotRepo.Latest
Latest == Last(snaps)

ResumeReads(r) ==
  /\ req[r].pc = "latest" /\ snaps # <<>>
  /\ req' = [req EXCEPT ![r].pc = "restore", ![r].snap = Latest]
  /\ UNCHANGED <<vm, base, row, snaps, files, taken, torn, calm>>

\* LoadSnapshot finds the id unused and copies the disk.
ResumeCopies(r) ==
  /\ req[r].pc = "restore" /\ vm = "none" /\ req[r].snap \in files
  /\ Goto(r, "restoring")
  /\ UNCHANGED <<vm, base, row, snaps, files, taken, torn, calm>>

\* The VMM maps the memory file, and the VM is registered.
ResumeBoots(r) ==
  /\ req[r].pc = "restoring" /\ req[r].snap \in files
  /\ vm' = "running" /\ base' = req[r].snap
  /\ Goto(r, "upsert")
  /\ UNCHANGED <<row, snaps, files, taken, torn, calm>>

\* No snapshot, a failing statement, an id in use, a missing file, a failing boot.
ResumeFails(r) ==
  /\ req[r].pc \in {"latest", "restore", "restoring"}
  /\ Respond(r)
  /\ UNCHANGED <<vm, base, row, snaps, files, taken, torn, calm>>

-----------------------------------------------------------------------------
(* renameSandbox and deleteSandbox.                                         *)

Rename == \E p \in Principals, n \in Names :
  /\ Authorized(p)
  /\ row' = [row EXCEPT !.name = n]
  /\ UNCHANGED <<vm, base, snaps, files, taken, req, torn, calm>>

\* Any live VM is terminated; that it may be gone already is ignored.
DeleteKills(r) == \E p \in Principals :
  /\ Authorized(p)
  /\ vm' = "none"
  /\ Enter(r, p, "list")
  /\ UNCHANGED <<base, row, snaps, files, taken, torn>>

\* Faulty: only the newest snapshot is listed.
DeleteLists_Newest(r) ==
  /\ req[r].pc = "list"
  /\ req' = [req EXCEPT ![r].pc = "purge",
                        ![r].todo = IF snaps = <<>> THEN <<>> ELSE <<Last(snaps)>>]
  /\ UNCHANGED <<vm, base, row, snaps, files, taken, torn, calm>>

\* ListBySandbox; when it fails nothing is deleted and the handler goes on.
DeleteLists(r) ==
  /\ req[r].pc = "list"
  /\ \/ req' = [req EXCEPT ![r].pc = "purge", ![r].todo = snaps] /\ UNCHANGED calm
     \/ Goto(r, "purge") /\ calm' = FALSE
  /\ UNCHANGED <<vm, base, row, snaps, files, taken, torn>>

\* RemoveAll of the directory of the next snapshot, the newest first; its error is discarded.
DeleteRemoves(r) ==
  /\ req[r].pc = "purge" /\ req[r].todo # <<>>
  /\ \/ files' = files \ {Last(req[r].todo)} /\ UNCHANGED calm
     \/ UNCHANGED files /\ calm' = FALSE
  /\ Goto(r, "unlist")
  /\ UNCHANGED <<vm, base, row, snaps, taken, torn>>

\* SnapshotRepo.Delete: at most one row has this id.
Delete(s) ==
  \/ \E i \in DOMAIN snaps : snaps[i] = s /\ snaps' = RemoveAt(snaps, i)
  \/ s \notin Range(snaps) /\ UNCHANGED snaps

\* The row of the snapshot is deleted, also when its directory is still there; an error is
\* ignored.
DeleteUnlists(r) ==
  /\ req[r].pc = "unlist"
  /\ LET s == Last(req[r].todo) IN
       \/ /\ Delete(s) /\ UNCHANGED calm
          /\ torn' = IF s \in files THEN torn \cup {s} ELSE torn \ {s}
       \/ /\ torn' = torn \cup (({s} \cap Range(snaps)) \ files) /\ calm' = FALSE
          /\ UNCHANGED snaps
  /\ req' = [req EXCEPT ![r].pc = "purge", ![r].todo = Front(@)]
  /\ UNCHANGED <<vm, base, row, files, taken>>

DeleteArchives(r) ==
  /\ req[r].pc = "purge" /\ req[r].todo = <<>>
  /\ \/ Archive /\ UNCHANGED calm
     \/ UNCHANGED row /\ calm' = FALSE
  /\ Respond(r)
  /\ UNCHANGED <<vm, base, snaps, files, taken, torn>>

-----------------------------------------------------------------------------
(* The rest of the control plane.                                           *)

\* The health loop reaps a dead VMM, or a shutdown terminates it; rows are not touched.
Dies ==
  /\ vm # "none"
  /\ vm' = "none" /\ calm' = FALSE
  /\ UNCHANGED <<base, row, snaps, files, taken, req, torn>>

\* The snapshot a request has taken and not recorded, or removed and not unlisted.
InHand(r) ==
  CASE req[r].pc \in {"snapshot", "teardown", "record"} -> {req[r].snap}
    [] req[r].pc = "unlist" -> ({Last(req[r].todo)} \cap Range(snaps)) \ files
    [] OTHER -> {}

\* The control plane ends; at its next start Reconcile kills the VMs left over.
Crash ==
  /\ vm' = "none" /\ calm' = FALSE
  /\ torn' = torn \cup UNION {InHand(r) : r \in Requests}
  /\ req' = [r \in Requests |-> Idle]
  /\ UNCHANGED <<base, row, snaps, files, taken>>

-----------------------------------------------------------------------------
launchVM(r) == LaunchBegins(r) \/ LaunchBoots(r) \/ LaunchFails(r) \/ RecordRunning(r)
terminateVM(r) == TerminateKills(r) \/ RecordStopped(r)
stopSandbox(r) == \/ StopBegins(r) \/ StopPauses(r) \/ StopCaptures(r) \/ StopFails(r)
                  \/ StopTearsDown(r) \/ RecordSnapshot(r)
resumeSandbox(r) == \/ ResumeBegins(r) \/ ResumeReads(r) \/ ResumeCopies(r)
                    \/ ResumeBoots(r) \/ ResumeFails(r)
deleteSandbox(r) == \/ DeleteKills(r) \/ DeleteLists(r) \/ DeleteRemoves(r)
                    \/ DeleteUnlists(r) \/ DeleteArchives(r)

Next ==
  \/ \E r \in Requests : \/ launchVM(r) \/ terminateVM(r) \/ stopSandbox(r)
                         \/ resumeSandbox(r) \/ deleteSandbox(r)
  \/ Rename \/ Dies \/ Crash

Spec == Init /\ [][Next]_vars

-----------------------------------------------------------------------------
(* Properties.                                                              *)

Quiet == \A r \in Requests : req[r] = Idle

\* Every variable has its type.
TypeOK ==
  /\ vm \in {"none", "running", "paused"} /\ base \in Snaps \cup {NoSnap}
  /\ row \in Row \cup {NoRow}
  /\ snaps \in Seq(Snaps) /\ files \subseteq Snaps /\ taken \in 0 .. MaxSnaps
  /\ req \in [Requests -> [pc : {"idle", "launching", "upsert", "mark", "capture", "snapshot",
                                 "teardown", "record", "latest", "restore", "restoring", "list",
                                 "purge", "unlist"},
                           who : Principals, name : Names \cup {Unnamed},
                           snap : Snaps \cup {NoSnap}, todo : Seq(Snaps)]]
  /\ torn \subseteq Snaps /\ calm \in BOOLEAN

\* authorizeSandbox looks at the row once, at the start.  At every later step of stop,
\* resume and delete the caller still is somebody who may act on the sandbox, however many
\* launches under the same id and resumes by others wrote the row meanwhile.
ActsForOwner ==
  \A r \in Requests :
    req[r].pc \in {"capture", "snapshot", "teardown", "record", "latest", "restore", "restoring",
                   "list", "purge", "unlist"} => Authorized(req[r].who)

\* Whoever launches again under an id, and whatever name was read before a rename, the row
\* keeps its owner, stays, and does not become nameless (Upsert's ON CONFLICT; sandboxes.go:36,
\* "name is preserved unless provided non-empty").  That the owner is kept when somebody
\* else launches is not what api.go:248, "owned by the caller", says: README, section 8.
IdentityKept ==
  [][row # NoRow => /\ row' # NoRow
                    /\ row'.owner = row.owner
                    /\ row.name # Unnamed => row'.name # Unnamed]_vars

\* A directory without a row, and a row without its directory, exist only while the
\* request at work on that snapshot is in progress, or after a statement or a removal failed
\* or the control plane died (torn): no interleaving of stops, resumes and deletes by itself
\* leaks one or removes the files of another.
FilesMatchRows ==
  LET Held == UNION {InHand(r) : r \in Requests}
  IN /\ files \ Range(snaps) \subseteq Held \cup torn
     /\ Range(snaps) \ files \subseteq Held \cup torn

\* Requests that follow one another, none of which failed halfway, leave a row that says
\* what there is: running exactly while a VM runs, none left paused, and nothing behind an
\* archived one (deleteSandbox, "tears down any live VM, deletes snapshot artefacts").
StatusTruthful ==
  calm /\ Quiet =>
    /\ vm # "paused"
    /\ (vm = "running") = (row.status = "running")
    /\ row.status = "archived" => snaps = <<>> /\ files = {}

\* Then, too, a resumed guest is the last one captured, never an older one.
ResumesNewest == calm /\ vm = "running" => base \in {NoSnap, taken}
=============================================================================
