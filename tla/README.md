# A TLA+ model of the sandbox orchestration platform

The platform runs untrusted agent scripts in Firecracker microVMs. A Go control
plane launches, snapshots, reaps and terminates the VMs; a browser terminal sends
scripts through a human-in-the-loop gate to an agent inside the guest. This
directory holds TLA+ models of the parts whose correctness depends on the order in
which goroutines, Redis commands, SQL statements, VMMs and crashes interleave, the TLC runs that
check them, and TLAPS proofs of all their safety properties.

`PROJECT.json` is the index: components, runs, mutants (a faulty variant of a
definition for each property, which the property must catch), the map from
definitions to source lines, findings, hazards and theorems. Paths below are
relative to `src/`.

## 1. Inventory of the system

| Component | State | Operations | What makes it correct |
|---|---|---|---|
| CID allocator (`internal/orchestrator/orchestrator.go`) | cursor `next`, set `used` | `alloc`, `free` | unique CIDs, none lost, exhaustion is an error |
| Supervisor (same file) | `inst`: tracked instances under a mutex; per-VM state directory, chroot and cgroup leaf on the host | `Launch`, `Terminate`, `List`, `Get`, admission | limits kept, every error path rolls back, one owner per instance |
| Snapshot engine (`snapshot.go`) | snapshot files | `LoadSnapshot`, `StopWithSnapshot`, `CreatePausedWithDisk`, `Create`, `Delete` | a stop ends in a snapshot and a torn-down VM; a resume gets its own disk |
| Recovery and health loop (`orchestrator.go`, `cmd/controlplane/main.go`) | Redis records, process table | `Reconcile`, `ReapDead`, orderly shutdown | recorded orphans are killed, dead sandboxes reaped |
| Snapshot pool (`pool.go`) | stack `warm`, channels `refill`, `done` | `Acquire`, `Release`, `Close`, `refillLoop` | an instance has one owner, none is lost, the pool fills up again |
| Human-in-the-loop gate (`internal/hitl/gate.go`) | approval records with TTL, pending set, audit entries (Redis) | `Classify`, `Submit`, `Decide`, `Pending`, `WaitForDecision` | nothing sensitive runs unapproved; one decision per approval; every wait ends |
| Terminal proxy (`internal/gateway/proxy.go`) | per session: reader goroutine, `incoming` and `done` channels, main loop | `serve`, `ctxUntilDone` | approval before execution, goroutines end with the session |
| Vsock client, wire protocol (`internal/gateway/vsockclient.go`, `internal/protocol`) | one connection per call | `Exec`, `Ping`, `dialWithRetry`; frames | a request runs at most once, every call returns |
| Guest agent (`cmd/guest-agent`) | one handler per connection, output cap, script process group | `handleConn`, `runScript`, `streamWriter` | output capped and complete, no process left behind |
| Rate limiter, records (`internal/state/redis.go`) | token bucket hash; sandbox records | `Allow`; `Save`, `Remove`, `All` | burst and rate bound what is permitted; record and active set agree |
| REST handlers and history (`internal/gateway/api.go`, `sandbox_api.go`, `internal/store/pg`) | Postgres rows of sandboxes and snapshots | launch, stop, resume, terminate, rename, delete | the rows agree with what the supervisor runs, files with rows, and a sandbox stays its owner's |
| Authentication (`internal/auth`, `auth_api.go`, `cmd/controlplane`) | users, login sessions | `requireAuth`, login, logout, `createUser`, `bootstrapAdmin`, purge of sessions | a revoked or expired session and a disabled account authorise nothing |
| Transcripts, audit log (`internal/store/pg`) | append-only rows | `Append`, `List`, `Prune`, `Record` | order and uniqueness of lines |
| Console, scripts, deployment (`web`, `scripts`, `deploy`) | none of the backend's | – | – |

**How the parts interact.** HTTP handlers, the health loop and `main` call the
supervisor concurrently; the supervisor calls Firecracker, the file system and Redis
outside its lock. A terminal session goes from the WebSocket reader through the rate
limiter and the gate to the vsock client, which talks to the agent. Approval handlers,
the list of pending approvals and the sessions meet only in Redis; the REST handlers and
the maintenance loop meet in Postgres. The pool uses the
supervisor as any other caller does.

**What is hard.** Locks released around slow calls (launch, terminate, refill); state
found again by id or pid after a pause (reaper, terminate, reconcile); Redis pipelines
that are not transactions and keys that expire; crashes between a boot and its record; a
reader goroutine that cannot see a disconnect while it is blocked; `os/exec`'s interplay
of process exit, pipe copy, timeout and `WaitDelay`; clock readings that arrive out of
order; handlers of several SQL statements, file operations and supervisor calls without
a transaction, each of which may fail. `PROJECT.json`, "hazards", lists the main ones at
their lines; section 8 has what the code does there.

## 2. Modules

| Module | Models | Notes |
|---|---|---|
| `CidAllocator` | `cidAllocator` | one step per method, each runs under the allocator's mutex |
| `Supervisor` (extends it) | `Launch`, `LoadSnapshot`, `Terminate`, `StopWithSnapshot`, `ReapDead`, `Reconcile`, start, shutdown and crash of the control plane, the Redis records, the host artefacts and the VMM processes | |
| `HitlGate` | the gate in Redis | one step per Redis command |
| `Terminal` (extends it) | browser, reader, `ctxUntilDone` watcher and main loop of terminal sessions, composed with the gate | |
| `GuestExec` | one `Exec` call through client, connection and agent | |
| `TokenBucket` | `Store.Allow` and its Lua script | |
| `Pool` | `NewPool`, `Acquire`, `Release`, `Close`, `refillLoop` | |
| `ApprovalContract` | what gate and terminal promise together | abstract; `Terminal` instantiates it |
| `History` | the REST handlers over one sandbox: Postgres rows, snapshot directories, one VM | one step per statement, file operation or supervisor call |
| `Accounts` | `requireAuth`, login, logout, `createUser`, sessions and users, `bootstrapAdmin`, purge | one step per statement |
| `Transcripts` | `Append`, `recordLine`, `List`, `PruneOlderThanDays` | |
| `SupervisorProofs`, `TerminalProofs`, `TokenBucketProofs`, `PoolProofs`, `GuestExecProofs`, `HistoryProofs`, `AccountsProofs`, `TranscriptsProofs` | theorems | one module of proofs per model |
| `MCSupervisor`, `MCTokenBucket`, `MCHistory`, `MCTranscripts` | symmetry sets for TLC | |

Definitions named `X_Something` are faulty variants of `X`, used only to show that a
property notices the fault; nothing else refers to them.

**Supervisor.** A process is a goroutine: `Clients` (handlers), `Reaper`, `Main`. `pc`
and `job` are its position and locals. A step ends where the code releases a mutex or
calls out; between two steps everything else may happen. So `Launch` is
`LaunchAdmit` (duplicate check and admission, one lock), `LaunchAlloc`, `LaunchBuild`,
`LaunchCgroup`, `LaunchBoot`, `LaunchPlace`, `LaunchInsert` (second lock), `LaunchSave`,
each call with the error path the code gives it (`Cleanup` is the closure of that
name). `LoadSnapshot` takes the same steps with `kind = "restore"`. `Terminate` is the
locked removal, `TerminateHalt`, `TerminateReclaim` and `TerminateUnrecord`; handlers,
reaper, stop and shutdown share it. A VMM has a state (`run`, `paused`, `stopping`,
`gone`, or `foreign` once its pid belongs to another program), an id and whether it is
in its cgroup. Host artefacts are kept per sandbox *id*, as in the code, which is what
makes a late termination dangerous to a successor. `Die` loses memory and keeps VMMs,
artefacts and records. `MayFail` names the calls that may fail in a run. The ghost
variables `adrift` and `leaked` remember VMMs and CIDs the code can no longer name, and
`early` the sandboxes launched while a `Terminate` of their predecessor, past its unlock,
was still at work. `OnePerId` restricts the *callers*, not the code: TRUE describes a
console that waits for each answer. It keeps handlers of one id apart; the reaper and `main`
wait for nobody and nobody waits for them (`MayStart`).

**HitlGate and Terminal.** `rec`, `listed` and `audit` are the three kinds of key;
`lapses` and `covered` keep of the TTLs what matters: does the pending set have one,
and which records run out no later than it. `Decide`, `Submit` and the
self-healing of `Pending` are cut into their commands. The reader of a session holds
the frame it offers on the unbuffered channel, so it cannot notice a disconnect until
the main loop takes the frame. `granted` is a ghost. The rate limiter is a choice in
`TakeFrame` (it refuses or lets through; it fails open). `Classify` splits scripts into
benign and sensitive ones; the regular expressions are data.

**GuestExec.** The host side (dial, retries, send, receive), the cancel closure, the
agent's handler, the goroutine that copies the pipe, the script, a background child
inside or outside the process group, the deadline, the agent's shutdown and the death
of the VM. `frozen` says that the VM was paused (`VmPauses`, by a stop with snapshot that
may fail and leave it so): nothing in the guest moves then and no new connection is
answered, while open ones stay open. Output is counted in units, frames carry up to `Chunk`, pipe and connection
are bounded, so that writers block. `Ping` is the request kind `"ping"`.

**TokenBucket.** `AllowReadsClock` and `AllowScript` are separate because the time is
read in Go and used later in Redis. `drift` (ghost) adds up by how much late calls set
the bucket's time back. Time is in whole ticks; the floating-point fractions of the
script are not modelled.

**Pool.** Callers, refill goroutine and `Close` over the stack of warm instances and the
buffered channel, of which only the number of elements matters. The supervisor is
reduced to the set of instances it tracks; `Dies` is the health loop reaping one.

**History.** `vm` is all that is left of the supervisor: is a VM with this id tracked,
running or paused. A launch and a resume find no VM first and register one later, so they
may overlap with each other and with everything else, as in `Supervisor`. `row` and `snaps`
are the tables, `files` the snapshot directories; `req` holds where each request is and
what it has read. `authorizeSandbox` is part of the first step of its handler, which is
sound because owners never change and rows stay (`IdentityKept`). Each statement has a
failing alternative, which the handlers log or ignore as the code does. A stop that goes
on while its VM was replaced may capture the new one; in the code it then fails, so the
model has more behaviours than the program. `torn` and `calm` are history variables:
which snapshots a failed statement, a failed removal or a crash has parted from their
row or directory, and whether
requests so far followed one another, failed nowhere halfway and no VM died. The error of
`os.RemoveAll` is discarded in the code, so `StopFails` and `DeleteRemoves` go on with the
directory still there; it is `torn` as soon as no row and no request knows it.

**Accounts.** A request carries any cookie that was ever issued, the API token, or both.
`Resolve` is `ResolveSession` and `ResolveUser`; when either finds nothing or fails the
token is next, as in `requireAuth`. `sawSession` and `sawAccount` remember, from the start
of the request on, whether the session was live and its account enabled. `SetDisabled` has
no caller in the repository and stands for an operator at the database. `Roles` is the set
of role strings clients send: no layer validates them (`auth_api.go:144`, `users.go:26`, no
CHECK in the schema), an empty one becomes operator (`DefaultRole`), and only `"admin"`
makes a difference.

**Transcripts.** A statement is `AppendBegins`, which reads the highest number committed,
and `AppendCommits` or `AppendFails`. A session waits for its statement up to the time-out
of `recordLine`; the statement may outlive it. `Page` is `List` with lines of one number in
any order, since the query orders by number only. Time is in days.

## 3. Runs

| Run | Instance | Checks |
|---|---|---|
| `SupervisorRaces` | 1 id, 2 handlers that resume, stop and terminate it, 2 pids, 2 CIDs, 2 starts, pid reuse, failing `place`, `rekey`, Redis | `TypeOK`, `CidsExclusive`, `CidsAccounted`, `NoStrayVmm`, `TrackedIsCapped` |
| `SupervisorAdmission` | 2 ids, 2 handlers, memory 1, 2 or 3, limits 1 sandbox and 2 units | `OvershootBounded` |
| `SupervisorSerial` | 1 id, 1 handler beside reaper and `main`, 2 pids, 2 starts, pid reuse, orderly shutdown ends everything, every call but Redis may fail | `TrackedIsWhole`, `TrackedIsDurable`, `DeadAreReaped`, `OrphansDie` |
| `Pool` | depth 1, 2 callers, 4 instance names, 1 failed restore, 2 calls of `Close` | `TypeOK`, `OverfillBounded`, `OneOwner`, `NothingLost`, `Refills` |
| `Terminal` | 1 session, 2 approvals, 1 operator, 2 frames | `TypeOK`, `ApprovedBeforeRun`, `NoReaderLeak`, `HealSparesPending`, `WaitEnds`, `KeepsContract` |
| `GuestExec` | all requests, 1 retry, cap 3, chunk 2, pipe 2, 1 frame buffered, up to 4 units | `TypeOK`, `RunsOnce`, `OutputCapped`, `ZeroMeansComplete`, `NoStragglers`, `ExecReturns` |
| `TokenBucket` | 2 callers, capacity 3, rate 2, costs 1 and 2, 7 ticks | `TypeOK`, `RateBound` |
| `History` | 2 requests, 2 users and the API token, 1 name, 2 snapshots | `TypeOK`, `ActsForOwner`, `FilesMatchRows`, `StatusTruthful`, `ResumesNewest` |
| `Accounts` | 2 processes, 2 users, 3 roles or none, 1 login session, 2 requests | `TypeOK`, `ServedWasValid`, `EveryStartServes` |
| `Transcripts` | 2 sessions, 3 lines each, pages of 2, retention 1 day, 3 days | `TypeOK`, `SessionOrder`, `MissesOnlyTies` |
| `ClaimFirstWriter` | 1 approval, 2 operators | `FirstWriterWins`, a documented claim which the code does not keep (section 7) |
| `ClaimRecorded` | 1 id, 1 handler, reaper, nothing fails | `RunningIsRecorded`, another one |

**Why the bounds are enough.** One id with two handlers gives every race over an id
(launch against launch, terminate, stop, reaper, shutdown); what different ids share is
the allocator and the admission limits, and two CIDs for two launches in flight reach
wrap-around and exhaustion. Two starts give one crash with a recovery after it; a third
start repeats the second. Two pids mean that at most two VMMs are booted, a sandbox and
its successor, which bounds the runs: a boot without a free pid fails like a failed fork.
The failure of every call but Redis is explored with one handler in `SupervisorSerial`,
that of Redis with two in `SupervisorRaces`; the CID invariants are proved for
all failures and any number of processes. The pool's run has depth 1, where
`OverfillBounded` is reached exactly (two warm slots); larger depths are covered by the
proof. For the guest, a cap of 3 with chunks of 2 puts the cap inside a chunk, a pipe
of 2 and a connection of 1 block both writers, and 4 units exceed the cap. In
`TokenBucket` a full refill takes two ticks, so a bucket can expire and be used again
within the run. In
`Terminal` one session and one operator meet every step of the gate; several of each
are covered by the proofs, contract included. In `History` one id is enough, because no
handler touches the rows of another; two requests give every pair of handlers, and with
two snapshots there is an older one to resume or to forget. In `Accounts` two requests put a
login, a logout or the creation of a user between the two statements of another; the run
checks liveness, which rules out symmetry, and one login session keeps it small. In `Transcripts` two sessions give equal
numbers and pages of 2 end between them; 3 days let retention remove some or all lines.
Symmetry is used in safety runs only. Deadlock is checked in `History` and `Accounts`,
where requests can always be made; `CHECK_DEADLOCK FALSE` elsewhere: these systems may
come to rest (no more requests, starts, ticks).

**Fairness.** `Supervisor`: weak fairness of each handler's current operation, of the
reaper (ticker and scheduler), of `main` (systemd restarts it, `Reconcile` has no step
that waits for anybody) and of the exit of a VMM that was signalled; requests, crashes
and unprovoked exits are never owed. `Terminal`: reader, watcher and main loop are
scheduled, the poll ticks, Redis expires keys; nobody has to decide, send or leave.
`GuestExec`: host goroutine and cancel closure, the deadline a `Ping` has, and, only while
the guest is not paused, handler, copying goroutine and the deadline timer; script,
children, the caller's context and the VM owe nothing, nor does anybody resume a guest. `Pool`: the refill
goroutine and the call a caller is in. `Accounts`: a starting process goes on and systemd
starts it again when it exits with an error (`Restart=on-failure`); no request, logout,
login or purge is owed.

## 4. What the properties say

- `CidsExclusive`, `CidsAccounted`: over all rollbacks, terminations and reaps, a CID
  has one holder, is marked used as long as it has one, and is given back in the end,
  except when a second launch replaces an entry (the ghost `leaked`).
- `NoStrayVmm`: every running VMM is tracked, held by an operation in flight, or named
  by a record that the coming `Reconcile` visits; the exceptions are exactly entries
  that were replaced and VMMs unrecorded at a crash (the ghost `adrift`).
- `OvershootBounded`: what admission does promise under concurrency: handlers minus one
  launches too many, at most, for both limits.
- `TrackedIsCapped`: over all races, failures and crashes a tracked sandbox has its VMM
  inside its cgroup leaf.
- `TrackedIsWhole`, `TrackedIsDurable`: with callers that wait for each answer, a tracked
  sandbox has disk, chroot and leaf, and its record names it. A caller that resumes a dead
  sandbox while the reaper is still ending it is the exception (`early`): `ClaimRecorded`
  shows what it loses.
- `DeadAreReaped`, `OrphansDie`: what the health loop and recovery eventually do.
- `ApprovedBeforeRun`: no expiry, lost pipeline, failed poll or disconnect lets a
  sensitive script through. `NoReaderLeak`, `HealSparesPending`, `WaitEnds`: the
  session's goroutines end, self-healing never hides a pending approval, waits end.
- `KeepsContract`: the refinement. `ApprovalContract` is what an operator may rely on: a
  sensitive command is held under an approval of its own, leaves the hold towards the
  guest only once that is granted, and an approval that was asked for is never asked for
  again, so a grant releases at most one command. The mapping (end of `Terminal`) reads
  the desk of a session off its main loop; an approval is used once its record was
  written or a session has it. It holds although decisions overwrite each other
  (section 7): a grant stays a grant.
- `ActsForOwner`: `Upsert` takes up an existing row whoever launches; the row keeps its
  owner, so what `authorizeSandbox` found at the start still holds at the last step of stop,
  resume and delete.
- `FilesMatchRows`: a snapshot directory without a row or a row without its directory is
  in the hands of a request in progress, or a statement or the removal of the directory
  failed or the process crashed right there (`torn`). `StatusTruthful`, `ResumesNewest`: what
  holds for requests that follow one another and do not fail halfway (`calm`): the row tells
  what there is, nothing is left behind an archived one, a resume gets the last state;
  section 8 has what overlapping requests do to them.
- `ServedWasValid`: `Resolve` looks at session and account in two statements, so "valid
  now" cannot be had; each part was true at some time since the request began, and for
  the same user. `EveryStartServes`: control planes that start together on an empty
  database all end up serving.
- `SessionOrder`, `MissesOnlyTies`: numbers of transcript lines may repeat, but within a
  session they go up, and a client that pages misses a line only when it has another one
  with that number.
- `RunsOnce`, `OutputCapped`, `ZeroMeansComplete`, `NoStragglers`, `ExecReturns`: the
  contract of `Exec` as its callers use it. Units are bytes of the script's output; what
  `encoding/json` makes of them is outside (section 6). `ExecReturns` has one exception,
  which the code has: the guest is paused for good and the caller does not cancel.
- `RateBound`: capacity plus rate times elapsed time, plus the rate times `drift`.
- `OverfillBounded`, `OneOwner`, `NothingLost`, `Refills`: the pool.

## 5. What is proved

Every invariant and the refinement that the passing runs check is also a theorem, for every value of the constants under the named `ASSUME`s of the modules
(non-empty CID range, distinct names, natural-number limits and buffer sizes, positive
pool depth and refill rate). Sets of ids, pids, sessions, approvals, operators, requests
and instances are arbitrary and may be infinite; only the set of handlers of `Supervisor`
is assumed to be finite (`ClientsAssumption`), which the bound on the overshoot counts.
Each invariant below was checked by TLC as an invariant of a run before it was proved.

- `SupervisorProofs`, six groups over one model:
  - `TypeCorrect` by `TypeInv = TypeOK /\ JobOK`. `TypeOK` alone is not inductive: `inst`
    is filled from `job`, so the proof needs to know which locals are set at which step
    (`JobFits`).
  - `CidsNeverShared` and `CidsNeverLost` by
    `CidInv = CidsExclusive /\ CidsAccounted /\ leaked \subseteq used`. Every action does
    one of five things to CIDs (nothing, take, free, hand over to `inst`, take over from
    `inst`); there is a lemma for each (`CidsKept`, `CidTaken`, `CidFreed`, `CidInserted`,
    `CidDeleted`), and each action is reduced to one of them. The two properties need each
    other: a replaced entry's CID must stay used or it could be given out again.
  - `NoVmmLost` by `StrayInv = Held /\ Closed /\ Visits`. `NoStrayVmm` lets any goroutine
    that names a VMM answer for it; a stop only looks at one, so `Held` counts just the
    steps from boot to insert and from removal to halt. `Closed` says that before the
    server listens only `Reconcile` runs and nothing is tracked. `Visits` says that
    `Reconcile` still has every recorded VMM before it, and that the record it is about to
    remove names no VMM that runs: without it, removing a record could lose one.
  - `TrackedStaysCapped` by `CapInv`: the VMM of a launch past its placement, and of a
    tracked sandbox, is capped while it lives. It needs no restriction on callers.
  - `TrackedStaysWhole` and `TrackedStaysDurable` by
    `SoleInv = OnePerId => Alone /\ Staged /\ Recorded`. `Alone` is what callers that wait
    give: no two handlers work on one id, and whoever else is past the removal of the entry
    of an id that is launched or tracked makes that launch `early`; reaper and `main` may
    also have chosen the id before and terminate it later, as a whole. `Staged` follows the
    artefacts from step to step, `Recorded` the record, both for ids that are not `early`.
  - `LimitsOvershootBounded` by `LoadInv`: finitely many sandboxes are tracked, nothing was
    admitted that would not fit into an empty host (`Fits`), and the bound itself. The
    sums of `OvershootBounded` are folds over sets. Induction over finite sets is not
    available with a predicate as parameter, so the lemmas on sums (`SumTakeOut`,
    `SumSubset`, `SumBound`...) argue by a minimal counterexample: the set of subsets for
    which a claim fails, if not empty, has a minimal element because strict inclusion is
    well-founded there.
- `TerminalProofs`: `NothingRunsUnapproved` and `ReadersReturn` by `TInv`, which adds
  `OnlyDecided` (an approved record is in `granted`), `CancelledByReader` (only the end
  of the reader cancels a context) and `Busy` (which locals are set at which step).
  `HealingIsSafe` by `HealInv`: sessions never share an approval, an approval about to be
  submitted has had no record, and an id is listed only after its record was written, so
  the record that `Pending` found gone cannot become pending before the SREM.
  `ContractKept` is the refinement `Spec => KeepsContract`. `TInv` is
  strengthened by `Known`: an approval somebody waits for, decides on or runs under has a
  record or had one, so dropping the command does not make the approval unused. Every
  action is then a step of the contract (`TakeFrame` starts a benign command or a hold,
  `DecideSet` is a grant, `PollApproved` a release, a failed submit, a rejection and a
  cancelled wait are drops, `ExecReturns` finishes) or leaves desks, used and granted
  approvals alone; there is a lemma for each.
- `GuestExecProofs`: all by `GInv`. Output is accounted for on its whole way: what the
  caller has, what is on the wire (`InTransit`, a running count over the frames), what
  the copying goroutine holds and what is in the pipe add up to what was produced unless
  the cap cut it or `WaitDelay` or a failed write spoiled the wait (`Conserved`). With `LastIsLast`
  (nothing follows a terminal frame) and `NoticeFits`, an exit code 0 is earned before it is
  put on the wire (`ZeroIsEarned`).
- `HistoryProofs`: all by `HInv`. A snapshot between its capture and its record is on disk,
  in no row and on no list of a delete, and belongs to one request (`Owned`); `Leftover`
  and `Dangling` are `FilesMatchRows` with the request that accounts for the difference.
  For calm histories `InStep` says what the one request in progress has done so far, for
  instance that the directory is gone before its row goes.
  `RowsKeepIdentity` (`IdentityKept`: a row stays and keeps its owner and a name) is an action
  property and follows from the same invariant. It is what makes the authorisation in the
  first step of a handler sound, and is no property of a run: it says what `Upsert` does,
  which for a launch under somebody else's row is not what `api.go:248` says (section 8).
- `AccountsProofs`: `OnlyValidSessionsServed` by `AInv`. Sessions that were issued keep a
  user with an account (`Issued`); what is live or enabled now was seen by every request
  in progress that carries its cookie (`Carries`), and each step of login and `requireAuth`
  rests on what the steps before it found (`Reached`).
- `TranscriptsProofs`: `SessionsInOrder` and `PagesMissOnlyTies` by `TInv`. A session that
  has not given up has one statement under way, numbered above its lines (`OneAtATime`).
  A number a client has passed can still be taken by a statement under way only if a line
  of today has that number (`Filled`), and retention, which goes by days, spares that line
  because later days have higher numbers (`DaysRise`).
- `TokenBucketProofs`: `RateBounded` by `BInv`. `Credit` is the strengthening: what was
  allowed plus what is in the bucket is at most capacity plus rate times (`ts + drift`),
  and for an expired bucket the same holds with a full bucket at its time of expiry. That
  rests on `FullRefill`: within the TTL the bucket would have become full anyway.
- `PoolProofs`: `PoolBounded`, `NeverSharedInstance` and `NoInstanceLost` by `PInv`, which
  adds `Room` (warm slots plus refill iterations to come are at most twice the depth) and
  `AtHand` (who has an instance at which step).

**Only model-checked:** liveness (`DeadAreReaped`, `OrphansDie`, `Refills`, `WaitEnds`,
`ExecReturns`, `EveryStartServes`): fairness and ENABLED are out of the prover's reach.

## 6. Not modelled

Golden snapshots (`SnapshotEngine.Create`, `Delete`) are used by the benchmark only.
Heartbeats and session bindings in Redis are read by nothing in the control flow.
The audit table of Postgres is written and never read by the platform; the connection
pool and the migrations are set-up. Handlers that only read (`listVMs`, `listSandboxes`,
`listApprovals`, `me`, `listUsers`) change nothing. The development mode of `requireAuth`
(no token and no database) has no sessions to get wrong.
JSON encoding is left out. It is not the identity on output: `streamWriter` cuts chunks at
byte positions and sends `string(c)` (`guest_agent.go:309`, `protocol.go:103`), so bytes that
are no valid UTF-8, or a character split between two chunks, arrive as U+FFFD. The caller
may then hold other, and more, bytes than the script wrote; `OutputCapped` and
`ZeroMeansComplete` count the script's bytes, and the notice about cut output none.
Regular expressions of `Classify`, configuration, logging, firewall,
seccomp, scripts and the console have no state whose order matters here.

## 7. Findings with a run

- `ClaimFirstWriter`: two `Decide` calls that both read *pending* both succeed, and the
  last SET stands (`gate.go:141`, "atomically ... First writer wins").
- `ClaimRecorded`: a VMM dies, the reaper's `Terminate` deletes the entry and unlocks, the
  caller, who has no other request under way, resumes the sandbox, and the reaper goes on by
  id: `Remove` (`orchestrator.go:409`) deletes the record of the sandbox that now runs. It has
  no record for the next `Reconcile` (`record.go:30`, "the durable description of a sandbox,
  persisted so the control plane can reconcile host state ... after a crash or restart").
  Its disk and chroot can go the same way (`orchestrator.go:404`, section 8).

## 8. Further disagreements met while modelling

Each was seen as a TLC counterexample to the formula given when it was added to the
module and checked on a small instance. They have no run of their own; the models
contain the behaviour, and the properties of section 4 say what holds nevertheless.

- A launch under an id that has a row is said to be recorded "(owned by the caller)"
  (`api.go:248`). `Upsert`'s ON CONFLICT keeps the owner (`sandboxes.go:41`), who may then
  stop and delete the new VM, while its launcher may not.
  `[][\A r \in Requests : req[r].pc = "upsert" /\ req[r].snap = NoSnap /\ req'[r] = Idle /\ row' # row => row'.owner = UserID(req[r].who)]_vars`
- Two launches in flight pass the admission check for the same free slot, and both are
  tracked (`orchestrator.go:262`; `README.md:236`, "Maximum simultaneously running
  sandboxes"). `MaxConcurrent > 0 => Cardinality(Tracked) <= MaxConcurrent`
- A browser that sent a second frame before it left keeps the reader blocked on the
  channel, so the disconnect is not noticed during the wait and the approved command runs
  (`proxy.go:174`; `proxy.go:157-159`, "never executed for a dead session").
  `[][\A s \in Sessions : session[s].pc = "wait" /\ session'[s].pc = "exec" => alive[s]]_vars`
- A hard kill keeps older snapshots, and resume does not look at the status: a sandbox
  that was stopped, resumed and then killed can be resumed to the state before
  (`api.go:287`, "no snapshot → not resumable"; `DEPLOY_WSL2.md:553`, "Resume fails "no
  snapshot to resume" — the sandbox was hard-killed").
- Overlapping requests on one sandbox: a resume during a second stop restores the older
  snapshot (`vm = "running" => base \in {NoSnap, taken}`); the status written last wins,
  so a row may say stopped while a VM runs (`Quiet /\ vm = "running" => row.status =
  "running"`), and an archived sandbox may have one (`Quiet /\ row.status = "archived" =>
  vm = "none"`, a resume during a delete).
- A resume writes back the name it read first, over a rename in between
  (`sandbox_api.go:168`).
- After the reaper, a shutdown or a crash the row still says running (`main.go:197`), and no
  start corrects it. `Quiet /\ row.status = "running" => vm = "running"`
- A stop or delete whose statement fails after the files were written or removed leaves a
  directory without a row or a row without a directory (`sandbox_api.go:93`, `:233`); `torn`
  names these snapshots. A crash while a snapshot is written leaves its directory too. So
  does a removal that fails, whose error is discarded: the row is deleted all the same
  (`sandbox_api.go:232`), and "On any failure the partial snapshot directory is removed"
  (`snapshot.go:122`) holds only if the removal succeeds (`snapshot.go:134`).
- An `Exec` whose guest is paused by a stop that then fails (`snapshot.go:137`) waits until
  its caller cancels: it has no read deadline (`vsockclient.go:134`), and the time-out of the
  script runs in the guest. `<>(host.pc = "returned")` under `FairSpec`
- Any role is stored as sent (`auth_api.go:144`); a viewer (`models.go:19`) may do whatever
  an operator may.
- A terminal that is open stays open after logout, expiry and the disabling of the account
  (`api.go:149`): only the request that opened it was authenticated. A logout whose `Revoke`
  fails clears the cookie and leaves the session (`auth_api.go:76`).
- Transcript lines of sessions that append at once share a number (`transcripts.go:13`,
  "assigning the next per-sandbox seq atomically"; `l.seq = m.seq => l = m`), and a client
  that pages misses one of them when the other came first. A statement that outlives its
  three seconds is numbered with, or behind, the next line of the session
  (`SessionOrder` without `late`).
- Replaced entry (`orchestrator.go:346`): two launches of one id pass the duplicate
  check, the second insert replaces the first entry.
  `[][\A id \in Ids : inst[id] # None /\ inst'[id] # None => inst'[id] = inst[id]]_vars`
- Resume against a termination in progress, by another handler or by the reaper of a waiting
  caller (`orchestrator.go:404`): artefacts are removed by id after the unlock, those of a
  successor too.
  `\A id \in Tracked : Quiet(id) /\ vmm[inst[id].pid].st \in Live => "state" \in host[id]`
- The reaper terminates by id what it probed by pid (`orchestrator.go:481`).
  `[][pc[Reaper] = "term" /\ pc'[Reaper] = "halt" => vmm[job'[Reaper].pid].st \notin {"run", "paused"}]_vars`
- An orphan is known by its pid alone (`orchestrator.go:461`), so a program that got the
  pid is killed. `[][\A q \in Pids : vmm[q].st = "foreign" => vmm'[q].st = "foreign"]_vars`
- A crash between boot and `Save` leaves a VMM no `Reconcile` finds (`orchestrator.go:350`).
- A failed `buildFirecrackerConfig` leaves the state directory (`orchestrator.go:274`), and a
  cgroup leaf that still holds the exiting VMM is never removed (`orchestrator.go:402`).
- The guest runs before it is placed in its leaf (`orchestrator.go:323`; the header says
  "never briefly uncapped"). `\A q \in Pids : vmm[q].st \in {"run", "paused"} => vmm[q].capped`
- A stop whose snapshot fails leaves the sandbox tracked and paused (`snapshot.go:171`).
  `\A id \in Tracked : Quiet(id) => vmm[inst[id].pid].st # "paused"`
- Pool: more than `Depth` warm slots after a `Release` during a refill (`pool.go:199`,
  `Len(warm) <= Depth`); an instance appended after `Close` drained (`pool.go:199`,
  `closer.pc = "returned" /\ refiller.pc = "stopped" => warm = <<>>`); a second `Close`
  panics although the comment calls it safe (`pool.go:134`, `~panicked`); `Acquire` hands
  out an instance that was reaped while warm (`pool.go:100`); after a failed restore the
  iteration is not repeated, and the pool may stay below its depth (`pool.go:176`:
  `Refills` without its clauses on `failures`).
- Gate: a decision after the record expired is written and audited although the session
  took the expiry for a rejection (`gate.go:178`); an approval can be missing from the
  pending set while its session waits (`gate.go:134`).
  `\A s \in Sessions : session[s].pc = "wait" /\ rec[session[s].approval] = "pending" => session[s].approval \in listed`
- `WaitDelay` may cut the output of a script that exits non-zero without any sign of it
  (`guest_agent.go:207`); `ZeroMeansComplete` holds because exit code 0 is not reported then.
- Out-of-order clock readings refill one interval twice (`redis.go:190`).
  `allowed <= Capacity + Refill * clock`

## 9. Plan

Done: the modules of section 2, in the order supervisor, terminal and gate, guest
execution, token bucket, pool, history, accounts, transcripts, approval contract; their
runs; proofs of all safety properties (section 5).

1. `Lifecycle`: an abstract specification of a sandbox (absent, starting, running, stopping)
   with one owner per instance, which `Supervisor` under `OnePerId` implements, with the
   refinement proved from `SoleInv`; the same for ownership in `Pool`, from `PInv`.
2. Composition of `Terminal` with `TokenBucket` and an abstract `Exec` taken from
   `GuestExec`, whose contract is `RunsOnce` and `ZeroMeansComplete`.
