----------------------------- MODULE HistoryProofs -----------------------------
(***************************************************************************)
(* What the REST handlers leave behind, for any number of requests that    *)
(* overlap, principals, names and snapshots.                               *)
(*                                                                         *)
(* The properties of rows and files need to know whose snapshot is whose:  *)
(* a snapshot between its capture and its record is on disk, is in no row  *)
(* and on no list of a delete, and belongs to one request (Owned).  The    *)
(* properties of calm histories need what the one request in progress has  *)
(* done so far (InStep).                                                   *)
(***************************************************************************)
EXTENDS History, SequenceTheorems, TLAPS

Pcs == {"idle", "launching", "upsert", "mark", "capture", "snapshot", "teardown", "record",
        "latest", "restore", "restoring", "list", "purge", "unlist"}
Handlers == [pc : Pcs, who : Principals, name : Names \cup {Unnamed},
             snap : Snaps \cup {NoSnap}, todo : Seq(Snaps)]
Rows == Row \cup {NoRow}

Typed ==
  /\ vm \in {"none", "running", "paused"} /\ base \in Snaps \cup {NoSnap}
  /\ row \in Rows
  /\ snaps \in Seq(Snaps) /\ files \subseteq Snaps /\ taken \in 0 .. MaxSnaps
  /\ req \in [Requests -> Handlers]
  /\ torn \subseteq Snaps /\ calm \in BOOLEAN

\* Request r has taken a snapshot and not recorded it.
Holds(r) == req[r].pc \in {"snapshot", "teardown", "record"}

\* Snapshots are numbered as they are taken, and a row names each at most once.
Past ==
  /\ Range(snaps) \cup files \cup torn \subseteq 1 .. taken
  /\ \A r \in Requests : Range(req[r].todo) \subseteq 1 .. taken
  /\ \A i, j \in 1 .. Len(snaps) : snaps[i] = snaps[j] => i = j

Owned ==
  \A r \in Requests :
    /\ Holds(r) =>
         /\ req[r].snap \in files /\ req[r].snap \notin Range(snaps)
         /\ \A q \in Requests : /\ req[r].snap \notin Range(req[q].todo)
                                /\ Holds(q) /\ q # r => req[q].snap # req[r].snap
    /\ req[r].pc = "capture" => req[r].snap = NoSnap
    /\ req[r].pc = "unlist" => req[r].todo # <<>>

\* Where the one request of a calm history has got to.
InStep(r) ==
  /\ req[r].pc \in {"launching", "latest", "restore", "restoring"} =>
       vm = "none" /\ row.status # "running"
  /\ req[r].pc \in {"mark", "list", "purge", "unlist", "record"} => vm = "none"
  /\ req[r].pc = "upsert" => vm = "running"
  /\ req[r].pc = "capture" => vm = "running"
  /\ req[r].pc \in {"capture", "snapshot", "teardown", "record"} => row.status = "running"
  /\ Holds(r) => vm # "running" /\ req[r].snap = taken
  /\ req[r].pc \in {"purge", "unlist"} => snaps = req[r].todo
  /\ req[r].pc = "unlist" => Last(req[r].todo) \notin files
  /\ req[r].pc \in {"restore", "restoring"} => req[r].snap = taken

Calm ==
  calm =>
    /\ torn = {}
    /\ \A r, q \in Requests : req[r] # Idle /\ req[q] # Idle => r = q
    /\ \A r \in Requests : InStep(r) /\ (req[r].pc = "idle" => req[r] = Idle)
    /\ row.status = "archived" => snaps = <<>>
    /\ \/ snaps = <<>> \/ Last(snaps) = taken
       \/ \E r \in Requests : Holds(r) \/ req[r].pc \in {"purge", "unlist"}
    /\ vm = "running" => base \in {NoSnap, taken}
    /\ Quiet => vm # "paused" /\ (vm = "running") = (row.status = "running")

\* FilesMatchRows, saying which requests account for what.
Leftover ==
  \A x \in files \ Range(snaps) :
    x \in torn \/ \E r \in Requests : Holds(r) /\ req[r].snap = x

Dangling ==
  \A x \in Range(snaps) \ files :
    x \in torn \/ \E r \in Requests : req[r].pc = "unlist" /\ Last(req[r].todo) = x

FilesInv == Past /\ Owned /\ Leftover /\ Dangling

HInv == Typed /\ ActsForOwner /\ FilesInv /\ Calm

-----------------------------------------------------------------------------
(* Sequences of snapshots.                                                  *)

LEMMA RangeIs ==
  ASSUME NEW S, NEW s \in Seq(S)
  PROVE  Range(s) = {s[i] : i \in 1 .. Len(s)} /\ Range(s) \subseteq S
BY DEF Range

LEMMA EmptyRange == Range(<<>>) = {}
BY DEF Range

LEMMA LastIs ==
  ASSUME NEW S, NEW s \in Seq(S), s # <<>>
  PROVE  Len(s) \in 1 .. Len(s) /\ Last(s) = s[Len(s)] /\ Last(s) \in Range(s) /\ Last(s) \in S
<1>1. Len(s) \in 1 .. Len(s) OBVIOUS
<1>2. QED BY <1>1, RangeIs DEF Last

LEMMA FrontIs ==
  ASSUME NEW S, NEW s \in Seq(S), s # <<>>
  PROVE  /\ Front(s) \in Seq(S) /\ Len(Front(s)) = Len(s) - 1
         /\ \A i \in 1 .. Len(s) - 1 : Front(s)[i] = s[i]
         /\ Range(Front(s)) \subseteq Range(s)
<1>1. Len(s) \in Nat /\ Len(s) > 0 OBVIOUS
<1>2. \A i \in 1 .. Len(s) - 1 : i \in 1 .. Len(s) /\ s[i] \in S BY <1>1
<1>3. /\ Front(s) \in Seq(S) /\ Len(Front(s)) = Len(s) - 1
      /\ \A i \in 1 .. Len(s) - 1 : Front(s)[i] = s[i]
  <2> DEFINE n == Len(s) - 1
             t == SubSeq(s, 1, n)
  <2>1. n \in Nat /\ 1 .. n \subseteq 1 .. Len(s) BY <1>1
  <2>2. t \in Seq(S) /\ Len(t) = n /\ \A i \in 1 .. n : t[i] = s[i]
    <3> HIDE DEF n
    <3>1. QED BY <1>1, <1>2, <2>1
  <2>3. Front(s) = t BY DEF Front
  <2>4. QED BY <2>2, <2>3
<1>4. QED BY <1>2, <1>3, RangeIs

LEMMA AppendIs ==
  ASSUME NEW S, NEW s \in Seq(S), NEW e \in S
  PROVE  /\ Append(s, e) \in Seq(S) /\ Len(Append(s, e)) = Len(s) + 1
         /\ \A i \in 1 .. Len(s) : Append(s, e)[i] = s[i]
         /\ Append(s, e)[Len(s) + 1] = e
         /\ Range(Append(s, e)) = Range(s) \cup {e}
         /\ Append(s, e) # <<>> /\ Last(Append(s, e)) = e
<1> DEFINE t == Append(s, e)
<1>1. /\ t \in Seq(S) /\ Len(t) = Len(s) + 1 /\ t[Len(s) + 1] = e
      /\ \A i \in 1 .. Len(s) : t[i] = s[i]
  OBVIOUS
<1>2. Len(s) \in Nat OBVIOUS
<1> HIDE DEF t
<1>3. \A i \in 1 .. Len(t) : i \in 1 .. Len(s) \/ i = Len(s) + 1 BY <1>1, <1>2
<1>4. \A i \in 1 .. Len(s) : i \in 1 .. Len(t) BY <1>1, <1>2
<1>5. Len(s) + 1 \in 1 .. Len(t) BY <1>1, <1>2
<1>6. Range(t) = Range(s) \cup {e} BY <1>1, <1>3, <1>4, <1>5, RangeIs
<1>7. t # <<>> /\ Last(t) = e BY <1>1, <1>2 DEF Last
<1>8. QED BY <1>1, <1>6, <1>7 DEF t

LEMMA RemoveAtIs ==
  ASSUME NEW S, NEW s \in Seq(S), NEW i \in 1 .. Len(s)
  PROVE  /\ RemoveAt(s, i) \in Seq(S) /\ Len(RemoveAt(s, i)) = Len(s) - 1
         /\ \A j \in 1 .. Len(s) - 1 : RemoveAt(s, i)[j] = s[IF j < i THEN j ELSE j + 1]
<1> DEFINE a == SubSeq(s, 1, i - 1)
           b == SubSeq(s, i + 1, Len(s))
<1>1. Len(s) \in Nat /\ i \in Nat /\ i >= 1 /\ i <= Len(s) OBVIOUS
<1>2. /\ a \in Seq(S) /\ Len(a) = i - 1
      /\ \A j \in 1 .. i - 1 : a[j] = s[j]
  <2>1. \A j \in 1 .. i - 1 : j \in 1 .. Len(s) /\ s[j] \in S BY <1>1
  <2>2. QED BY <1>1, <2>1, SubSeqProperties
<1>3. /\ b \in Seq(S) /\ Len(b) = Len(s) - i
      /\ \A j \in 1 .. Len(s) - i : b[j] = s[j + i]
  <2>1. \A j \in i + 1 .. Len(s) : j \in 1 .. Len(s) /\ s[j] \in S BY <1>1
  <2>2. QED BY <1>1, <2>1, SubSeqProperties
<1> HIDE DEF a, b
<1>4. /\ a \o b \in Seq(S) /\ Len(a \o b) = Len(s) - 1
      /\ \A j \in 1 .. Len(s) - 1 : (a \o b)[j] = IF j < i THEN a[j] ELSE b[j - (i - 1)]
  <2>1. /\ a \o b \in Seq(S) /\ Len(a \o b) = Len(a) + Len(b)
        /\ \A j \in 1 .. Len(a) + Len(b) :
             (a \o b)[j] = IF j <= Len(a) THEN a[j] ELSE b[j - Len(a)]
    BY <1>2, <1>3, ConcatProperties
  <2>2. Len(a) + Len(b) = Len(s) - 1 /\ \A j \in Nat : j <= i - 1 <=> j < i BY <1>1, <1>2, <1>3
  <2>3. QED BY <1>2, <2>1, <2>2
<1>5. RemoveAt(s, i) = a \o b BY DEF RemoveAt, a, b
<1>6. ASSUME NEW j \in 1 .. Len(s) - 1 PROVE (a \o b)[j] = s[IF j < i THEN j ELSE j + 1]
  <2>1. CASE j < i
    <3>1. j \in 1 .. i - 1 BY <1>1, <2>1
    <3>2. QED BY <1>2, <1>4, <2>1, <3>1
  <2>2. CASE ~(j < i)
    <3>1. j - (i - 1) \in 1 .. Len(s) - i /\ (j - (i - 1)) + i = j + 1 BY <1>1, <2>2
    <3>2. QED BY <1>3, <1>4, <2>2, <3>1
  <2>3. QED BY <2>1, <2>2
<1>7. QED BY <1>4, <1>5, <1>6

\* Rows that name a snapshot at most once keep doing so, and lose the one removed.
LEMMA RemoveAtRange ==
  ASSUME NEW S, NEW s \in Seq(S), NEW i \in 1 .. Len(s),
         \A j, k \in 1 .. Len(s) : s[j] = s[k] => j = k
  PROVE  /\ Range(RemoveAt(s, i)) = Range(s) \ {s[i]}
         /\ \A j, k \in 1 .. Len(RemoveAt(s, i)) :
              RemoveAt(s, i)[j] = RemoveAt(s, i)[k] => j = k
<1> DEFINE t == RemoveAt(s, i)
<1>1. /\ t \in Seq(S) /\ Len(t) = Len(s) - 1
      /\ \A j \in 1 .. Len(s) - 1 : t[j] = s[IF j < i THEN j ELSE j + 1]
  BY RemoveAtIs
<1>2. Len(s) \in Nat /\ i \in Nat /\ i >= 1 /\ i <= Len(s) OBVIOUS
<1> HIDE DEF t
<1> DEFINE From(j) == IF j < i THEN j ELSE j + 1
<1>3. \A j \in 1 .. Len(t) : From(j) \in 1 .. Len(s) /\ From(j) # i BY <1>1, <1>2
<1>4. \A j, k \in 1 .. Len(t) : From(j) = From(k) => j = k BY <1>1, <1>2
<1>5. ASSUME NEW k \in 1 .. Len(s), k # i PROVE \E j \in 1 .. Len(t) : From(j) = k
  <2>1. CASE k < i
    <3>1. k \in 1 .. Len(t) /\ From(k) = k BY <1>1, <1>2, <2>1
    <3>2. QED BY <3>1
  <2>2. CASE k > i
    <3>1. k - 1 \in 1 .. Len(t) /\ From(k - 1) = k BY <1>1, <1>2, <2>2
    <3>2. QED BY <3>1
  <2>3. QED BY <1>2, <1>5, <2>1, <2>2
<1>6. \A j \in 1 .. Len(t) : t[j] = s[From(j)] BY <1>1
<1> HIDE DEF From
<1>7. Range(t) = {t[j] : j \in 1 .. Len(t)} /\ Range(s) = {s[j] : j \in 1 .. Len(s)}
  BY <1>1, RangeIs
<1>8. Range(t) = Range(s) \ {s[i]}
  <2>1. \A x \in Range(t) : x \in Range(s) /\ x # s[i] BY <1>3, <1>6, <1>7
  <2>2. ASSUME NEW x \in Range(s), x # s[i] PROVE x \in Range(t)
    <3>1. PICK k \in 1 .. Len(s) : x = s[k] BY <1>7
    <3>2. PICK j \in 1 .. Len(t) : From(j) = k BY <1>5, <2>2, <3>1
    <3>3. QED BY <1>6, <1>7, <3>1, <3>2
  <2>3. QED BY <2>1, <2>2
<1>9. \A j, k \in 1 .. Len(t) : t[j] = t[k] => j = k BY <1>3, <1>4, <1>6
<1>10. QED BY <1>8, <1>9 DEF t

LEMMA RemoveLast ==
  ASSUME NEW S, NEW s \in Seq(S), s # <<>>
  PROVE  RemoveAt(s, Len(s)) = Front(s)
<1>1. Len(s) \in 1 .. Len(s) /\ Len(s) \in Nat OBVIOUS
<1> DEFINE t == RemoveAt(s, Len(s))
           u == Front(s)
<1>2. /\ t \in Seq(S) /\ Len(t) = Len(s) - 1
      /\ \A j \in 1 .. Len(s) - 1 : t[j] = s[IF j < Len(s) THEN j ELSE j + 1]
  BY <1>1, RemoveAtIs
<1>3. /\ u \in Seq(S) /\ Len(u) = Len(s) - 1
      /\ \A j \in 1 .. Len(s) - 1 : u[j] = s[j]
  BY FrontIs
<1> HIDE DEF t, u
<1>4. \A j \in 1 .. Len(t) : t[j] = u[j] BY <1>1, <1>2, <1>3
<1>5. t = u BY <1>2, <1>3, <1>4, SeqEqual
<1>6. QED BY <1>5 DEF t, u

-----------------------------------------------------------------------------
(* Types.                                                                   *)

LEMMA TypedIsTypeOK == Typed <=> TypeOK
BY Zenon DEF Typed, TypeOK, Rows, Handlers, Pcs

LEMMA HandlerFields ==
  ASSUME NEW q \in Handlers
  PROVE  /\ q.pc \in Pcs /\ q.who \in Principals /\ q.name \in Names \cup {Unnamed}
         /\ q.snap \in Snaps \cup {NoSnap} /\ q.todo \in Seq(Snaps)
BY DEF Handlers

LEMMA IdleIsHandler == Idle \in Handlers
<1>1. Service \in Principals /\ <<>> \in Seq(Snaps) BY DEF Principals
<1>2. QED BY <1>1 DEF Idle, Handlers, Pcs, NoSnap

LEMMA EnterTypes ==
  ASSUME NEW p \in Principals, NEW pc \in Pcs, NEW n \in Names \cup {Unnamed}
  PROVE  /\ [Idle EXCEPT !.pc = pc, !.who = p] \in Handlers
         /\ [Idle EXCEPT !.pc = pc, !.who = p, !.name = n] \in Handlers
<1>1. <<>> \in Seq(Snaps) OBVIOUS
<1>2. QED BY <1>1 DEF Idle, Handlers, NoSnap

\* What a statement writes is a row again; a row stays, with its owner, and keeps a name.
RowKept ==
  /\ row' \in Rows
  /\ row # NoRow => /\ row' # NoRow
                    /\ row'.owner = row.owner
                    /\ row.name # Unnamed => row'.name # Unnamed

LEMMA RowFields ==
  ASSUME NEW w \in Rows
  PROVE  /\ w.owner \in Owners /\ w.name \in Names \cup {Unnamed}
         /\ w # NoRow => w \in Row
         /\ w = NoRow <=> w.status = "absent"
BY DEF Rows, Row, NoRow, Owners

LEMMA StatusKeepsRow ==
  ASSUME Typed, NEW x \in {"running", "stopped", "archived"}, SetStatus(x)
  PROVE  RowKept /\ row'.status = IF row = NoRow THEN "absent" ELSE x
<1>1. row \in Rows BY DEF Typed
<1>2. CASE row = NoRow BY <1>1, <1>2 DEF SetStatus, RowKept, NoRow
<1>3. CASE row # NoRow
  <2>1. row \in Row /\ row' = [row EXCEPT !.status = x] BY <1>1, <1>3, RowFields DEF SetStatus
  <2>2. row' \in Row /\ row'.owner = row.owner /\ row'.name = row.name /\ row'.status = x
    BY <2>1 DEF Row
  <2>3. row' # NoRow BY <2>2 DEF NoRow
  <2>4. QED BY <1>3, <2>2, <2>3 DEF RowKept, Rows
<1>4. QED BY <1>2, <1>3

LEMMA UpsertKeepsRow ==
  ASSUME Typed, NEW r \in Requests, Upsert(r)
  PROVE  RowKept /\ row'.status = "running"
<1>1. row \in Rows /\ req[r] \in Handlers BY DEF Typed
<1>2. UserID(req[r].who) \in Owners /\ req[r].name \in Names \cup {Unnamed}
  BY <1>1, HandlerFields DEF UserID, Owners, Principals
<1>3. CASE row = NoRow
  <2>1. row' = [status |-> "running", owner |-> UserID(req[r].who), name |-> req[r].name]
    BY <1>3 DEF Upsert
  <2>2. row' \in Row /\ row'.status = "running" BY <1>2, <2>1 DEF Row
  <2>3. QED BY <1>3, <2>2 DEF RowKept, Rows
<1>4. CASE row # NoRow
  <2> DEFINE n == IF req[r].name = Unnamed THEN row.name ELSE req[r].name
  <2>1. row \in Row /\ row' = [row EXCEPT !.status = "running", !.name = n]
    BY <1>1, <1>4, RowFields DEF Upsert
  <2>2. n \in Names \cup {Unnamed} /\ (row.name # Unnamed => n # Unnamed)
    BY <1>1, <1>2, RowFields
  <2> HIDE DEF n
  <2>3. row' \in Row /\ row'.owner = row.owner /\ row'.name = n /\ row'.status = "running"
    BY <2>1, <2>2 DEF Row
  <2>4. row' # NoRow BY <2>3 DEF NoRow
  <2>5. QED BY <1>4, <2>2, <2>3, <2>4 DEF RowKept, Rows
<1>5. QED BY <1>3, <1>4

LEMMA RenameKeepsRow ==
  ASSUME Typed, Rename
  PROVE  RowKept /\ row'.status = row.status
<1>1. PICK n \in Names : row' = [row EXCEPT !.name = n] /\ row # NoRow
  BY DEF Rename, Authorized
<1>2. row \in Row BY <1>1, RowFields DEF Typed
<1>3. row' \in Row /\ row'.owner = row.owner /\ row'.name = n /\ row'.status = row.status
  BY <1>1, <1>2 DEF Row
<1>4. row' # NoRow BY <1>3 DEF NoRow, Row
<1>5. n # Unnamed BY HistoryAssumption
<1>6. QED BY <1>1, <1>3, <1>4, <1>5 DEF RowKept, Rows

LEMMA SameRowKept ==
  ASSUME Typed, UNCHANGED row
  PROVE  RowKept
BY DEF Typed, RowKept

LEMMA NextKeepsRow ==
  ASSUME Typed, Next
  PROVE  RowKept
<1>1. ASSUME NEW r \in Requests, RecordRunning(r) PROVE RowKept
  BY <1>1, UpsertKeepsRow, SameRowKept DEF RecordRunning
<1>2. ASSUME NEW r \in Requests, RecordStopped(r) \/ DeleteArchives(r) PROVE RowKept
  BY <1>2, StatusKeepsRow, SameRowKept DEF RecordStopped, DeleteArchives, MarkStopped, Archive
<1>3. ASSUME NEW r \in Requests,
             \/ LaunchBegins(r) \/ LaunchBoots(r) \/ LaunchFails(r) \/ TerminateKills(r)
             \/ stopSandbox(r) \/ resumeSandbox(r) \/ DeleteKills(r) \/ DeleteLists(r)
             \/ DeleteRemoves(r) \/ DeleteUnlists(r)
      PROVE  RowKept
  <2>1. UNCHANGED row
    BY <1>3
    DEF LaunchBegins, LaunchBoots, LaunchFails, TerminateKills, stopSandbox, StopBegins, StopPauses,
        StopCaptures, StopFails, StopTearsDown, RecordSnapshot, resumeSandbox, ResumeBegins,
        ResumeReads, ResumeCopies, ResumeBoots, ResumeFails, DeleteKills, DeleteLists,
        DeleteRemoves, DeleteUnlists
  <2>2. QED BY <2>1, SameRowKept
<1>4. CASE Rename BY <1>4, RenameKeepsRow
<1>5. CASE Dies \/ Crash BY <1>5, SameRowKept DEF Dies, Crash
<1>6. QED BY <1>1, <1>2, <1>3, <1>4, <1>5 DEF Next, launchVM, terminateVM, deleteSandbox

LEMMA TypeKept ==
  ASSUME Typed, Owned, Next
  PROVE  Typed'
<1>0. row' \in Rows BY NextKeepsRow DEF RowKept
<1>1. ASSUME NEW r \in Requests, Respond(r) PROVE req' \in [Requests -> Handlers]
  BY <1>1, IdleIsHandler DEF Typed, Respond
<1>2. ASSUME NEW r \in Requests, NEW pc \in Pcs, Goto(r, pc)
      PROVE  req' \in [Requests -> Handlers]
  <2>1. [req[r] EXCEPT !.pc = pc] \in Handlers BY DEF Typed, Handlers
  <2>2. QED BY <1>2, <2>1 DEF Typed, Goto
<1>3. ASSUME NEW r \in Requests, NEW p \in Principals, NEW pc \in Pcs, Enter(r, p, pc)
      PROVE  req' \in [Requests -> Handlers] /\ calm' \in BOOLEAN
  <2>1. [Idle EXCEPT !.pc = pc, !.who = p] \in Handlers BY EnterTypes
  <2>2. QED BY <1>3, <2>1 DEF Typed, Enter
<1>4. Service \in Principals BY DEF Principals
<1>5. ASSUME NEW r \in Requests, launchVM(r) \/ terminateVM(r) PROVE Typed'
  <2>1. CASE LaunchBegins(r) \/ TerminateKills(r)
    BY <1>0, <1>3, <1>4, <2>1 DEF LaunchBegins, TerminateKills, Typed, Pcs
  <2>2. CASE LaunchBoots(r) BY <1>2, <2>2 DEF LaunchBoots, Typed, Pcs
  <2>3. CASE LaunchFails(r) BY <1>1, <2>3 DEF LaunchFails, Typed
  <2>4. CASE RecordRunning(r) \/ RecordStopped(r)
    BY <1>0, <1>1, <2>4 DEF RecordRunning, RecordStopped, Typed
  <2>5. QED BY <1>5, <2>1, <2>2, <2>3, <2>4 DEF launchVM, terminateVM
<1>6. ASSUME NEW r \in Requests, stopSandbox(r) PROVE Typed'
  <2>1. CASE StopBegins(r) BY <1>3, <2>1 DEF StopBegins, Typed, Pcs
  <2>2. CASE StopPauses(r)
    <3>1. taken + 1 \in Snaps /\ taken' \in 0 .. MaxSnaps
      BY <2>2, HistoryAssumption DEF Typed, StopPauses, Snaps
    <3>2. [req[r] EXCEPT !.pc = "snapshot", !.snap = taken + 1] \in Handlers
      <4>1. req[r] \in Handlers BY DEF Typed
      <4>2. QED BY <3>1, <4>1 DEF Pcs, Handlers
    <3>3. req' = [req EXCEPT ![r] = [req[r] EXCEPT !.pc = "snapshot", !.snap = taken + 1]]
      BY <2>2 DEF StopPauses, Typed
    <3>4. req' \in [Requests -> Handlers] BY <3>2, <3>3 DEF Typed
    <3>5. QED BY <2>2, <3>1, <3>4 DEF StopPauses, Typed
  <2>3. CASE StopCaptures(r) \/ StopTearsDown(r)
    BY <1>2, <2>3 DEF StopCaptures, StopTearsDown, Typed, Pcs
  <2>4. CASE StopFails(r)
    <3>1. req[r].pc = "snapshot" => req[r].snap \in Snaps
      BY DEF Owned, Holds, Typed
    <3>2. taken < MaxSnaps => taken + 1 \in Snaps /\ taken + 1 \in 0 .. MaxSnaps
      BY HistoryAssumption DEF Typed, Snaps
    <3>3. taken' \in 0 .. MaxSnaps /\ files' \subseteq Snaps /\ torn' \subseteq Snaps
      BY <2>4, <3>1, <3>2 DEF StopFails, Typed
    <3>4. QED BY <1>1, <2>4, <3>3 DEF StopFails, Typed
  <2>5. CASE RecordSnapshot(r)
    <3>1. req[r].snap \in Snaps /\ req' \in [Requests -> Handlers]
      BY <1>2, <2>5 DEF RecordSnapshot, Pcs, Owned, Holds, Typed
    <3>2. snaps' \in Seq(Snaps) BY <2>5, <3>1, AppendIs DEF RecordSnapshot, Typed
    <3>3. torn' \subseteq Snaps /\ calm' \in BOOLEAN BY <2>5, <3>1 DEF RecordSnapshot, Typed
    <3>4. QED BY <2>5, <3>1, <3>2, <3>3 DEF RecordSnapshot, Typed
  <2>6. QED BY <1>6, <2>1, <2>2, <2>3, <2>4, <2>5 DEF stopSandbox
<1>7. ASSUME NEW r \in Requests, resumeSandbox(r) PROVE Typed'
  <2>1. CASE ResumeBegins(r)
    <3>1. PICK p \in Principals :
            req' = [req EXCEPT ![r] = [Idle EXCEPT !.pc = "latest", !.who = p, !.name = row.name]]
      BY <2>1 DEF ResumeBegins
    <3>2. row.name \in Names \cup {Unnamed} BY RowFields DEF Typed
    <3>3. [Idle EXCEPT !.pc = "latest", !.who = p, !.name = row.name] \in Handlers
      BY <3>2, EnterTypes DEF Pcs
    <3>4. req' \in [Requests -> Handlers] BY <3>1, <3>3 DEF Typed
    <3>5. calm' \in BOOLEAN BY <2>1 DEF ResumeBegins, Typed
    <3>6. QED BY <2>1, <3>4, <3>5 DEF ResumeBegins, Typed
  <2>2. CASE ResumeReads(r)
    <3>1. Latest \in Snaps BY <2>2, LastIs DEF ResumeReads, Latest, Typed
    <3>2. [req[r] EXCEPT !.pc = "restore", !.snap = Latest] \in Handlers
      <4>1. req[r] \in Handlers BY DEF Typed
      <4>2. QED BY <3>1, <4>1 DEF Pcs, Handlers
    <3>3. req' = [req EXCEPT ![r] = [req[r] EXCEPT !.pc = "restore", !.snap = Latest]]
      BY <2>2 DEF ResumeReads, Typed
    <3>4. req' \in [Requests -> Handlers] BY <3>2, <3>3 DEF Typed
    <3>5. QED BY <2>2, <3>4 DEF ResumeReads, Typed
  <2>3. CASE ResumeCopies(r) BY <1>2, <2>3 DEF ResumeCopies, Typed, Pcs
  <2>4. CASE ResumeBoots(r)
    <3>1. req[r].snap \in Snaps BY <2>4 DEF ResumeBoots, Typed
    <3>2. req' \in [Requests -> Handlers] BY <1>2, <2>4 DEF ResumeBoots, Pcs
    <3>3. QED BY <2>4, <3>1, <3>2 DEF ResumeBoots, Typed
  <2>5. CASE ResumeFails(r) BY <1>1, <2>5 DEF ResumeFails, Typed
  <2>6. QED BY <1>7, <2>1, <2>2, <2>3, <2>4, <2>5 DEF resumeSandbox
<1>8. ASSUME NEW r \in Requests, deleteSandbox(r) PROVE Typed'
  <2>1. CASE DeleteKills(r) BY <1>3, <2>1 DEF DeleteKills, Typed, Pcs
  <2>2. CASE DeleteLists(r)
    <3>1. [req[r] EXCEPT !.pc = "purge", !.todo = snaps] \in Handlers
      BY DEF Typed, Pcs, Handlers
    <3>2. req' = [req EXCEPT ![r] = [req[r] EXCEPT !.pc = "purge", !.todo = snaps]] =>
            req' \in [Requests -> Handlers]
      BY <3>1 DEF Typed
    <3>3. req' \in [Requests -> Handlers] BY <1>2, <2>2, <3>2 DEF DeleteLists, Pcs, Typed
    <3>4. calm' \in BOOLEAN BY <2>2 DEF DeleteLists, Typed
    <3>5. QED BY <2>2, <3>3, <3>4 DEF DeleteLists, Typed
  <2>3. CASE DeleteRemoves(r) BY <1>2, <2>3 DEF DeleteRemoves, Typed, Pcs
  <2>4. CASE DeleteUnlists(r)
    <3>1. req[r] \in Handlers /\ req[r].todo \in Seq(Snaps) /\ req[r].todo # <<>>
      BY <2>4, HandlerFields DEF DeleteUnlists, Owned, Typed
    <3>2. Last(req[r].todo) \in Snaps /\ Front(req[r].todo) \in Seq(Snaps)
      BY <3>1, LastIs, FrontIs
    <3>3. snaps' \in Seq(Snaps)
      <4>1. CASE Delete(Last(req[r].todo))
        <5>1. DOMAIN snaps = 1 .. Len(snaps) BY LenProperties DEF Typed
        <5>2. QED BY <4>1, <5>1, RemoveAtIs DEF Delete, Typed
      <4>2. QED BY <2>4, <4>1 DEF DeleteUnlists, Typed
    <3>4. torn' \subseteq Snaps /\ calm' \in BOOLEAN BY <2>4, <3>2 DEF DeleteUnlists, Typed
    <3>5. req' = [req EXCEPT ![r] = [req[r] EXCEPT !.pc = "purge", !.todo = Front(req[r].todo)]]
      BY <2>4 DEF DeleteUnlists, Typed
    <3>6. [req[r] EXCEPT !.pc = "purge", !.todo = Front(req[r].todo)] \in Handlers
      BY <3>1, <3>2 DEF Handlers, Pcs
    <3>7. req' \in [Requests -> Handlers] BY <3>5, <3>6 DEF Typed
    <3>8. QED BY <2>4, <3>3, <3>4, <3>7 DEF DeleteUnlists, Typed
  <2>5. CASE DeleteArchives(r) BY <1>0, <1>1, <2>5 DEF DeleteArchives, Typed
  <2>6. QED BY <1>8, <2>1, <2>2, <2>3, <2>4, <2>5 DEF deleteSandbox
<1>9. CASE Rename BY <1>0, <1>9 DEF Rename, Typed
<1>10. CASE Dies BY <1>10 DEF Dies, Typed
<1>11. CASE Crash
  <2>1. \A r \in Requests : InHand(r) \subseteq Snaps
    <3> SUFFICES ASSUME NEW r \in Requests PROVE InHand(r) \subseteq Snaps OBVIOUS
    <3>1. CASE Holds(r) BY <3>1 DEF Holds, InHand, Owned, Typed
    <3>2. CASE req[r].pc = "unlist"
      <4>1. Range(snaps) \subseteq Snaps BY RangeIs DEF Typed
      <4>2. QED BY <3>2, <4>1 DEF InHand
    <3>3. CASE ~Holds(r) /\ req[r].pc # "unlist" BY <3>3 DEF Holds, InHand
    <3>4. QED BY <3>1, <3>2, <3>3
  <2>2. torn' \subseteq Snaps BY <1>11, <2>1 DEF Crash, Typed
  <2>3. QED BY <1>11, <2>2, IdleIsHandler DEF Crash, Typed
<1>12. QED BY <1>5, <1>6, <1>7, <1>8, <1>9, <1>10, <1>11 DEF Next

-----------------------------------------------------------------------------
(* Whom a handler acts for.                                                 *)

Acting == {"capture", "snapshot", "teardown", "record", "latest", "restore", "restoring",
           "list", "purge", "unlist"}

LEMMA GotoIs ==
  ASSUME Typed, NEW r \in Requests, NEW pc, Goto(r, pc)
  PROVE  /\ req'[r].pc = pc /\ req'[r].who = req[r].who /\ req'[r].snap = req[r].snap
         /\ req'[r].todo = req[r].todo /\ req'[r].name = req[r].name
         /\ \A q \in Requests : q # r => req'[q] = req[q]
<1>1. req[r] \in Handlers BY DEF Typed
<1>2. req'[r] = [req[r] EXCEPT !.pc = pc] BY DEF Goto, Typed
<1>3. \A q \in Requests : q # r => req'[q] = req[q] BY DEF Goto, Typed
<1>4. QED BY <1>1, <1>2, <1>3 DEF Handlers

LEMMA RespondIs ==
  ASSUME Typed, NEW r \in Requests, Respond(r)
  PROVE  req'[r] = Idle /\ \A q \in Requests : q # r => req'[q] = req[q]
BY DEF Respond, Typed

LEMMA EnterIs ==
  ASSUME Typed, NEW r \in Requests, NEW p, NEW pc, Enter(r, p, pc)
  PROVE  /\ req'[r].pc = pc /\ req'[r].who = p /\ req'[r].snap = NoSnap /\ req'[r].todo = <<>>
         /\ \A q \in Requests : q # r => req'[q] = req[q]
<1>1. req'[r] = [Idle EXCEPT !.pc = pc, !.who = p] BY DEF Enter, Typed
<1>2. \A q \in Requests : q # r => req'[q] = req[q] BY DEF Enter, Typed
<1>3. QED BY <1>1, <1>2 DEF Idle

\* Every request that acts on the sandbox has just been let in, or acted before.
LEMMA OwnerKept ==
  ASSUME Typed, ActsForOwner, Next
  PROVE  ActsForOwner'
<1> DEFINE Lawful == \A q \in Requests : req'[q].pc \in Acting => Authorized(req'[q].who)
<1>1. \A q \in Requests : req[q].pc \in Acting => Authorized(req[q].who)
  BY DEF ActsForOwner, Acting
<1>2. ASSUME NEW r \in Requests, Respond(r) PROVE Lawful
  BY <1>1, <1>2, RespondIs DEF Idle, Acting
<1>3. ASSUME NEW r \in Requests, NEW pc, Goto(r, pc), pc \notin Acting \/ req[r].pc \in Acting
      PROVE  Lawful
  BY <1>1, <1>3, GotoIs
<1>4. ASSUME NEW r \in Requests, NEW p, NEW pc, Enter(r, p, pc), pc \notin Acting \/ Authorized(p)
      PROVE  Lawful
  BY <1>1, <1>4, EnterIs
<1>5. ASSUME NEW r \in Requests, launchVM(r) \/ terminateVM(r) PROVE Lawful
  <2>1. CASE LaunchBegins(r) \/ TerminateKills(r)
    BY <1>4, <2>1 DEF LaunchBegins, TerminateKills, Acting
  <2>2. CASE LaunchBoots(r) BY <1>3, <2>2 DEF LaunchBoots, Acting
  <2>3. CASE LaunchFails(r) \/ RecordRunning(r) \/ RecordStopped(r)
    BY <1>2, <2>3 DEF LaunchFails, RecordRunning, RecordStopped
  <2>4. QED BY <1>5, <2>1, <2>2, <2>3 DEF launchVM, terminateVM
<1>6. ASSUME NEW r \in Requests, stopSandbox(r) PROVE Lawful
  <2>1. CASE StopBegins(r) BY <1>4, <2>1 DEF StopBegins
  <2>2. CASE StopPauses(r)
    <3>1. req' = [req EXCEPT ![r] = [req[r] EXCEPT !.pc = "snapshot", !.snap = taken + 1]]
      BY <2>2 DEF StopPauses, Typed
    <3>2. req[r] \in Handlers /\ req[r].pc \in Acting BY <2>2 DEF StopPauses, Typed, Acting
    <3>3. req'[r].who = req[r].who /\ \A q \in Requests : q # r => req'[q] = req[q]
      BY <3>1, <3>2 DEF Typed, Handlers
    <3>4. QED BY <1>1, <3>2, <3>3
  <2>3. CASE StopCaptures(r) BY <1>3, <2>3 DEF StopCaptures, Acting
  <2>4. CASE StopTearsDown(r) BY <1>3, <2>4 DEF StopTearsDown, Acting
  <2>5. CASE StopFails(r) BY <1>2, <2>5 DEF StopFails
  <2>6. CASE RecordSnapshot(r) BY <1>3, <2>6 DEF RecordSnapshot, Acting
  <2>7. QED BY <1>6, <2>1, <2>2, <2>3, <2>4, <2>5, <2>6 DEF stopSandbox
<1>7. ASSUME NEW r \in Requests, resumeSandbox(r) PROVE Lawful
  <2>1. CASE ResumeBegins(r)
    <3>1. PICK p \in Principals :
            /\ Authorized(p)
            /\ req' = [req EXCEPT ![r] = [Idle EXCEPT !.pc = "latest", !.who = p, !.name = row.name]]
      BY <2>1 DEF ResumeBegins
    <3>2. req'[r].who = p /\ \A q \in Requests : q # r => req'[q] = req[q]
      BY <3>1 DEF Typed, Idle
    <3>3. QED BY <1>1, <3>1, <3>2
  <2>2. CASE ResumeReads(r)
    <3>1. req' = [req EXCEPT ![r] = [req[r] EXCEPT !.pc = "restore", !.snap = Latest]]
      BY <2>2 DEF ResumeReads, Typed
    <3>2. req[r] \in Handlers /\ req[r].pc \in Acting BY <2>2 DEF ResumeReads, Typed, Acting
    <3>3. req'[r].who = req[r].who /\ \A q \in Requests : q # r => req'[q] = req[q]
      BY <3>1, <3>2 DEF Typed, Handlers
    <3>4. QED BY <1>1, <3>2, <3>3
  <2>3. CASE ResumeCopies(r) BY <1>3, <2>3 DEF ResumeCopies, Acting
  <2>4. CASE ResumeBoots(r) BY <1>3, <2>4 DEF ResumeBoots, Acting
  <2>5. CASE ResumeFails(r) BY <1>2, <2>5 DEF ResumeFails
  <2>6. QED BY <1>7, <2>1, <2>2, <2>3, <2>4, <2>5 DEF resumeSandbox
<1>8. ASSUME NEW r \in Requests, deleteSandbox(r) PROVE Lawful
  <2>0. ASSUME NEW t, req' = [req EXCEPT ![r] = [req[r] EXCEPT !.pc = "purge", !.todo = t]],
               req[r].pc \in Acting
        PROVE  Lawful
    <3>1. req[r] \in Handlers BY DEF Typed
    <3>2. req'[r].who = req[r].who /\ \A q \in Requests : q # r => req'[q] = req[q]
      BY <2>0, <3>1 DEF Typed, Handlers
    <3>3. QED BY <1>1, <2>0, <3>2
  <2>1. CASE DeleteKills(r) BY <1>4, <2>1 DEF DeleteKills
  <2>2. CASE DeleteLists(r)
    <3>1. req[r].pc \in Acting BY <2>2 DEF DeleteLists, Acting
    <3>2. CASE Goto(r, "purge") BY <1>3, <3>1, <3>2
    <3>3. CASE req' = [req EXCEPT ![r].pc = "purge", ![r].todo = snaps]
      <4>1. req' = [req EXCEPT ![r] = [req[r] EXCEPT !.pc = "purge", !.todo = snaps]]
        BY <3>3 DEF Typed
      <4>2. QED BY <2>0, <3>1, <4>1
    <3>4. QED BY <2>2, <3>2, <3>3 DEF DeleteLists
  <2>3. CASE DeleteRemoves(r) BY <1>3, <2>3 DEF DeleteRemoves, Acting
  <2>4. CASE DeleteUnlists(r)
    <3>1. req[r].pc \in Acting BY <2>4 DEF DeleteUnlists, Acting
    <3>2. req' = [req EXCEPT ![r] = [req[r] EXCEPT !.pc = "purge", !.todo = Front(req[r].todo)]]
      BY <2>4 DEF DeleteUnlists, Typed
    <3>3. QED BY <2>0, <3>1, <3>2
  <2>5. CASE DeleteArchives(r) BY <1>2, <2>5 DEF DeleteArchives
  <2>6. QED BY <1>8, <2>1, <2>2, <2>3, <2>4, <2>5 DEF deleteSandbox
<1>9. ASSUME Rename \/ Dies PROVE Lawful BY <1>1, <1>9 DEF Rename, Dies
<1>10. ASSUME Crash PROVE Lawful BY <1>10 DEF Crash, Idle, Acting
<1>11. Lawful BY <1>5, <1>6, <1>7, <1>8, <1>9, <1>10 DEF Next
<1>12. RowKept BY NextKeepsRow
<1>13. \A p : Authorized(p) => Authorized(p)' BY <1>12 DEF RowKept, Authorized
<1>14. QED BY <1>11, <1>13 DEF ActsForOwner, Acting, Authorized

-----------------------------------------------------------------------------
(* Rows and files.                                                          *)

LEMMA PastFacts ==
  ASSUME Typed, FilesInv
  PROVE  /\ taken \in Nat /\ NoSnap \notin files
         /\ \A x \in files \cup torn \cup Range(snaps) : x \in Nat /\ x >= 1 /\ x <= taken
         /\ \A r \in Requests : \A x \in Range(req[r].todo) : x \in Nat /\ x >= 1 /\ x <= taken
<1>1. taken \in Nat BY HistoryAssumption DEF Typed
<1>2. \A x \in 1 .. taken : x \in Nat /\ x >= 1 /\ x <= taken BY <1>1
<1>3. NoSnap \notin 1 .. taken BY <1>1 DEF NoSnap
<1>4. files \cup torn \cup Range(snaps) \subseteq 1 .. taken BY DEF FilesInv, Past
<1>5. \A r \in Requests : Range(req[r].todo) \subseteq 1 .. taken BY DEF FilesInv, Past
<1>6. \A x \in files \cup torn \cup Range(snaps) : x \in Nat /\ x >= 1 /\ x <= taken
  BY <1>2, <1>4
<1>7. \A r \in Requests : \A x \in Range(req[r].todo) : x \in Nat /\ x >= 1 /\ x <= taken
  BY <1>2, <1>5
<1>8. QED BY <1>1, <1>3, <1>4, <1>6, <1>7

\* A step after which r holds no snapshot, and that takes nothing from the other requests.
LEMMA OthersOwn ==
  ASSUME Typed, Owned, NEW r \in Requests, \A q \in Requests : q # r => req'[q] = req[q],
         req'[r].pc \notin {"snapshot", "teardown", "record", "unlist"},
         req'[r].pc = "capture" => req'[r].snap = NoSnap,
         Range(req'[r].todo) \subseteq Range(req[r].todo),
         Range(snaps') \subseteq Range(snaps),
         \A q \in Requests : Holds(q) /\ q # r => req[q].snap \in files'
  PROVE  Owned'
<1>1. \A q \in Requests : Range(req'[q].todo) \subseteq Range(req[q].todo) OBVIOUS
<1>2. ~Holds(r)' /\ \A q \in Requests : q # r => (Holds(q)' <=> Holds(q)) BY DEF Holds
<1>3. ASSUME NEW q \in Requests, Holds(q)'
      PROVE  /\ req'[q].snap \in files' /\ req'[q].snap \notin Range(snaps')
             /\ \A k \in Requests : /\ req'[q].snap \notin Range(req'[k].todo)
                                    /\ Holds(k)' /\ k # q => req'[k].snap # req'[q].snap
  <2>1. q # r /\ Holds(q) /\ req'[q] = req[q] BY <1>2, <1>3
  <2>2. req[q].snap \in files' BY <2>1
  <2>3. req[q].snap \notin Range(snaps) BY <2>1 DEF Owned
  <2>4. ASSUME NEW k \in Requests
        PROVE  /\ req[q].snap \notin Range(req'[k].todo)
               /\ Holds(k)' /\ k # q => req'[k].snap # req[q].snap
    <3>1. req[q].snap \notin Range(req[k].todo) BY <2>1 DEF Owned
    <3>2. Holds(k)' => k # r /\ Holds(k) /\ req'[k] = req[k] BY <1>2
    <3>3. QED BY <1>1, <2>1, <3>1, <3>2 DEF Owned
  <2>5. QED BY <2>1, <2>2, <2>3, <2>4
<1>4. ASSUME NEW q \in Requests
      PROVE  /\ req'[q].pc = "capture" => req'[q].snap = NoSnap
             /\ req'[q].pc = "unlist" => req'[q].todo # <<>>
  BY DEF Owned
<1>5. QED BY <1>3, <1>4 DEF Owned

\* Steps of a request that holds no snapshot, before and after.
LEMMA StepAside ==
  ASSUME Typed, FilesInv, UNCHANGED <<snaps, files, taken, torn>>, NEW r \in Requests,
         \A q \in Requests : q # r => req'[q] = req[q],
         req[r].pc \notin {"snapshot", "teardown", "record", "unlist"},
         req'[r].pc \notin {"snapshot", "teardown", "record", "unlist"},
         req'[r].pc = "capture" => req'[r].snap = NoSnap,
         req'[r].todo = <<>> \/ req'[r].todo = req[r].todo
  PROVE  FilesInv'
<1>1. Range(req'[r].todo) \subseteq Range(req[r].todo) BY EmptyRange
<1>2. \A q \in Requests : Range(req'[q].todo) \subseteq Range(req[q].todo) BY <1>1
<1>3. ~Holds(r) /\ ~Holds(r)' BY DEF Holds
<1>4. \A q \in Requests : q # r => (Holds(q)' <=> Holds(q)) BY DEF Holds
<1>5. Past' BY <1>2 DEF FilesInv, Past
<1>6. Owned' BY <1>1, OthersOwn DEF FilesInv, Owned
<1>7. Leftover' BY <1>3, <1>4 DEF FilesInv, Leftover
<1>8. Dangling' BY DEF FilesInv, Dangling
<1>9. QED BY <1>5, <1>6, <1>7, <1>8 DEF FilesInv

LEMMA RespondsAside ==
  ASSUME Typed, FilesInv, UNCHANGED <<snaps, files, taken, torn>>, NEW r \in Requests, Respond(r),
         req[r].pc \notin {"snapshot", "teardown", "record", "unlist"}
  PROVE  FilesInv'
<1>1. req'[r].pc = "idle" /\ req'[r].todo = <<>> BY RespondIs DEF Idle
<1>2. QED BY <1>1, RespondIs, StepAside

LEMMA EntersAside ==
  ASSUME Typed, FilesInv, UNCHANGED <<snaps, files, taken, torn>>, NEW r \in Requests,
         NEW p, NEW pc \in {"launching", "mark", "capture", "list"}, Enter(r, p, pc)
  PROVE  FilesInv'
<1>1. req[r].pc = "idle" BY DEF Enter, Idle
<1>2. QED BY <1>1, EnterIs, StepAside

\* The snapshot is new: no other request, row or list names it.
LEMMA StopPausesFiles ==
  ASSUME Typed, FilesInv, NEW r \in Requests, StopPauses(r)
  PROVE  FilesInv'
<1> DEFINE new == taken + 1
<1>1. /\ UNCHANGED <<snaps, torn>> /\ taken' = new /\ files' = files \cup {new}
      /\ req[r].pc = "capture"
  BY DEF StopPauses
<1>2. /\ req'[r].pc = "snapshot" /\ req'[r].snap = new /\ req'[r].todo = req[r].todo
      /\ \A q \in Requests : q # r => req'[q] = req[q]
  <2>1. req[r] \in Handlers BY DEF Typed
  <2>2. req' = [req EXCEPT ![r] = [req[r] EXCEPT !.pc = "snapshot", !.snap = new]]
    BY DEF StopPauses, Typed
  <2>3. QED BY <2>1, <2>2 DEF Typed, Handlers
<1>3. taken \in Nat /\ new \in Nat /\ 1 .. taken \subseteq 1 .. new /\ new \in 1 .. new
      /\ new \notin 1 .. taken
  BY PastFacts
<1> HIDE DEF new
<1>4. new \notin files /\ new \notin Range(snaps)
      /\ \A q \in Requests : new \notin Range(req[q].todo)
  BY <1>3 DEF FilesInv, Past
<1>5. \A q \in Requests : req'[q].todo = req[q].todo BY <1>2
<1>6. Past' BY <1>1, <1>3, <1>5 DEF FilesInv, Past
<1>7. Holds(r)' /\ ~Holds(r) /\ \A q \in Requests : q # r => (Holds(q)' <=> Holds(q))
  BY <1>1, <1>2 DEF Holds
<1>8. \A q \in Requests : Holds(q) => req[q].snap \in files BY DEF FilesInv, Owned
<1>9. Owned'
  <2>1. ASSUME NEW q \in Requests, Holds(q)'
        PROVE  /\ req'[q].snap \in files' /\ req'[q].snap \notin Range(snaps')
               /\ \A k \in Requests : /\ req'[q].snap \notin Range(req'[k].todo)
                                      /\ Holds(k)' /\ k # q => req'[k].snap # req'[q].snap
    <3>1. CASE q = r BY <1>1, <1>2, <1>4, <1>5, <1>7, <1>8, <3>1
    <3>2. CASE q # r
      <4>1. Holds(q) /\ req'[q] = req[q] BY <1>2, <1>7, <2>1, <3>2
      <4>2. req[q].snap # new BY <1>4, <1>8, <4>1
      <4>3. QED BY <1>1, <1>2, <1>5, <1>7, <4>1, <4>2 DEF FilesInv, Owned
    <3>3. QED BY <3>1, <3>2
  <2>2. ASSUME NEW q \in Requests
        PROVE  /\ req'[q].pc = "capture" => req'[q].snap = NoSnap
               /\ req'[q].pc = "unlist" => req'[q].todo # <<>>
    <3>1. CASE q = r BY <1>2, <3>1
    <3>2. CASE q # r BY <1>2, <3>2 DEF FilesInv, Owned
    <3>3. QED BY <3>1, <3>2
  <2>3. QED BY <2>1, <2>2 DEF Owned
<1>10. Leftover' BY <1>1, <1>2, <1>7 DEF FilesInv, Leftover
<1>11. Dangling' BY <1>1, <1>2 DEF FilesInv, Dangling
<1>12. QED BY <1>6, <1>9, <1>10, <1>11 DEF FilesInv

LEMMA StopMovesFiles ==
  ASSUME Typed, FilesInv, NEW r \in Requests, StopCaptures(r) \/ StopTearsDown(r)
  PROVE  FilesInv'
<1>1. UNCHANGED <<snaps, files, taken, torn>> /\ Holds(r)
  BY DEF StopCaptures, StopTearsDown, Holds
<1>2. /\ req'[r].pc \in {"teardown", "record"} /\ req'[r].snap = req[r].snap
      /\ req'[r].todo = req[r].todo
      /\ \A q \in Requests : q # r => req'[q] = req[q]
  BY GotoIs DEF StopCaptures, StopTearsDown
<1>3. \A q \in Requests : /\ Holds(q)' <=> Holds(q)
                          /\ req'[q].snap = req[q].snap /\ req'[q].todo = req[q].todo
  BY <1>1, <1>2 DEF Holds
<1>4. Past' BY <1>1, <1>3 DEF FilesInv, Past
<1>5. \A q \in Requests : req'[q].pc \in {"capture", "unlist"} => req[q].pc = req'[q].pc
  BY <1>2
<1>6. Owned' BY <1>1, <1>3, <1>5 DEF FilesInv, Owned
<1>7. Leftover' BY <1>1, <1>3 DEF FilesInv, Leftover
<1>8. \A q \in Requests : req[q].pc = "unlist" => req'[q].pc = "unlist" BY <1>1, <1>2 DEF Holds
<1>9. Dangling' BY <1>1, <1>3, <1>8 DEF FilesInv, Dangling
<1>10. QED BY <1>4, <1>6, <1>7, <1>9 DEF FilesInv

\* Only its own directory is removed; one that stays, or is made by a stop that fails at
\* once, is torn.
LEMMA StopFailsFiles ==
  ASSUME Typed, FilesInv, NEW r \in Requests, StopFails(r)
  PROVE  FilesInv'
<1> DEFINE x == req[r].snap
           new == taken + 1
<1>1. UNCHANGED snaps /\ req[r].pc \in {"capture", "snapshot"} BY DEF StopFails
<1>2. /\ req'[r].pc = "idle" /\ req'[r].todo = <<>>
      /\ \A q \in Requests : q # r => req'[q] = req[q]
  BY RespondIs DEF StopFails, Idle
<1>3. \A q \in Requests : Range(req'[q].todo) \subseteq Range(req[q].todo)
  BY <1>2, EmptyRange
<1>4. ~Holds(r)' /\ \A q \in Requests : q # r => (Holds(q)' <=> Holds(q))
  BY <1>2 DEF Holds
<1>5. \/ x = NoSnap
      \/ Holds(r) /\ x \notin Range(snaps) /\ x \in files
  BY <1>1 DEF Holds, FilesInv, Owned
<1>6. \A q \in Requests : Holds(q) /\ q # r => req[q].snap # x
  <2>1. CASE x = NoSnap BY <2>1, PastFacts DEF FilesInv, Owned
  <2>2. CASE Holds(r) BY <2>2 DEF FilesInv, Owned
  <2>3. QED BY <1>5, <2>1, <2>2
<1>7. x \notin Range(snaps) BY <1>5, PastFacts DEF NoSnap
<1>8. req[r].pc = "snapshot" => x \in files BY DEF Holds, FilesInv, Owned
<1>9. req[r].pc = "capture" => ~Holds(r) BY DEF Holds
<1>10. taken \in Nat /\ 1 .. taken \subseteq 1 .. new /\ new \in 1 .. new BY PastFacts
<1>11. \/ UNCHANGED <<taken, torn>> /\ files' = files \ {x}
       \/ req[r].pc = "snapshot" /\ torn' = torn \cup {x} /\ UNCHANGED <<files, taken>>
       \/ /\ req[r].pc = "capture" /\ taken' = new
          /\ files' = files \cup {new} /\ torn' = torn \cup {new}
  BY DEF StopFails
<1>12. \A q \in Requests : Holds(q) => x = req[q].snap \/ req[q].snap \in files'
  BY <1>11 DEF FilesInv, Owned
<1>13. Owned'
  <2>1. \A q \in Requests : Holds(q) /\ q # r => req[q].snap \in files'
    BY <1>6, <1>12
  <2>2. QED BY <1>1, <1>2, <1>3, <2>1, OthersOwn DEF FilesInv
<1>14. CASE UNCHANGED <<taken, torn>> /\ files' = files \ {x}
  <2>1. Past' BY <1>1, <1>3, <1>14 DEF FilesInv, Past
  <2>2. Leftover' BY <1>1, <1>2, <1>4, <1>14 DEF FilesInv, Leftover
  <2>3. Dangling' BY <1>1, <1>2, <1>7, <1>14 DEF FilesInv, Dangling
  <2>4. QED BY <1>13, <2>1, <2>2, <2>3 DEF FilesInv
<1>15. CASE req[r].pc = "snapshot" /\ torn' = torn \cup {x} /\ UNCHANGED <<files, taken>>
  <2>1. Past' BY <1>1, <1>3, <1>8, <1>15 DEF FilesInv, Past
  <2>2. Leftover' BY <1>1, <1>2, <1>4, <1>15 DEF FilesInv, Leftover
  <2>3. Dangling' BY <1>1, <1>2, <1>15 DEF FilesInv, Dangling
  <2>4. QED BY <1>13, <2>1, <2>2, <2>3 DEF FilesInv
<1>16. CASE /\ req[r].pc = "capture" /\ taken' = new
            /\ files' = files \cup {new} /\ torn' = torn \cup {new}
  <2> HIDE DEF new
  <2>1. Past' BY <1>1, <1>3, <1>10, <1>16 DEF FilesInv, Past
  <2>2. Leftover' BY <1>1, <1>2, <1>4, <1>9, <1>16 DEF FilesInv, Leftover
  <2>3. Dangling' BY <1>1, <1>2, <1>16 DEF FilesInv, Dangling
  <2>4. QED BY <1>13, <2>1, <2>2, <2>3 DEF FilesInv
<1>17. QED BY <1>11, <1>14, <1>15, <1>16

LEMMA RecordSnapshotFiles ==
  ASSUME Typed, FilesInv, NEW r \in Requests, RecordSnapshot(r)
  PROVE  FilesInv'
<1> DEFINE x == req[r].snap
<1>1. UNCHANGED <<files, taken>> /\ Holds(r) BY DEF RecordSnapshot, Holds
<1>2. /\ req'[r].pc = "mark" /\ req'[r].todo = req[r].todo
      /\ \A q \in Requests : q # r => req'[q] = req[q]
  BY GotoIs DEF RecordSnapshot
<1>3. \A q \in Requests : req'[q].todo = req[q].todo BY <1>2
<1>4. ~Holds(r)' /\ \A q \in Requests : q # r => (Holds(q)' <=> Holds(q)) BY <1>2 DEF Holds
<1>5. x \in files /\ x \notin Range(snaps) /\ x \in Snaps BY <1>1 DEF FilesInv, Owned, Typed
<1>6. \A q \in Requests : Holds(q) /\ q # r => req[q].snap # x BY <1>1 DEF FilesInv, Owned
<1>7. req[r].pc # "unlist" BY DEF RecordSnapshot
<1> HIDE DEF x
<1>8. CASE snaps' = Append(snaps, x) /\ UNCHANGED torn
  <2>1. snaps \in Seq(Snaps) /\ Len(snaps) \in Nat BY DEF Typed
  <2>2. /\ Range(snaps') = Range(snaps) \cup {x} /\ Len(snaps') = Len(snaps) + 1
        /\ \A i \in 1 .. Len(snaps) : snaps'[i] = snaps[i]
        /\ snaps'[Len(snaps) + 1] = x
    BY <1>5, <1>8, <2>1, AppendIs
  <2>3. \A i \in 1 .. Len(snaps) : snaps[i] # x BY <1>5, <2>1, RangeIs
  <2>4. \A i \in 1 .. Len(snaps') : i \in 1 .. Len(snaps) \/ i = Len(snaps) + 1 BY <2>1, <2>2
  <2>5. \A i, j \in 1 .. Len(snaps') : snaps'[i] = snaps'[j] => i = j
    BY <2>2, <2>3, <2>4 DEF FilesInv, Past
  <2>6. Past' BY <1>1, <1>3, <1>5, <1>8, <2>2, <2>5 DEF FilesInv, Past
  <2>7. Owned' BY <1>1, <1>2, <1>3, <1>4, <1>6, <2>2 DEF FilesInv, Owned
  <2>8. Leftover' BY <1>1, <1>2, <1>4, <1>8, <2>2 DEF FilesInv, Leftover, x
  <2>9. Dangling' BY <1>1, <1>2, <1>5, <1>7, <1>8, <2>2 DEF FilesInv, Dangling
  <2>10. QED BY <2>6, <2>7, <2>8, <2>9 DEF FilesInv
<1>9. CASE torn' = torn \cup {x} /\ UNCHANGED snaps
  <2>1. Past' BY <1>1, <1>3, <1>5, <1>9 DEF FilesInv, Past
  <2>2. Owned' BY <1>1, <1>2, <1>3, <1>4, <1>9 DEF FilesInv, Owned
  <2>3. Leftover' BY <1>1, <1>2, <1>4, <1>9 DEF FilesInv, Leftover, x
  <2>4. Dangling' BY <1>1, <1>2, <1>7, <1>9 DEF FilesInv, Dangling
  <2>5. QED BY <2>1, <2>2, <2>3, <2>4 DEF FilesInv
<1>10. QED BY <1>8, <1>9 DEF RecordSnapshot, x

LEMMA DeleteListsFiles ==
  ASSUME Typed, FilesInv, NEW r \in Requests, DeleteLists(r)
  PROVE  FilesInv'
<1>1. UNCHANGED <<snaps, files, taken, torn>> /\ req[r].pc = "list" BY DEF DeleteLists
<1>2. /\ req'[r].pc = "purge" /\ (req'[r].todo = snaps \/ req'[r].todo = req[r].todo)
      /\ \A q \in Requests : q # r => req'[q] = req[q]
  <2>1. CASE Goto(r, "purge") BY <2>1, GotoIs
  <2>2. CASE req' = [req EXCEPT ![r].pc = "purge", ![r].todo = snaps]
    <3>1. req' = [req EXCEPT ![r] = [req[r] EXCEPT !.pc = "purge", !.todo = snaps]]
      BY <2>2 DEF Typed
    <3>2. req[r] \in Handlers BY DEF Typed
    <3>3. QED BY <3>1, <3>2 DEF Typed, Handlers
  <2>3. QED BY <2>1, <2>2 DEF DeleteLists
<1>3. ~Holds(r) /\ ~Holds(r)' /\ \A q \in Requests : q # r => (Holds(q)' <=> Holds(q))
  BY <1>1, <1>2 DEF Holds
<1>4. \A q \in Requests : \/ Range(req'[q].todo) = Range(req[q].todo)
                          \/ Range(req'[q].todo) = Range(snaps)
  BY <1>2
<1>5. Past' BY <1>1, <1>4 DEF FilesInv, Past
<1>6. Owned'
  <2>1. ASSUME NEW q \in Requests, Holds(q)'
        PROVE  /\ req'[q].snap \in files' /\ req'[q].snap \notin Range(snaps')
               /\ \A k \in Requests : /\ req'[q].snap \notin Range(req'[k].todo)
                                      /\ Holds(k)' /\ k # q => req'[k].snap # req'[q].snap
    <3>1. q # r /\ Holds(q) /\ req'[q] = req[q] BY <1>2, <1>3, <2>1
    <3>2. req[q].snap \in files /\ req[q].snap \notin Range(snaps)
      BY <3>1 DEF FilesInv, Owned
    <3>3. ASSUME NEW k \in Requests
          PROVE  /\ req[q].snap \notin Range(req'[k].todo)
                 /\ Holds(k)' /\ k # q => req'[k].snap # req[q].snap
      <4>1. req[q].snap \notin Range(req[k].todo) BY <3>1 DEF FilesInv, Owned
      <4>2. Holds(k)' => k # r /\ Holds(k) /\ req'[k] = req[k] BY <1>2, <1>3
      <4>3. QED BY <1>4, <3>1, <3>2, <4>1, <4>2 DEF FilesInv, Owned
    <3>4. QED BY <1>1, <3>1, <3>2, <3>3
  <2>2. \A q \in Requests :
          /\ req'[q].pc = "capture" => req'[q].snap = NoSnap
          /\ req'[q].pc = "unlist" => req'[q].todo # <<>>
    BY <1>1, <1>2 DEF FilesInv, Owned
  <2>3. QED BY <2>1, <2>2 DEF Owned
<1>7. Leftover' BY <1>1, <1>2, <1>3 DEF FilesInv, Leftover
<1>8. Dangling' BY <1>1, <1>2 DEF FilesInv, Dangling
<1>9. QED BY <1>5, <1>6, <1>7, <1>8 DEF FilesInv

\* What a delete has on its list is recorded, or was: no other request holds it.
LEMMA DeleteRemovesFiles ==
  ASSUME Typed, FilesInv, NEW r \in Requests, DeleteRemoves(r)
  PROVE  FilesInv'
<1> DEFINE x == Last(req[r].todo)
<1>1. /\ UNCHANGED <<snaps, taken, torn>> /\ files' \in {files, files \ {x}}
      /\ req[r].pc = "purge" /\ req[r].todo # <<>>
  BY DEF DeleteRemoves
<1>2. /\ req'[r].pc = "unlist" /\ req'[r].todo = req[r].todo
      /\ \A q \in Requests : q # r => req'[q] = req[q]
  BY GotoIs DEF DeleteRemoves
<1>3. ~Holds(r) /\ ~Holds(r)' /\ \A q \in Requests : q # r => (Holds(q)' <=> Holds(q))
  BY <1>1, <1>2 DEF Holds
<1>4. x \in Range(req[r].todo) BY <1>1, LastIs, HandlerFields DEF Typed
<1>5. \A q \in Requests : Holds(q) => req[q].snap # x BY <1>4 DEF FilesInv, Owned
<1>6. \A q \in Requests : req'[q].todo = req[q].todo BY <1>2
<1>7. Last(req'[r].todo) = x BY <1>6
<1> HIDE DEF x
<1>8. Past' BY <1>1, <1>6 DEF FilesInv, Past
<1>9. Owned'
  <2>1. ASSUME NEW q \in Requests, Holds(q)'
        PROVE  /\ req'[q].snap \in files' /\ req'[q].snap \notin Range(snaps')
               /\ \A k \in Requests : /\ req'[q].snap \notin Range(req'[k].todo)
                                      /\ Holds(k)' /\ k # q => req'[k].snap # req'[q].snap
    <3>1. q # r /\ Holds(q) /\ req'[q] = req[q] BY <1>2, <1>3, <2>1
    <3>2. req[q].snap \in files' /\ req[q].snap \notin Range(snaps')
      BY <1>1, <1>5, <3>1 DEF FilesInv, Owned
    <3>3. ASSUME NEW k \in Requests
          PROVE  /\ req[q].snap \notin Range(req'[k].todo)
                 /\ Holds(k)' /\ k # q => req'[k].snap # req[q].snap
      <4>1. Holds(k)' => k # r /\ Holds(k) /\ req'[k] = req[k] BY <1>2, <1>3
      <4>2. QED BY <1>6, <3>1, <4>1 DEF FilesInv, Owned
    <3>4. QED BY <3>1, <3>2, <3>3
  <2>2. ASSUME NEW q \in Requests
        PROVE  /\ req'[q].pc = "capture" => req'[q].snap = NoSnap
               /\ req'[q].pc = "unlist" => req'[q].todo # <<>>
    <3>1. CASE q = r BY <1>1, <1>2, <1>7, <3>1
    <3>2. CASE q # r BY <1>1, <1>2, <3>2 DEF FilesInv, Owned
    <3>3. QED BY <3>1, <3>2
  <2>3. QED BY <2>1, <2>2 DEF Owned
<1>10. Leftover' BY <1>1, <1>2, <1>3 DEF FilesInv, Leftover
<1>11. Dangling'
  <2> SUFFICES ASSUME NEW y \in Range(snaps'), y \notin files'
               PROVE  \/ y \in torn'
                      \/ \E q \in Requests : req'[q].pc = "unlist" /\ Last(req'[q].todo) = y
    BY DEF Dangling
  <2>1. CASE y = x BY <1>2, <1>7, <2>1
  <2>2. CASE y # x
    <3>1. y \in Range(snaps) \ files BY <1>1, <2>2
    <3>2. CASE y \in torn BY <1>1, <3>2
    <3>3. CASE \E q \in Requests : req[q].pc = "unlist" /\ Last(req[q].todo) = y
      BY <1>1, <1>2, <3>3
    <3>4. QED BY <3>1, <3>2, <3>3 DEF FilesInv, Dangling
  <2>3. QED BY <2>1, <2>2
<1>12. QED BY <1>8, <1>9, <1>10, <1>11 DEF FilesInv

LEMMA DeleteUnlistsFiles ==
  ASSUME Typed, FilesInv, NEW r \in Requests, DeleteUnlists(r)
  PROVE  FilesInv'
<1> DEFINE x == Last(req[r].todo)
           gone == IF x \in files THEN torn \cup {x} ELSE torn \ {x}
<1>1. UNCHANGED <<files, taken>> /\ req[r].pc = "unlist" BY DEF DeleteUnlists
<1>2. req[r].todo # <<>> /\ req[r].todo \in Seq(Snaps) /\ req[r] \in Handlers
  BY <1>1, HandlerFields DEF FilesInv, Owned, Typed
<1>3. /\ req'[r].pc = "purge" /\ req'[r].todo = Front(req[r].todo)
      /\ \A q \in Requests : q # r => req'[q] = req[q]
  <2>1. req' = [req EXCEPT ![r] = [req[r] EXCEPT !.pc = "purge", !.todo = Front(req[r].todo)]]
    BY DEF DeleteUnlists, Typed
  <2>2. QED BY <1>2, <2>1 DEF Typed, Handlers
<1>4. Range(req'[r].todo) \subseteq Range(req[r].todo) BY <1>2, <1>3, FrontIs
<1>5. /\ Range(snaps') \subseteq Range(snaps)
      /\ \A i, j \in 1 .. Len(snaps') : snaps'[i] = snaps'[j] => i = j
      /\ \/ Range(snaps') = Range(snaps) \ {x} /\ torn' = gone
         \/ Range(snaps') = Range(snaps) /\ torn' = torn \cup (({x} \cap Range(snaps)) \ files)
  <2>1. snaps \in Seq(Snaps) /\ \A i, j \in 1 .. Len(snaps) : snaps[i] = snaps[j] => i = j
    BY DEF Typed, FilesInv, Past
  <2>2. CASE Delete(x) /\ torn' = gone
    <3>1. CASE x \notin Range(snaps) /\ UNCHANGED snaps BY <2>1, <2>2, <3>1
    <3>2. ASSUME NEW i \in DOMAIN snaps, snaps[i] = x, snaps' = RemoveAt(snaps, i)
          PROVE  <1>5
      <4>1. i \in 1 .. Len(snaps) BY <2>1, <3>2, LenProperties
      <4>2. QED BY <2>1, <2>2, <3>2, <4>1, RemoveAtRange
    <3>3. QED BY <2>2, <3>1, <3>2 DEF Delete
  <2>3. CASE torn' = torn \cup (({x} \cap Range(snaps)) \ files) /\ UNCHANGED snaps
    BY <2>1, <2>3
  <2>4. QED BY <2>2, <2>3 DEF DeleteUnlists
<1>6. ~Holds(r) /\ ~Holds(r)' /\ \A q \in Requests : q # r => (Holds(q)' <=> Holds(q))
  BY <1>1, <1>3 DEF Holds
<1> HIDE DEF x
<1>7. Past'
  <2>1. \A q \in Requests : Range(req'[q].todo) \subseteq Range(req[q].todo) BY <1>3, <1>4
  <2>2. torn' \subseteq torn \cup Range(snaps) \cup files BY <1>5
  <2>3. QED BY <1>1, <1>5, <2>1, <2>2 DEF FilesInv, Past
<1>8. Owned'
  <2>1. \A q \in Requests : Holds(q) => req[q].snap \in files' BY <1>1 DEF FilesInv, Owned
  <2>2. QED BY <1>1, <1>3, <1>4, <1>5, <2>1, OthersOwn DEF FilesInv
<1>9. Leftover'
  <2> SUFFICES ASSUME NEW y \in files', y \notin Range(snaps')
               PROVE  y \in torn' \/ \E q \in Requests : Holds(q)' /\ req'[q].snap = y
    BY DEF Leftover
  <2>1. y \in files /\ (y = x \/ y \notin Range(snaps)) BY <1>1, <1>5
  <2>2. CASE y \in torn BY <1>5, <2>1, <2>2
  <2>3. CASE \E q \in Requests : Holds(q) /\ req[q].snap = y BY <1>3, <1>6, <2>3
  <2>4. CASE y \in Range(snaps) BY <1>5, <2>1, <2>4
  <2>5. QED BY <2>1, <2>2, <2>3, <2>4 DEF FilesInv, Leftover
<1>10. Dangling'
  <2> SUFFICES ASSUME NEW y \in Range(snaps'), y \notin files'
               PROVE  \/ y \in torn'
                      \/ \E q \in Requests : req'[q].pc = "unlist" /\ Last(req'[q].todo) = y
    BY DEF Dangling
  <2>1. y \in Range(snaps) \ files BY <1>1, <1>5
  <2>2. CASE y = x BY <1>5, <2>1, <2>2
  <2>3. CASE y # x /\ y \in torn BY <1>5, <2>3
  <2>4. CASE y # x /\ \E q \in Requests : req[q].pc = "unlist" /\ Last(req[q].todo) = y
    BY <1>3, <2>4 DEF x
  <2>5. QED BY <2>1, <2>2, <2>3, <2>4 DEF FilesInv, Dangling
<1>11. QED BY <1>7, <1>8, <1>9, <1>10 DEF FilesInv

\* A crash leaves to nobody what requests had in hand.
LEMMA CrashFiles ==
  ASSUME Typed, FilesInv, Crash
  PROVE  FilesInv'
<1>1. /\ UNCHANGED <<snaps, files, taken>> /\ torn' = torn \cup UNION {InHand(r) : r \in Requests}
      /\ req' = [r \in Requests |-> Idle]
  BY DEF Crash
<1>2. \A r \in Requests : req'[r].pc = "idle" /\ req'[r].todo = <<>> BY <1>1 DEF Idle
<1>3. \A r \in Requests : ~Holds(r)' BY <1>2 DEF Holds
<1>4. \A r \in Requests : Holds(r) => InHand(r) = {req[r].snap} BY DEF Holds, InHand
<1>5. \A r \in Requests : req[r].pc = "unlist" =>
        InHand(r) = ({Last(req[r].todo)} \cap Range(snaps)) \ files
  BY DEF InHand
<1>6. \A r \in Requests : InHand(r) \subseteq files \cup Range(snaps)
  <2> SUFFICES ASSUME NEW r \in Requests PROVE InHand(r) \subseteq files \cup Range(snaps)
    OBVIOUS
  <2>1. CASE Holds(r) BY <1>4, <2>1 DEF FilesInv, Owned
  <2>2. CASE req[r].pc = "unlist" BY <1>5, <2>2
  <2>3. CASE ~Holds(r) /\ req[r].pc # "unlist" BY <2>3 DEF Holds, InHand
  <2>4. QED BY <2>1, <2>2, <2>3
<1>7. torn' \subseteq torn \cup files \cup Range(snaps) BY <1>1, <1>6
<1>8. Past' BY <1>1, <1>2, <1>7, EmptyRange DEF FilesInv, Past
<1>9. Owned' BY <1>2, <1>3 DEF Owned
<1>10. Leftover' BY <1>1, <1>4 DEF FilesInv, Leftover
<1>11. Dangling' BY <1>1, <1>5 DEF FilesInv, Dangling
<1>12. QED BY <1>8, <1>9, <1>10, <1>11 DEF FilesInv

LEMMA FilesKept ==
  ASSUME Typed, FilesInv, Next
  PROVE  FilesInv'
<1>1. ASSUME NEW r \in Requests, launchVM(r) \/ terminateVM(r) PROVE FilesInv'
  <2>1. CASE LaunchBegins(r) \/ TerminateKills(r)
    BY <2>1, EntersAside DEF LaunchBegins, TerminateKills
  <2>2. CASE LaunchBoots(r)
    <3>1. Goto(r, "upsert") /\ req[r].pc = "launching" /\ UNCHANGED <<snaps, files, taken, torn>>
      BY <2>2 DEF LaunchBoots
    <3>2. QED BY <3>1, GotoIs, StepAside
  <2>3. CASE LaunchFails(r) \/ RecordRunning(r) \/ RecordStopped(r)
    BY <2>3, RespondsAside DEF LaunchFails, RecordRunning, RecordStopped
  <2>4. QED BY <1>1, <2>1, <2>2, <2>3 DEF launchVM, terminateVM
<1>2. ASSUME NEW r \in Requests, stopSandbox(r) PROVE FilesInv'
  <2>1. CASE StopBegins(r) BY <2>1, EntersAside DEF StopBegins
  <2>2. QED
    BY <1>2, <2>1, StopPausesFiles, StopMovesFiles, StopFailsFiles, RecordSnapshotFiles
    DEF stopSandbox
<1>3. ASSUME NEW r \in Requests, resumeSandbox(r) PROVE FilesInv'
  <2>0. UNCHANGED <<snaps, files, taken, torn>>
    BY <1>3 DEF resumeSandbox, ResumeBegins, ResumeReads, ResumeCopies, ResumeBoots, ResumeFails
  <2>1. CASE ResumeBegins(r)
    <3>1. PICK p \in Principals :
            req' = [req EXCEPT ![r] = [Idle EXCEPT !.pc = "latest", !.who = p, !.name = row.name]]
      BY <2>1 DEF ResumeBegins
    <3>2. /\ req'[r].pc = "latest" /\ req'[r].todo = <<>>
          /\ \A q \in Requests : q # r => req'[q] = req[q]
      BY <3>1 DEF Typed, Idle
    <3>3. req[r].pc = "idle" BY <2>1 DEF ResumeBegins, Idle
    <3>4. QED BY <2>0, <3>2, <3>3, StepAside
  <2>2. CASE ResumeReads(r)
    <3>1. req' = [req EXCEPT ![r] = [req[r] EXCEPT !.pc = "restore", !.snap = Latest]]
      BY <2>2 DEF ResumeReads, Typed
    <3>2. req[r] \in Handlers /\ req[r].pc = "latest" BY <2>2 DEF ResumeReads, Typed
    <3>3. /\ req'[r].pc = "restore" /\ req'[r].todo = req[r].todo
          /\ \A q \in Requests : q # r => req'[q] = req[q]
      BY <3>1, <3>2 DEF Typed, Handlers
    <3>4. QED BY <2>0, <3>2, <3>3, StepAside
  <2>3. CASE ResumeCopies(r)
    <3>1. Goto(r, "restoring") /\ req[r].pc = "restore" BY <2>3 DEF ResumeCopies
    <3>2. QED BY <2>0, <3>1, GotoIs, StepAside
  <2>4. CASE ResumeBoots(r)
    <3>1. Goto(r, "upsert") /\ req[r].pc = "restoring" BY <2>4 DEF ResumeBoots
    <3>2. QED BY <2>0, <3>1, GotoIs, StepAside
  <2>5. CASE ResumeFails(r) BY <2>0, <2>5, RespondsAside DEF ResumeFails
  <2>6. QED BY <1>3, <2>1, <2>2, <2>3, <2>4, <2>5 DEF resumeSandbox
<1>4. ASSUME NEW r \in Requests, deleteSandbox(r) PROVE FilesInv'
  <2>1. CASE DeleteKills(r) BY <2>1, EntersAside DEF DeleteKills
  <2>2. CASE DeleteArchives(r) BY <2>2, RespondsAside DEF DeleteArchives
  <2>3. QED
    BY <1>4, <2>1, <2>2, DeleteListsFiles, DeleteRemovesFiles, DeleteUnlistsFiles
    DEF deleteSandbox
<1>5. CASE Rename \/ Dies
  <2>1. UNCHANGED <<snaps, files, taken, torn, req>> BY <1>5 DEF Rename, Dies
  <2>2. QED BY <2>1 DEF FilesInv, Past, Owned, Holds, Leftover, Dangling
<1>6. QED BY <1>1, <1>2, <1>3, <1>4, <1>5, CrashFiles DEF Next

LEMMA FilesInvIsEnough == Typed /\ FilesInv => FilesMatchRows
<1> SUFFICES ASSUME Typed, FilesInv PROVE FilesMatchRows OBVIOUS
<1>1. \A r \in Requests : Holds(r) => req[r].snap \in InHand(r) BY DEF Holds, InHand
<1>2. \A r \in Requests : req[r].pc = "unlist" =>
        InHand(r) = ({Last(req[r].todo)} \cap Range(snaps)) \ files
  BY DEF InHand
<1> DEFINE Held == UNION {InHand(r) : r \in Requests}
<1>3. files \ Range(snaps) \subseteq Held \cup torn BY <1>1 DEF FilesInv, Leftover
<1>4. Range(snaps) \ files \subseteq Held \cup torn BY <1>2 DEF FilesInv, Dangling
<1>5. QED BY <1>3, <1>4 DEF FilesMatchRows

-----------------------------------------------------------------------------
(* Calm histories.                                                          *)

\* What a calm history says of the one request in progress.
LEMMA Alone ==
  ASSUME Calm, calm, NEW r \in Requests, req[r].pc # "idle"
  PROVE  /\ \A q \in Requests : q # r => req[q] = Idle
         /\ torn = {} /\ InStep(r)
         /\ row.status = "archived" => snaps = <<>>
         /\ \/ snaps = <<>> \/ Last(snaps) = taken
            \/ Holds(r) \/ req[r].pc \in {"purge", "unlist"}
         /\ vm = "running" => base \in {NoSnap, taken}
<1>1. req[r] # Idle BY DEF Idle
<1>2. \A q \in Requests : q # r => req[q] = Idle BY <1>1 DEF Calm
<1>3. \A q \in Requests : Holds(q) \/ req[q].pc \in {"purge", "unlist"} => q = r
  BY <1>2 DEF Idle, Holds
<1>4. QED BY <1>2, <1>3 DEF Calm

\* What has to be shown after a step of that request.
LEMMA StillCalm ==
  ASSUME NEW r \in Requests, \A q \in Requests : q # r => req'[q] = Idle,
         torn' = {}, InStep(r)', req'[r].pc = "idle" => req'[r] = Idle,
         row'.status = "archived" => snaps' = <<>>,
         \/ snaps' = <<>> \/ Last(snaps') = taken'
         \/ Holds(r)' \/ req'[r].pc \in {"purge", "unlist"},
         vm' = "running" => base' \in {NoSnap, taken'},
         req'[r].pc = "idle" => vm' # "paused" /\ (vm' = "running") = (row'.status = "running")
  PROVE  Calm'
<1>1. \A q \in Requests : q # r => InStep(q)' BY DEF InStep, Holds, Idle
<1>2. \A q \in Requests : InStep(q)' /\ (req'[q].pc = "idle" => req'[q] = Idle) BY <1>1
<1>3. \A p, q \in Requests : req'[p] # Idle /\ req'[q] # Idle => p = q OBVIOUS
<1>4. Quiet' => req'[r].pc = "idle" BY DEF Quiet, Idle
<1>5. QED BY <1>2, <1>3, <1>4 DEF Calm

\* A request enters a quiet system, or the history is calm no more.
LEMMA EnterCalm ==
  ASSUME Typed, Calm, calm', NEW r \in Requests, NEW p, NEW pc, Enter(r, p, pc)
  PROVE  /\ calm /\ Quiet /\ torn = {}
         /\ \A q \in Requests : q # r => req'[q] = Idle
         /\ row.status = "archived" => snaps = <<>>
         /\ snaps = <<>> \/ Last(snaps) = taken
         /\ vm = "running" => base \in {NoSnap, taken}
         /\ vm # "paused" /\ (vm = "running") = (row.status = "running")
<1>1. calm /\ Quiet BY DEF Enter, Quiet
<1>2. \A q \in Requests : ~Holds(q) /\ req[q].pc \notin {"purge", "unlist"}
  BY <1>1 DEF Quiet, Idle, Holds
<1>3. \A q \in Requests : q # r => req'[q] = Idle BY <1>1, EnterIs DEF Quiet
<1>4. QED BY <1>1, <1>2, <1>3 DEF Calm

LEMMA RespondCalm ==
  ASSUME Typed, Calm, calm, NEW r \in Requests, req[r].pc # "idle", Respond(r),
         ~Holds(r), UNCHANGED <<torn, snaps, taken, vm, base>>,
         row'.status = "archived" => snaps = <<>>,
         req[r].pc \in {"purge", "unlist"} => snaps = <<>>,
         vm # "paused" /\ (vm = "running") = (row'.status = "running")
  PROVE  Calm'
<1>1. req'[r] = Idle /\ \A q \in Requests : q # r => req'[q] = req[q] BY RespondIs
<1>2. InStep(r)' BY <1>1 DEF InStep, Holds, Idle
<1>3. /\ \A q \in Requests : q # r => req'[q] = Idle
      /\ torn = {} /\ (vm = "running" => base \in {NoSnap, taken})
      /\ snaps = <<>> \/ Last(snaps) = taken
  BY <1>1, Alone
<1>4. QED BY <1>1, <1>2, <1>3, StillCalm

LEMMA LaunchCalm ==
  ASSUME Typed, Calm, calm', NEW r \in Requests, launchVM(r) \/ terminateVM(r)
  PROVE  Calm'
<1>1. CASE LaunchBegins(r)
  <2>1. PICK p \in Principals : Enter(r, p, "launching") BY <1>1 DEF LaunchBegins
  <2>2. vm = "none" /\ UNCHANGED <<vm, base, row, snaps, files, taken, torn>>
    BY <1>1 DEF LaunchBegins
  <2>3. req'[r].pc = "launching" BY <2>1, EnterIs
  <2>4. row.status # "running" BY <2>1, <2>2, EnterCalm
  <2>5. InStep(r)' BY <2>2, <2>3, <2>4 DEF InStep, Holds
  <2>6. QED BY <2>1, <2>2, <2>3, <2>5, EnterCalm, StillCalm
<1>2. CASE TerminateKills(r)
  <2>1. Enter(r, Service, "mark") /\ vm' = "none" /\ UNCHANGED <<base, row, snaps, taken, torn>>
    BY <1>2 DEF TerminateKills
  <2>2. req'[r].pc = "mark" BY <2>1, EnterIs
  <2>3. InStep(r)' BY <2>1, <2>2 DEF InStep, Holds
  <2>4. QED BY <2>1, <2>2, <2>3, EnterCalm, StillCalm
<1>3. CASE LaunchBoots(r)
  <2>1. /\ Goto(r, "upsert") /\ req[r].pc = "launching" /\ vm' = "running" /\ base' = NoSnap
        /\ UNCHANGED <<row, snaps, taken, torn, calm>>
    BY <1>3 DEF LaunchBoots
  <2>2. req'[r].pc = "upsert" /\ \A q \in Requests : q # r => req'[q] = req[q]
    BY <2>1, GotoIs
  <2>3. InStep(r)' BY <2>1, <2>2 DEF InStep, Holds
  <2>4. ~Holds(r) BY <2>1 DEF Holds
  <2>5. /\ \A q \in Requests : q # r => req'[q] = Idle
        /\ torn = {} /\ (row.status = "archived" => snaps = <<>>)
        /\ snaps = <<>> \/ Last(snaps) = taken
    BY <2>1, <2>2, <2>4, Alone
  <2>6. QED BY <2>1, <2>2, <2>3, <2>5, StillCalm
<1>4. CASE LaunchFails(r)
  <2>1. /\ Respond(r) /\ req[r].pc = "launching" /\ calm
        /\ UNCHANGED <<vm, base, row, snaps, taken, torn>>
    BY <1>4 DEF LaunchFails
  <2>2. ~Holds(r) BY <2>1 DEF Holds
  <2>3. InStep(r) /\ (row.status = "archived" => snaps = <<>>) BY <2>1, Alone
  <2>4. vm = "none" /\ row.status # "running" BY <2>1, <2>3 DEF InStep
  <2>5. QED BY <2>1, <2>2, <2>3, <2>4, RespondCalm
<1>5. CASE RecordRunning(r)
  <2>1. /\ Respond(r) /\ req[r].pc = "upsert" /\ calm /\ Upsert(r)
        /\ UNCHANGED <<vm, base, snaps, taken, torn>>
    BY <1>5 DEF RecordRunning
  <2>2. ~Holds(r) BY <2>1 DEF Holds
  <2>3. InStep(r) BY <2>1, Alone
  <2>4. vm = "running" /\ row'.status = "running" BY <2>1, <2>3, UpsertKeepsRow DEF InStep
  <2>5. QED BY <2>1, <2>2, <2>4, RespondCalm
<1>6. CASE RecordStopped(r)
  <2>1. /\ Respond(r) /\ req[r].pc = "mark" /\ calm /\ SetStatus("stopped")
        /\ UNCHANGED <<vm, base, snaps, taken, torn>>
    BY <1>6 DEF RecordStopped, MarkStopped
  <2>2. ~Holds(r) BY <2>1 DEF Holds
  <2>3. InStep(r) BY <2>1, Alone
  <2>4. vm = "none" /\ row'.status \in {"absent", "stopped"}
    BY <2>1, <2>3, StatusKeepsRow DEF InStep
  <2>5. QED BY <2>1, <2>2, <2>4, RespondCalm
<1>7. QED BY <1>1, <1>2, <1>3, <1>4, <1>5, <1>6 DEF launchVM, terminateVM

LEMMA StopCalm ==
  ASSUME Typed, Calm, calm', NEW r \in Requests, stopSandbox(r)
  PROVE  Calm'
<1>1. CASE StopBegins(r)
  <2>1. PICK p \in Principals : Enter(r, p, "capture") BY <1>1 DEF StopBegins
  <2>2. vm # "none" /\ UNCHANGED <<vm, base, row, snaps, taken, torn>> BY <1>1 DEF StopBegins
  <2>3. req'[r].pc = "capture" BY <2>1, EnterIs
  <2>4. vm = "running" /\ row.status = "running" BY <2>1, <2>2, EnterCalm DEF Typed
  <2>5. InStep(r)' BY <2>2, <2>3, <2>4 DEF InStep, Holds
  <2>6. QED BY <2>1, <2>2, <2>3, <2>5, EnterCalm, StillCalm
<1>2. CASE StopPauses(r)
  <2>1. /\ req[r].pc = "capture" /\ vm' = "paused" /\ taken' = taken + 1 /\ calm
        /\ UNCHANGED <<base, row, snaps, torn>>
    BY <1>2 DEF StopPauses
  <2>2. /\ req'[r].pc = "snapshot" /\ req'[r].snap = taken'
        /\ \A q \in Requests : q # r => req'[q] = req[q]
    <3>1. req[r] \in Handlers BY DEF Typed
    <3>2. req' = [req EXCEPT ![r] = [req[r] EXCEPT !.pc = "snapshot", !.snap = taken + 1]]
      BY <1>2 DEF StopPauses, Typed
    <3>3. QED BY <2>1, <3>1, <3>2 DEF Typed, Handlers
  <2>3. InStep(r) /\ torn = {} /\ \A q \in Requests : q # r => req'[q] = Idle
    BY <2>1, <2>2, Alone
  <2>4. row.status = "running" BY <2>1, <2>3 DEF InStep
  <2>5. InStep(r)' /\ Holds(r)' BY <2>1, <2>2, <2>4 DEF InStep, Holds
  <2>6. QED BY <2>1, <2>2, <2>3, <2>4, <2>5, StillCalm
<1>3. CASE StopCaptures(r) \/ StopTearsDown(r)
  <2>1. /\ req[r].pc \in {"snapshot", "teardown"} /\ calm
        /\ vm' = (IF req[r].pc = "snapshot" THEN vm ELSE "none")
        /\ UNCHANGED <<base, row, snaps, taken, torn>>
    BY <1>3 DEF StopCaptures, StopTearsDown
  <2>2. /\ req'[r].pc = (IF req[r].pc = "snapshot" THEN "teardown" ELSE "record")
        /\ req'[r].snap = req[r].snap
        /\ \A q \in Requests : q # r => req'[q] = req[q]
    BY <1>3, GotoIs DEF StopCaptures, StopTearsDown
  <2>3. InStep(r) /\ torn = {} /\ \A q \in Requests : q # r => req'[q] = Idle
    BY <2>1, <2>2, Alone
  <2>4. row.status = "running" /\ vm # "running" /\ req[r].snap = taken
    BY <2>1, <2>3 DEF InStep, Holds
  <2>5. InStep(r)' /\ Holds(r)' BY <2>1, <2>2, <2>4 DEF InStep, Holds
  <2>6. QED BY <2>1, <2>2, <2>3, <2>4, <2>5, StillCalm
<1>4. CASE RecordSnapshot(r)
  <2>1. /\ req[r].pc = "record" /\ calm /\ snaps' = Append(snaps, req[r].snap)
        /\ UNCHANGED <<vm, base, row, taken, torn>>
    BY <1>4 DEF RecordSnapshot
  <2>2. req'[r].pc = "mark" /\ \A q \in Requests : q # r => req'[q] = req[q]
    BY <1>4, GotoIs DEF RecordSnapshot
  <2>3. InStep(r) /\ torn = {} /\ \A q \in Requests : q # r => req'[q] = Idle
    BY <2>1, <2>2, Alone
  <2>4. row.status = "running" /\ vm = "none" /\ req[r].snap = taken
    BY <2>1, <2>3 DEF InStep, Holds
  <2>5. Last(snaps') = taken'
    <3>1. req[r].snap \in Snaps \cup {NoSnap} /\ snaps \in Seq(Snaps \cup {NoSnap})
      BY HandlerFields DEF Typed
    <3>2. QED BY <2>1, <2>4, <3>1, AppendIs
  <2>6. InStep(r)' BY <2>1, <2>2, <2>4 DEF InStep, Holds
  <2>7. QED BY <2>1, <2>2, <2>3, <2>4, <2>5, <2>6, StillCalm
<1>5. QED BY <1>1, <1>2, <1>3, <1>4 DEF stopSandbox, StopFails

LEMMA ResumeCalm ==
  ASSUME Typed, Calm, calm', NEW r \in Requests, resumeSandbox(r)
  PROVE  Calm'
<1>0. UNCHANGED <<row, snaps, taken, torn>>
  BY DEF resumeSandbox, ResumeBegins, ResumeReads, ResumeCopies, ResumeBoots, ResumeFails
<1>1. CASE ResumeBegins(r)
  <2>1. PICK p \in Principals :
          req' = [req EXCEPT ![r] = [Idle EXCEPT !.pc = "latest", !.who = p, !.name = row.name]]
    BY <1>1 DEF ResumeBegins
  <2>2. calm /\ Quiet /\ vm = "none" /\ UNCHANGED <<vm, base>>
    BY <1>1 DEF ResumeBegins, Quiet
  <2>3. req'[r].pc = "latest" /\ \A q \in Requests : q # r => req'[q] = Idle
    BY <2>1, <2>2 DEF Typed, Idle, Quiet
  <2>4. \A q \in Requests : ~Holds(q) /\ req[q].pc \notin {"purge", "unlist"}
    BY <2>2 DEF Quiet, Idle, Holds
  <2>5. /\ torn = {} /\ (row.status = "archived" => snaps = <<>>)
        /\ snaps = <<>> \/ Last(snaps) = taken
        /\ row.status # "running"
    BY <2>2, <2>4 DEF Calm
  <2>6. InStep(r)' BY <1>0, <2>2, <2>3, <2>5 DEF InStep, Holds
  <2>7. QED BY <1>0, <2>2, <2>3, <2>5, <2>6, StillCalm
<1>2. ASSUME calm, req[r].pc \in {"latest", "restore", "restoring"}
      PROVE  /\ \A q \in Requests : q # r => req[q] = Idle
             /\ torn = {} /\ vm = "none" /\ row.status # "running"
             /\ row.status = "archived" => snaps = <<>>
             /\ snaps = <<>> \/ Last(snaps) = taken
             /\ req[r].pc # "latest" => req[r].snap = taken
             /\ ~Holds(r)
  <2>1. ~Holds(r) BY <1>2 DEF Holds
  <2>2. InStep(r) BY <1>2, Alone
  <2>3. vm = "none" /\ row.status # "running" /\ (req[r].pc # "latest" => req[r].snap = taken)
    BY <1>2, <2>2 DEF InStep
  <2>4. QED BY <1>2, <2>1, <2>3, Alone
<1>3. CASE ResumeReads(r)
  <2>1. req' = [req EXCEPT ![r] = [req[r] EXCEPT !.pc = "restore", !.snap = Latest]]
    BY <1>3 DEF ResumeReads, Typed
  <2>2. /\ req[r] \in Handlers /\ req[r].pc = "latest" /\ calm /\ UNCHANGED <<vm, base>>
        /\ snaps # <<>>
    BY <1>3 DEF ResumeReads, Typed
  <2>3. /\ req'[r].pc = "restore" /\ req'[r].snap = Last(snaps)
        /\ \A q \in Requests : q # r => req'[q] = req[q]
    BY <2>1, <2>2 DEF Typed, Handlers, Latest
  <2>4. InStep(r)' BY <1>0, <1>2, <2>2, <2>3 DEF InStep, Holds
  <2>5. QED BY <1>0, <1>2, <2>2, <2>3, <2>4, StillCalm
<1>4. CASE ResumeCopies(r)
  <2>1. Goto(r, "restoring") /\ req[r].pc = "restore" /\ calm /\ UNCHANGED <<vm, base>>
    BY <1>4 DEF ResumeCopies
  <2>2. /\ req'[r].pc = "restoring" /\ req'[r].snap = req[r].snap
        /\ \A q \in Requests : q # r => req'[q] = req[q]
    BY <2>1, GotoIs
  <2>3. InStep(r)' BY <1>0, <1>2, <2>1, <2>2 DEF InStep, Holds
  <2>4. QED BY <1>0, <1>2, <2>1, <2>2, <2>3, StillCalm
<1>5. CASE ResumeBoots(r)
  <2>1. /\ Goto(r, "upsert") /\ req[r].pc = "restoring" /\ calm
        /\ vm' = "running" /\ base' = req[r].snap
    BY <1>5 DEF ResumeBoots
  <2>2. req'[r].pc = "upsert" /\ \A q \in Requests : q # r => req'[q] = req[q]
    BY <2>1, GotoIs
  <2>3. InStep(r)' BY <2>1, <2>2 DEF InStep, Holds
  <2>4. base' = taken' BY <1>0, <1>2, <2>1
  <2>5. QED BY <1>0, <1>2, <2>1, <2>2, <2>3, <2>4, StillCalm
<1>6. CASE ResumeFails(r)
  <2>1. /\ Respond(r) /\ req[r].pc \in {"latest", "restore", "restoring"} /\ calm
        /\ UNCHANGED <<vm, base>>
    BY <1>6 DEF ResumeFails
  <2>2. QED BY <1>0, <1>2, <2>1, RespondCalm
<1>7. QED BY <1>1, <1>3, <1>4, <1>5, <1>6 DEF resumeSandbox

LEMMA DeleteCalm ==
  ASSUME Typed, FilesInv, Calm, calm', NEW r \in Requests, deleteSandbox(r)
  PROVE  Calm'
<1>1. CASE DeleteKills(r)
  <2>1. PICK p \in Principals : Enter(r, p, "list") BY <1>1 DEF DeleteKills
  <2>2. vm' = "none" /\ UNCHANGED <<base, row, snaps, taken, torn>> BY <1>1 DEF DeleteKills
  <2>3. req'[r].pc = "list" BY <2>1, EnterIs
  <2>4. InStep(r)' BY <2>2, <2>3 DEF InStep, Holds
  <2>5. QED BY <2>1, <2>2, <2>3, <2>4, EnterCalm, StillCalm
<1>2. ASSUME calm, req[r].pc \in {"list", "purge", "unlist"}
      PROVE  /\ \A q \in Requests : q # r => req[q] = Idle
             /\ torn = {} /\ vm = "none"
             /\ row.status = "archived" => snaps = <<>>
             /\ req[r].pc # "list" => snaps = req[r].todo
             /\ req[r].pc = "unlist" => Last(req[r].todo) \notin files
  <2>1. InStep(r) BY <1>2, Alone
  <2>2. /\ vm = "none" /\ (req[r].pc # "list" => snaps = req[r].todo)
        /\ req[r].pc = "unlist" => Last(req[r].todo) \notin files
    BY <1>2, <2>1 DEF InStep
  <2>3. QED BY <1>2, <2>2, Alone
<1>3. CASE DeleteLists(r)
  <2>1. /\ req[r].pc = "list" /\ calm /\ UNCHANGED <<vm, base, row, snaps, taken, torn>>
        /\ req' = [req EXCEPT ![r].pc = "purge", ![r].todo = snaps]
    BY <1>3 DEF DeleteLists
  <2>2. req' = [req EXCEPT ![r] = [req[r] EXCEPT !.pc = "purge", !.todo = snaps]]
    BY <2>1 DEF Typed
  <2>3. req[r] \in Handlers BY DEF Typed
  <2>4. /\ req'[r].pc = "purge" /\ req'[r].todo = snaps
        /\ \A q \in Requests : q # r => req'[q] = req[q]
    BY <2>2, <2>3 DEF Typed, Handlers
  <2>5. InStep(r)' BY <1>2, <2>1, <2>4 DEF InStep, Holds
  <2>6. QED BY <1>2, <2>1, <2>4, <2>5, StillCalm
<1>4. CASE DeleteRemoves(r)
  <2>1. /\ req[r].pc = "purge" /\ calm /\ UNCHANGED <<vm, base, row, snaps, taken, torn>>
        /\ Goto(r, "unlist") /\ files' = files \ {Last(req[r].todo)}
    BY <1>4 DEF DeleteRemoves
  <2>2. /\ req'[r].pc = "unlist" /\ req'[r].todo = req[r].todo
        /\ \A q \in Requests : q # r => req'[q] = req[q]
    BY <2>1, GotoIs
  <2>3. InStep(r)' BY <1>2, <2>1, <2>2 DEF InStep, Holds
  <2>4. QED BY <1>2, <2>1, <2>2, <2>3, StillCalm
<1>5. CASE DeleteUnlists(r)
  <2>1. /\ req[r].pc = "unlist" /\ calm /\ UNCHANGED <<vm, base, row, taken>>
        /\ Delete(Last(req[r].todo)) /\ torn' = torn \ {Last(req[r].todo)}
    <3>1. req[r].pc = "unlist" /\ calm BY <1>5 DEF DeleteUnlists
    <3>2. Last(req[r].todo) \notin files BY <1>2, <3>1
    <3>3. QED BY <1>5, <3>1, <3>2 DEF DeleteUnlists
  <2>2. req' = [req EXCEPT ![r] = [req[r] EXCEPT !.pc = "purge", !.todo = Front(req[r].todo)]]
    BY <1>5 DEF DeleteUnlists, Typed
  <2>3. req[r] \in Handlers BY DEF Typed
  <2>4. /\ req'[r].pc = "purge" /\ req'[r].todo = Front(req[r].todo)
        /\ \A q \in Requests : q # r => req'[q] = req[q]
    BY <2>2, <2>3 DEF Typed, Handlers
  <2>5. snaps = req[r].todo /\ snaps # <<>> /\ snaps \in Seq(Snaps)
    BY <1>2, <2>1 DEF FilesInv, Owned, Typed
  <2>6. Len(snaps) \in 1 .. Len(snaps) /\ Last(snaps) = snaps[Len(snaps)]
        /\ Last(snaps) \in Range(snaps)
    BY <2>5, LastIs
  <2>7. PICK i \in DOMAIN snaps : snaps[i] = Last(snaps) /\ snaps' = RemoveAt(snaps, i)
    BY <2>1, <2>5, <2>6 DEF Delete
  <2>8. i \in 1 .. Len(snaps) BY <2>5, <2>7, LenProperties
  <2>9. i = Len(snaps) BY <2>6, <2>7, <2>8 DEF FilesInv, Past
  <2>10. snaps' = Front(snaps) BY <2>5, <2>7, <2>9, RemoveLast
  <2>11. InStep(r)' BY <1>2, <2>1, <2>4, <2>5, <2>10 DEF InStep, Holds
  <2>12. QED BY <1>2, <2>1, <2>4, <2>5, <2>10, <2>11, StillCalm
<1>6. CASE DeleteArchives(r)
  <2>1. /\ req[r].pc = "purge" /\ req[r].todo = <<>> /\ calm /\ SetStatus("archived")
        /\ Respond(r) /\ UNCHANGED <<vm, base, snaps, taken, torn>>
    BY <1>6 DEF DeleteArchives, Archive
  <2>2. snaps = <<>> /\ vm = "none" BY <1>2, <2>1
  <2>3. row'.status \in {"absent", "archived"} BY <2>1, StatusKeepsRow
  <2>4. ~Holds(r) BY <2>1 DEF Holds
  <2>5. QED BY <2>1, <2>2, <2>3, <2>4, RespondCalm
<1>7. QED BY <1>1, <1>3, <1>4, <1>5, <1>6 DEF deleteSandbox

LEMMA CalmKept ==
  ASSUME Typed, FilesInv, Calm, Next
  PROVE  Calm'
<1> SUFFICES ASSUME calm' PROVE Calm' BY DEF Calm
<1>1. CASE Rename
  <2>1. row'.status = row.status BY <1>1, RenameKeepsRow
  <2>2. UNCHANGED <<vm, base, snaps, files, taken, req, torn, calm>> BY <1>1 DEF Rename
  <2>3. QED BY <2>1, <2>2 DEF Calm, InStep, Holds, Quiet
<1>2. ~Dies /\ ~Crash BY DEF Dies, Crash
<1>3. QED BY <1>1, <1>2, LaunchCalm, StopCalm, ResumeCalm, DeleteCalm DEF Next

-----------------------------------------------------------------------------
(* The invariant.                                                           *)

LEMMA InitHInv == Init => HInv
<1> SUFFICES ASSUME Init PROVE HInv OBVIOUS
<1>1. Typed
  <2>1. 0 \in 0 .. MaxSnaps /\ <<>> \in Seq(Snaps) BY HistoryAssumption
  <2>2. QED BY <2>1, IdleIsHandler DEF Init, Typed, Rows
<1>2. \A r \in Requests : req[r] = Idle BY DEF Init
<1>3. \A r \in Requests : req[r].pc = "idle" /\ req[r].todo = <<>> /\ ~Holds(r)
  BY <1>2 DEF Idle, Holds
<1>4. ActsForOwner BY <1>3 DEF ActsForOwner
<1>5. FilesInv
  BY <1>3, EmptyRange DEF Init, FilesInv, Past, Owned, Leftover, Dangling
<1>6. Calm BY <1>2, <1>3 DEF Init, Calm, InStep, Quiet, NoRow
<1>7. QED BY <1>1, <1>4, <1>5, <1>6 DEF HInv

LEMMA NextHInv == HInv /\ [Next]_vars => HInv'
<1>1. ASSUME HInv, Next PROVE HInv'
  BY <1>1, TypeKept, OwnerKept, FilesKept, CalmKept DEF HInv, FilesInv
<1>2. ASSUME HInv, UNCHANGED vars PROVE HInv'
  <2>1. UNCHANGED <<vm, base, row, snaps, files, taken, req, torn, calm>> BY <1>2 DEF vars
  <2>2. Typed' /\ ActsForOwner' BY <1>2, <2>1 DEF HInv, Typed, ActsForOwner, Authorized
  <2>3. FilesInv'
    BY <1>2, <2>1 DEF HInv, FilesInv, Past, Owned, Holds, Leftover, Dangling
  <2>4. Calm' BY <1>2, <2>1 DEF HInv, Calm, InStep, Holds, Quiet
  <2>5. QED BY <2>2, <2>3, <2>4 DEF HInv
<1>3. QED BY <1>1, <1>2

\* The invariant behind the theorems below: rows, snapshots and files are accounted for by
\* the requests in progress, and a calm history is where its one request has got to.
THEOREM HistoryInvariant == Spec => []HInv
<1>1. QED BY InitHInv, NextHInv, PTL DEF Spec

\* Rows, snapshots and requests keep their types: what RecordSnapshot writes and
\* deleteSandbox removes is always a snapshot that was taken.
THEOREM HistoryTyped == Spec => []TypeOK
<1>1. HInv => TypeOK BY TypedIsTypeOK DEF HInv
<1>2. QED BY <1>1, HistoryInvariant, PTL

\* authorizeSandbox once is enough: at every later step of stop, resume and delete the
\* caller may still act on the sandbox, whoever launched or resumed under its id meanwhile.
THEOREM HandlersActForOwners == Spec => []ActsForOwner
<1>1. HInv => ActsForOwner BY DEF HInv
<1>2. QED BY <1>1, HistoryInvariant, PTL

\* No step takes a row away, gives it to somebody else or makes it nameless (Upsert's
\* ON CONFLICT clause).
THEOREM RowsKeepIdentity == Spec => IdentityKept
<1>1. HInv /\ [Next]_vars =>
        [row # NoRow => /\ row' # NoRow
                        /\ row'.owner = row.owner
                        /\ row.name # Unnamed => row'.name # Unnamed]_vars
  BY NextKeepsRow DEF HInv, RowKept
<1>2. QED BY <1>1, HistoryInvariant, PTL DEF Spec, IdentityKept

\* Whatever stops, resumes, deletes and crashes interleave, a directory without a row and a
\* row without its directory belong to a request in progress, or follow a failed statement,
\* a failed removal of a directory or a crash.
THEOREM NoSnapshotLeaks == Spec => []FilesMatchRows
<1>1. HInv => FilesMatchRows BY FilesInvIsEnough DEF HInv
<1>2. QED BY <1>1, HistoryInvariant, PTL

\* Requests that follow one another and do not fail halfway leave a row that says whether
\* there is a VM, none paused, and nothing behind an archived one (deleteSandbox).
THEOREM RowsTellTheTruth == Spec => []StatusTruthful
<1>1. ASSUME HInv, calm, Quiet
      PROVE  /\ vm # "paused"
             /\ (vm = "running") = (row.status = "running")
             /\ row.status = "archived" => snaps = <<>> /\ files = {}
  <2>1. /\ vm # "paused" /\ (vm = "running") = (row.status = "running")
        /\ torn = {} /\ (row.status = "archived" => snaps = <<>>)
    BY <1>1 DEF HInv, Calm
  <2>2. \A r \in Requests : ~Holds(r) BY <1>1 DEF Quiet, Holds, Idle
  <2>3. snaps = <<>> => files = {}
    BY <1>1, <2>1, <2>2, EmptyRange DEF HInv, FilesInv, Leftover
  <2>4. QED BY <2>1, <2>3
<1>2. HInv => StatusTruthful BY <1>1 DEF StatusTruthful
<1>3. QED BY <1>2, HistoryInvariant, PTL

\* Then resumeSandbox brings back the state captured last, never an older one.
THEOREM NewestIsResumed == Spec => []ResumesNewest
<1>1. HInv => ResumesNewest BY DEF HInv, Calm, ResumesNewest
<1>2. QED BY <1>1, HistoryInvariant, PTL
=============================================================================
