------------------------------ MODULE GuestExec ------------------------------
(***************************************************************************)
(* One Exec call end to end: Client.Exec (internal/gateway/vsockclient.go),*)
(* the framed stream (internal/protocol) and the guest agent's handleConn, *)
(* runScript and streamWriter (cmd/guest-agent).  The guest side is four   *)
(* actors: the connection handler, the goroutine with which os/exec copies *)
(* the output pipe, the script, and what the script left in the background.*)
(* All four stand still while the microVM is paused.                       *)
(* Output is counted in units; a frame carries up to Chunk of them.        *)
(***************************************************************************)
EXTENDS Naturals, Sequences, FiniteSetsExt

CONSTANTS
  Requests,     \* what the host asks for, a subset of AllRequests
  RetryMax,     \* Config.RetryMax
  MaxOutput,    \* config.MaxOutput; 0 is no cap
  Chunk,        \* config.ChunkSize
  PipeCap,      \* capacity of the script's output pipe
  WireCap,      \* frames the connection buffers
  MaxProduced   \* bound: output of a script

AllRequests == {"exec", "empty", "ping", "unknown", "too large"}

ASSUME ExecAssumption ==
  /\ Requests \subseteq AllRequests
  /\ {RetryMax, MaxOutput, MaxProduced} \subseteq Nat
  /\ {Chunk, PipeCap, WireCap} \subseteq Nat \ {0}

VARIABLES
  request,  \* the request of this call
  frozen,   \* is the microVM paused?
  host,     \* Exec: step, failed attempts, what it returned
  ctxDone,  \* is the caller's context cancelled?
  conn,     \* "none", "open", "host closed" or "guest closed"
  inbox,    \* has the request reached the guest's end?
  wire,     \* frames on their way to the host
  seen,     \* what onFrame was given: units of output, truncation notice, last frame
  handler,  \* handleConn and runScript: step, and the outcome to report
  gctx,     \* the script's context: "live", "deadline" or "stopped"
  proc,     \* the script: "none", "running", "exit 0", "exit 1" or "killed"
  stray,    \* a background child holding the pipe: "none", "group" or "escaped"
  pipe,     \* units in the pipe, and whether its read end is open
  copier,   \* the copying goroutine: step, and units of the current Write to send
  sw,       \* streamWriter: units written, truncated
  waitErr,  \* what spoils Wait of a script that exited 0: WaitDelay, copy error
  produced, \* ghost: units the script's processes wrote
  runs      \* ghost: how often the script was started

hostVars == <<host, ctxDone, seen>>
procVars == <<proc, stray, produced>>
copyVars == <<pipe, copier, sw, waitErr>>
vars == <<request, frozen, hostVars, conn, inbox, wire, handler, gctx, procVars, copyVars, runs>>

Output(n) == [kind |-> "output", units |-> n]
Notice == [kind |-> "notice", units |-> 0]
Final(kind) == [kind |-> kind, units |-> 0]
TerminalKinds == {"exit 0", "exit 1", "error", "pong"}

Init ==
  /\ request \in Requests /\ frozen = FALSE
  /\ host = [pc |-> "dial", attempt |-> 0, result |-> "none"]
  /\ ctxDone = FALSE
  /\ conn = "none" /\ inbox = FALSE /\ wire = <<>>
  /\ seen = [units |-> 0, notice |-> FALSE, last |-> "none"]
  /\ handler = [pc |-> "none", outcome |-> "none"]
  /\ gctx = "live"
  /\ proc = "none" /\ stray = "none" /\ produced = 0
  /\ pipe = [units |-> 0, open |-> FALSE]
  /\ copier = [pc |-> "done", left |-> 0]
  /\ sw = [written |-> 0, truncated |-> FALSE]
  /\ waitErr = {} /\ runs = 0

-----------------------------------------------------------------------------
(* The host: dialWithRetry, then one request and the frames that answer it. *)

Returns(result) == host' = [host EXCEPT !.pc = "returned", !.result = result]
CtxErrOr(result) == IF ctxDone THEN "cancelled" ELSE result

\* The guest answers the handshake within its deadline, so it runs.
DialSucceeds ==
  /\ host.pc = "dial" /\ ~ctxDone /\ ~frozen
  /\ host' = [host EXCEPT !.pc = "send"]
  /\ conn' = "open" /\ inbox' = FALSE /\ wire' = <<>>
  /\ handler' = [pc |-> "read", outcome |-> "none"]
  /\ UNCHANGED <<request, frozen, ctxDone, seen, gctx, procVars, copyVars, runs>>

\* A dial or a handshake fails.  A handler the guest may have started for it reads
\* end of file and returns.
DialFails ==
  /\ host.pc = "dial"
  /\ IF host.attempt < RetryMax THEN host' = [host EXCEPT !.attempt = @ + 1]
                                ELSE Returns("gave up")
  /\ UNCHANGED <<request, frozen, ctxDone, conn, inbox, wire, seen, handler, gctx, procVars,
                 copyVars, runs>>

\* The context ends the backoff between two attempts.
DialCancelled ==
  /\ host.pc = "dial" /\ host.attempt > 0 /\ ctxDone
  /\ Returns("cancelled")
  /\ UNCHANGED <<request, frozen, ctxDone, conn, inbox, wire, seen, handler, gctx, procVars,
                 copyVars, runs>>

SendRequest ==
  /\ host.pc = "send" /\ conn = "open" /\ request # "too large"
  /\ host' = [host EXCEPT !.pc = "receive"]
  /\ inbox' = TRUE
  /\ UNCHANGED <<request, frozen, ctxDone, conn, wire, seen, handler, gctx, procVars,
                 copyVars, runs>>

\* Exec closes the connection whenever it returns.
HangUp == conn' = IF conn = "open" THEN "host closed" ELSE conn

SendFails ==
  /\ host.pc = "send" /\ (conn # "open" \/ request = "too large")
  /\ Returns(CtxErrOr("send failed"))
  /\ HangUp
  /\ UNCHANGED <<request, frozen, ctxDone, inbox, wire, seen, handler, gctx, procVars,
                 copyVars, runs>>

ReceiveFrame ==
  /\ host.pc = "receive" /\ wire # <<>>
  /\ LET frame == Head(wire) IN
       /\ seen' = [units |-> seen.units + frame.units,
                   notice |-> seen.notice \/ frame.kind = "notice",
                   last |-> frame.kind]
       /\ IF frame.kind \in TerminalKinds THEN Returns(frame.kind) /\ HangUp
                                          ELSE UNCHANGED <<host, conn>>
  /\ wire' = Tail(wire)
  /\ UNCHANGED <<request, frozen, ctxDone, inbox, handler, gctx, procVars, copyVars, runs>>

\* Faulty: a connection lost after the request went out is dialled again.
ReceiveFails_Retries ==
  /\ host.pc = "receive"
  /\ conn = "host closed" \/ (conn = "guest closed" /\ wire = <<>>)
  /\ IF ctxDone THEN Returns("cancelled") ELSE host' = [host EXCEPT !.pc = "dial"]
  /\ UNCHANGED <<request, frozen, ctxDone, conn, inbox, wire, seen, handler, gctx, procVars,
                 copyVars, runs>>

\* ReadMessage fails: end of file, or the connection was closed under it.
ReceiveFails ==
  /\ host.pc = "receive"
  /\ conn = "host closed" \/ (conn = "guest closed" /\ wire = <<>>)
  /\ Returns(CtxErrOr("lost"))
  /\ UNCHANGED <<request, frozen, ctxDone, conn, inbox, wire, seen, handler, gctx, procVars,
                 copyVars, runs>>

Cancel ==
  /\ ~ctxDone /\ host.pc # "returned"
  /\ ctxDone' = TRUE
  /\ UNCHANGED <<request, frozen, host, conn, inbox, wire, seen, handler, gctx, procVars,
                 copyVars, runs>>

\* context.AfterFunc: the connection is closed, concurrently with Exec.
CancelCloses ==
  /\ ctxDone /\ host.pc \in {"send", "receive"} /\ conn # "host closed"
  /\ conn' = "host closed"
  /\ UNCHANGED <<request, frozen, hostVars, inbox, wire, handler, gctx, procVars, copyVars,
                 runs>>

-----------------------------------------------------------------------------
(* The guest's handler.                                                     *)

\* FrameWriter.Write by the guest: it waits for room, and fails on a connection the
\* host has closed.
Room == conn # "open" \/ Len(wire) < WireCap
Write(frame) == wire' = IF conn = "open" THEN Append(wire, frame) ELSE wire

HandlerReturns == /\ handler' = [handler EXCEPT !.pc = "done"]
                  /\ conn' = IF conn = "open" THEN "guest closed" ELSE conn

\* The request arrives: what is not a script, and a script that cannot be started, is
\* answered at once.
HandleRequest ==
  /\ handler.pc = "read" /\ inbox
  /\ \/ /\ request = "exec"
        /\ handler' = [handler EXCEPT !.pc = "run"]
        /\ proc' = "running" /\ runs' = runs + 1
        /\ pipe' = [units |-> 0, open |-> TRUE]
        /\ copier' = [pc |-> "reading", left |-> 0]
     \/ /\ handler' = [pc |-> "final", outcome |-> IF request = "ping" THEN "pong" ELSE "error"]
        /\ UNCHANGED <<proc, runs, pipe, copier>>
  /\ UNCHANGED <<request, frozen, hostVars, conn, inbox, wire, gctx, stray, produced, sw,
                 waitErr>>

\* End of file, or the 15 s read deadline passes before the request is there.
HandlerGivesUp ==
  /\ handler.pc = "read" /\ ~inbox
  /\ HandlerReturns
  /\ UNCHANGED <<request, frozen, hostVars, inbox, wire, gctx, procVars, copyVars, runs>>

Kill == /\ proc' = IF proc = "running" THEN "killed" ELSE proc
        /\ stray' = IF proc = "running" /\ stray = "group" THEN "none" ELSE stray

\* The timeout, or the agent's shutdown.  cmd.Cancel kills the process group, unless
\* the script has exited by then.
ContextEnds(why) ==
  /\ handler.pc \in {"run", "notice", "final"} /\ runs > 0 /\ gctx = "live"
  /\ gctx' = why
  /\ Kill
  /\ UNCHANGED <<request, frozen, hostVars, conn, inbox, wire, handler, produced, copyVars,
                 runs>>

Deadline == ContextEnds("deadline")
AgentStops == ContextEnds("stopped")

\* Faulty: WaitDelay is left unset.
DelayFires_Unset == FALSE /\ UNCHANGED vars

\* WaitDelay after the script ended, Wait closes the pipe under the copying goroutine.
DelayFires ==
  /\ handler.pc = "run" /\ proc # "running" /\ copier.pc # "done" /\ pipe.open
  /\ pipe' = [units |-> 0, open |-> FALSE]
  /\ waitErr' = waitErr \cup {"delay"}
  /\ UNCHANGED <<request, frozen, hostVars, conn, inbox, wire, handler, gctx, procVars,
                 copier, sw, runs>>

Outcome == IF proc = "exit 0" THEN (IF waitErr = {} THEN "exit 0" ELSE "error") ELSE "exit 1"

\* Faulty: the rest of the group is left alone.
WaitReturns_NoReap ==
  /\ handler.pc = "run" /\ proc # "running" /\ copier.pc = "done"
  /\ handler' = [pc |-> IF sw.truncated THEN "notice" ELSE "final", outcome |-> Outcome]
  /\ UNCHANGED <<request, frozen, hostVars, conn, inbox, wire, gctx, procVars, copyVars,
                 runs>>

\* Faulty: an error of Wait that is no ExitError counts as success.
WaitReturns_AnyErrorIsZero ==
  /\ handler.pc = "run" /\ proc # "running" /\ copier.pc = "done"
  /\ handler' = [pc |-> IF sw.truncated THEN "notice" ELSE "final",
                 outcome |-> IF proc = "exit 0" THEN "exit 0" ELSE "exit 1"]
  /\ stray' = IF stray = "group" THEN "none" ELSE stray
  /\ UNCHANGED <<request, frozen, hostVars, conn, inbox, wire, gctx, proc, produced,
                 copyVars, runs>>

\* cmd.Wait returns once the script ended and the copying goroutine is done; what is
\* left of the process group is killed.
WaitReturns ==
  /\ handler.pc = "run" /\ proc # "running" /\ copier.pc = "done"
  /\ handler' = [pc |-> IF sw.truncated THEN "notice" ELSE "final", outcome |-> Outcome]
  /\ stray' = IF stray = "group" THEN "none" ELSE stray
  /\ UNCHANGED <<request, frozen, hostVars, conn, inbox, wire, gctx, proc, produced,
                 copyVars, runs>>

SendNotice ==
  /\ handler.pc = "notice" /\ Room
  /\ Write(Notice)
  /\ handler' = [handler EXCEPT !.pc = "final"]
  /\ UNCHANGED <<request, frozen, hostVars, conn, inbox, gctx, procVars, copyVars, runs>>

SendFinal ==
  /\ handler.pc = "final" /\ Room
  /\ Write(Final(IF gctx = "deadline" THEN "error" ELSE handler.outcome))
  /\ HandlerReturns
  /\ UNCHANGED <<request, frozen, hostVars, inbox, gctx, procVars, copyVars, runs>>

HandlerStep == \/ HandleRequest \/ HandlerGivesUp \/ DelayFires \/ WaitReturns
               \/ SendNotice \/ SendFinal

-----------------------------------------------------------------------------
(* The script and its children.                                             *)

Writers == proc = "running" \/ stray # "none"

\* A write blocks on a full pipe, and kills its writer when nobody reads any more.
ScriptWrites ==
  /\ Writers /\ produced < MaxProduced
  /\ \/ /\ pipe.open /\ pipe.units < PipeCap
        /\ pipe' = [pipe EXCEPT !.units = @ + 1]
        /\ produced' = produced + 1
        /\ UNCHANGED <<proc, stray>>
     \/ /\ ~pipe.open /\ proc = "running"
        /\ proc' = "exit 1"
        /\ UNCHANGED <<stray, pipe, produced>>
     \/ /\ ~pipe.open /\ stray # "none"
        /\ stray' = "none"
        /\ UNCHANGED <<proc, pipe, produced>>
  /\ UNCHANGED <<request, frozen, hostVars, conn, inbox, wire, handler, gctx, copier, sw,
                 waitErr, runs>>

\* A child goes to the background, in the script's process group or out of it.
ScriptForks ==
  /\ proc = "running" /\ stray = "none"
  /\ stray' \in {"group", "escaped"}
  /\ UNCHANGED <<request, frozen, hostVars, conn, inbox, wire, handler, gctx, proc, produced,
                 copyVars, runs>>

ScriptExits ==
  /\ \/ proc = "running" /\ proc' \in {"exit 0", "exit 1"} /\ UNCHANGED stray
     \/ stray # "none" /\ stray' = "none" /\ UNCHANGED proc
  /\ UNCHANGED <<request, frozen, hostVars, conn, inbox, wire, handler, gctx, produced,
                 copyVars, runs>>

\* StopWithSnapshot pauses the microVM.  It ends it afterwards, but a snapshot that fails
\* leaves the guest paused with its connections open, and nothing resumes it.
VmPauses ==
  /\ ~frozen
  /\ frozen' = TRUE
  /\ UNCHANGED <<request, hostVars, conn, inbox, wire, handler, gctx, procVars, copyVars, runs>>

\* The microVM dies under the call, or is terminated.
VmDies ==
  /\ handler.pc \in {"read", "run", "notice", "final"}
  /\ HandlerReturns
  /\ proc' = "none" /\ stray' = "none"
  /\ copier' = [pc |-> "done", left |-> 0]
  /\ pipe' = [units |-> 0, open |-> FALSE]
  /\ UNCHANGED <<request, frozen, hostVars, inbox, wire, gctx, produced, sw, waitErr, runs>>

-----------------------------------------------------------------------------
(* The copying goroutine: io.Copy into streamWriter.Write.                  *)

\* Faulty: the cap is compared with what was written before.
Clip_Late(n) ==
  IF sw.truncated THEN [units |-> 0, truncated |-> TRUE]
  ELSE IF MaxOutput > 0 /\ sw.written > MaxOutput
       THEN [units |-> 0, truncated |-> TRUE]
       ELSE [units |-> n, truncated |-> FALSE]

\* How much of a Write of n units is forwarded, and is the cap passed?
Clip(n) ==
  IF sw.truncated THEN [units |-> 0, truncated |-> TRUE]
  ELSE IF MaxOutput > 0 /\ sw.written + n > MaxOutput
       THEN [units |-> MaxOutput - sw.written, truncated |-> TRUE]
       ELSE [units |-> n, truncated |-> FALSE]

CopyReads ==
  /\ copier.pc = "reading" /\ pipe.open
  /\ \E n \in 1 .. pipe.units :
       LET clip == Clip(n) IN
       /\ pipe' = [pipe EXCEPT !.units = @ - n]
       /\ copier' = [pc |-> IF clip.units > 0 THEN "writing" ELSE "reading",
                     left |-> clip.units]
       /\ sw' = [sw EXCEPT !.truncated = clip.truncated]
  /\ UNCHANGED <<request, frozen, hostVars, conn, inbox, wire, handler, gctx, procVars,
                 waitErr, runs>>

\* Faulty: the last chunk is not cut to what is left.
NextChunk_Whole == Chunk

NextChunk == Min({copier.left, Chunk})

CopyWrites ==
  /\ copier.pc = "writing" /\ conn = "open" /\ Len(wire) < WireCap
  /\ Write(Output(NextChunk))
  /\ sw' = [sw EXCEPT !.written = @ + NextChunk]
  /\ copier' = [pc |-> IF copier.left > NextChunk THEN "writing" ELSE "reading",
                left |-> copier.left - NextChunk]
  /\ UNCHANGED <<request, frozen, hostVars, conn, inbox, handler, gctx, procVars, pipe,
                 waitErr, runs>>

\* A failed write ends the copy, and os/exec closes the read end.
CopyFails ==
  /\ copier.pc = "writing" /\ conn # "open"
  /\ copier' = [pc |-> "done", left |-> 0]
  /\ pipe' = [units |-> 0, open |-> FALSE]
  /\ waitErr' = waitErr \cup {"copy"}
  /\ UNCHANGED <<request, frozen, hostVars, conn, inbox, wire, handler, gctx, procVars, sw,
                 runs>>

\* End of file, or the pipe was closed by WaitDelay.
CopyEnds ==
  /\ copier.pc = "reading"
  /\ ~pipe.open \/ (pipe.units = 0 /\ ~Writers)
  /\ copier' = [copier EXCEPT !.pc = "done"]
  /\ pipe' = [pipe EXCEPT !.open = FALSE]
  /\ UNCHANGED <<request, frozen, hostVars, conn, inbox, wire, handler, gctx, procVars, sw,
                 waitErr, runs>>

CopyStep == CopyReads \/ CopyWrites \/ CopyFails \/ CopyEnds

-----------------------------------------------------------------------------
HostStep == \/ DialSucceeds \/ DialFails \/ DialCancelled \/ SendRequest \/ SendFails
            \/ ReceiveFrame \/ ReceiveFails

\* Nothing in a paused guest moves, its timers neither.
GuestStep == \/ HandlerStep \/ Deadline \/ AgentStops \/ CopyStep
             \/ ScriptWrites \/ ScriptForks \/ ScriptExits

Next ==
  \/ HostStep \/ Cancel \/ CancelCloses
  \/ ~frozen /\ GuestStep
  \/ VmPauses \/ VmDies

Spec == Init /\ [][Next]_vars

\* Goroutines run and timers fire, those of the guest as long as it is not paused; a Ping
\* has a deadline of its own.  The script, its children, the context of an Exec and the
\* microVM owe nothing.
Fairness ==
  /\ WF_vars(HostStep) /\ WF_vars(CancelCloses) /\ WF_vars(request = "ping" /\ Cancel)
  /\ WF_vars(~frozen /\ HandlerStep) /\ WF_vars(~frozen /\ Deadline)
  /\ WF_vars(~frozen /\ CopyStep)

FairSpec == Spec /\ Fairness

-----------------------------------------------------------------------------
(* Properties.                                                              *)

\* Every variable has its type; the units of a Write never exceed what the pipe holds.
TypeOK ==
  /\ request \in Requests /\ frozen \in BOOLEAN
  /\ host \in [pc : {"dial", "send", "receive", "returned"}, attempt : 0 .. RetryMax,
               result : TerminalKinds \cup {"none", "gave up", "cancelled", "send failed", "lost"}]
  /\ ctxDone \in BOOLEAN
  /\ conn \in {"none", "open", "host closed", "guest closed"}
  /\ inbox \in BOOLEAN
  /\ wire \in Seq([kind : TerminalKinds \cup {"output", "notice"}, units : 0 .. Chunk])
  /\ seen \in [units : Nat, notice : BOOLEAN,
               last : TerminalKinds \cup {"none", "output", "notice"}]
  /\ handler \in [pc : {"none", "read", "run", "notice", "final", "done"},
                  outcome : TerminalKinds \cup {"none"}]
  /\ gctx \in {"live", "deadline", "stopped"}
  /\ proc \in {"none", "running", "exit 0", "exit 1", "killed"}
  /\ stray \in {"none", "group", "escaped"}
  /\ pipe \in [units : 0 .. PipeCap, open : BOOLEAN]
  /\ copier \in [pc : {"reading", "writing", "done"}, left : 0 .. PipeCap]
  /\ sw \in [written : Nat, truncated : BOOLEAN]
  /\ waitErr \subseteq {"delay", "copy"}
  /\ produced \in 0 .. MaxProduced
  /\ runs \in Nat

\* A request is executed at most once: the retries of dialWithRetry all come before it
\* is sent, and neither a lost connection nor a cancelled call sends it again.
RunsOnce == runs <= 1

\* The caller is never handed more of the script's output than the agent's cap, however the
\* script's writes and the chunks fall around it.  Units are bytes the script wrote: the way
\* through a JSON string (guest_agent.go:309, protocol.go:103) replaces each byte that is not
\* valid UTF-8, and a character split between two chunks, by U+FFFD, so the text the caller
\* holds may be longer; the notice counts 0.
OutputCapped == MaxOutput > 0 => seen.units <= MaxOutput

\* An Exec that reports exit code 0 has delivered all the output there was, up to the
\* cap, and the truncation notice exactly when some was cut.  Units as in OutputCapped: no
\* byte is missing, but bytes that are not UTF-8 within their chunk arrive as U+FFFD.
ZeroMeansComplete ==
  host.result = "exit 0" =>
    /\ seen.units = (IF MaxOutput > 0 THEN Min({produced, MaxOutput}) ELSE produced)
    /\ seen.notice <=> (seen.units < produced)

\* No process of the script's group outlives its handler, whether the script exits, is
\* killed, loses its reader or leaves children behind.
NoStragglers == handler.pc = "done" => proc # "running" /\ stray # "group"

\* Exec sets no deadline on its reads, and returns all the same: the agent's timeout and
\* WaitDelay end every script, also one whose children keep the pipe open for ever, and the
\* retries of a dial end.  Only a guest that is left paused keeps it waiting, until the caller
\* cancels; never a Ping, nor a call that has not got through.
ExecReturns ==
  \/ <>(host.pc = "returned")
  \/ <>[](frozen /\ ~ctxDone /\ host.pc = "receive" /\ request # "ping")
=============================================================================
