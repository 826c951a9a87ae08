------------------------------- MODULE Terminal -------------------------------
(***************************************************************************)
(* Terminal sessions (terminalProxy.serve in internal/gateway) over the    *)
(* human-in-the-loop gate.  A session is two goroutines: a reader that     *)
(* owns the WebSocket and offers each frame on an unbuffered channel, and  *)
(* the main loop that takes a frame, waits for approval where one is       *)
(* needed and runs the script.  The reader closes done when a read fails;  *)
(* a third goroutine (ctxUntilDone) turns that into a cancelled context.   *)
(***************************************************************************)
EXTENDS HitlGate, Sequences

CONSTANTS
  Sessions,
  MaxFrames    \* bound: frames a browser sends

ASSUME MaxFramesAssumption == MaxFrames \in Nat

\* What a frame is to the main loop: not a request, or a script that Classify
\* calls benign or sensitive.
Frames == {"invalid", "benign", "sensitive"}

VARIABLES
  alive,      \* is the browser connected?
  sock,       \* frames sent and not yet read
  sent,       \* how many frames were sent
  reader,     \* the reader: "reading", "gone" (done is closed) or the frame it offers
  session,    \* the main loop: step, frame and approval at hand
  cancelled   \* is the context of the wait or exec at hand cancelled?

sessionVars == <<alive, sock, sent, reader, session, cancelled>>
vars == <<gateVars, sessionVars>>

Idle == [pc |-> "select", frame |-> "invalid", approval |-> NoApproval]

Init ==
  /\ InitGate
  /\ alive = [s \in Sessions |-> TRUE]
  /\ sock = [s \in Sessions |-> <<>>]
  /\ sent = [s \in Sessions |-> 0]
  /\ reader = [s \in Sessions |-> "reading"]
  /\ session = [s \in Sessions |-> Idle]
  /\ cancelled = [s \in Sessions |-> FALSE]

Done(s) == reader[s] = "gone"

-----------------------------------------------------------------------------
(* The browser and the reader goroutine.                                    *)

BrowserSends(s) == \E f \in Frames :
  /\ alive[s] /\ sent[s] < MaxFrames
  /\ sock' = [sock EXCEPT ![s] = Append(@, f)]
  /\ sent' = [sent EXCEPT ![s] = @ + 1]
  /\ UNCHANGED <<gateVars, alive, reader, session, cancelled>>

BrowserLeaves(s) ==
  /\ alive[s]
  /\ alive' = [alive EXCEPT ![s] = FALSE]
  /\ UNCHANGED <<gateVars, sock, sent, reader, session, cancelled>>

\* ReadMessage returns a frame; the reader then blocks until the main loop takes it.
ReaderReads(s) ==
  /\ reader[s] = "reading" /\ sock[s] # <<>>
  /\ reader' = [reader EXCEPT ![s] = Head(sock[s])]
  /\ sock' = [sock EXCEPT ![s] = Tail(@)]
  /\ UNCHANGED <<gateVars, alive, sent, session, cancelled>>

\* ReadMessage fails, close(done).
ReaderFails(s) ==
  /\ reader[s] = "reading" /\ sock[s] = <<>> /\ ~alive[s]
  /\ reader' = [reader EXCEPT ![s] = "gone"]
  /\ UNCHANGED <<gateVars, alive, sock, sent, session, cancelled>>

\* ctxUntilDone's goroutine sees done and cancels the context.
WatcherCancels(s) ==
  /\ Done(s) /\ session[s].pc \in {"wait", "exec", "running"} /\ ~cancelled[s]
  /\ cancelled' = [cancelled EXCEPT ![s] = TRUE]
  /\ UNCHANGED <<gateVars, alive, sock, sent, reader, session>>

-----------------------------------------------------------------------------
(* The main loop.                                                           *)

Move(s, pc) == session' = [session EXCEPT ![s].pc = pc]

\* The loop starts over.
Again(s) == session' = [session EXCEPT ![s] = Idle]

Fresh(a) == rec[a] = "none" /\ \A s \in Sessions : session[s].approval # a

\* A frame is received.  An invalid one, and one the rate limiter refuses, is
\* answered with an error; a failing rate limiter lets the frame through.
TakeFrame(s) ==
  /\ session[s].pc = "select" /\ reader[s] \in Frames
  /\ \/ UNCHANGED session
     \/ /\ reader[s] = "benign"
        /\ session' = [session EXCEPT ![s] = [Idle EXCEPT !.pc = "exec", !.frame = "benign"]]
     \/ /\ reader[s] = "sensitive"
        /\ \E a \in Approvals :
             /\ Fresh(a)
             /\ session' = [session EXCEPT ![s] =
                              [pc |-> "submit", frame |-> "sensitive", approval |-> a]]
  /\ reader' = [reader EXCEPT ![s] = "reading"]
  /\ UNCHANGED <<gateVars, alive, sock, sent, cancelled>>

SessionEnds(s) ==
  /\ session[s].pc = "select" /\ Done(s)
  /\ Move(s, "ended")
  /\ UNCHANGED <<gateVars, alive, sock, sent, reader, cancelled>>

\* Faulty: the id is added to the set before its record exists.
SubmitCommand_SetLast(s) ==
  /\ \/ session[s].pc = "submit" /\ SubmitAdd(session[s].approval) /\ Move(s, "add")
     \/ session[s].pc = "add" /\ SubmitSet(session[s].approval) /\ Move(s, "expire")
     \/ session[s].pc = "expire" /\ SubmitExpire /\ Move(s, "wait")
  /\ UNCHANGED <<alive, sock, sent, reader, cancelled>>

\* gate.Submit, command by command.
SubmitCommand(s) ==
  /\ \/ session[s].pc = "submit" /\ SubmitSet(session[s].approval) /\ Move(s, "add")
     \/ session[s].pc = "add" /\ SubmitAdd(session[s].approval) /\ Move(s, "expire")
     \/ session[s].pc = "expire" /\ SubmitExpire /\ Move(s, "wait")
  /\ UNCHANGED <<alive, sock, sent, reader, cancelled>>

\* Submit fails part way; the session goes on without the approval.
SubmitFails(s) ==
  /\ session[s].pc \in {"submit", "add", "expire"}
  /\ Again(s)
  /\ UNCHANGED <<gateVars, alive, sock, sent, reader, cancelled>>

\* Faulty: a record that is gone counts as decided.
PollApproved_OnMissing(s) ==
  /\ session[s].pc = "wait" /\ ~cancelled[s]
  /\ rec[session[s].approval] \in {"approved", "none", "expired"}
  /\ Move(s, "exec")
  /\ UNCHANGED <<gateVars, alive, sock, sent, reader, cancelled>>

\* WaitForDecision polls and finds the approval.
\* A pending record, or a GET that fails, leaves the session waiting.
PollApproved(s) ==
  /\ session[s].pc = "wait" /\ ~cancelled[s]
  /\ rec[session[s].approval] = "approved"
  /\ Move(s, "exec")
  /\ UNCHANGED <<gateVars, alive, sock, sent, reader, cancelled>>

\* Faulty: an expired record is waited for.
PollRejected_NoExpiry(s) ==
  /\ session[s].pc = "wait" /\ ~cancelled[s]
  /\ rec[session[s].approval] = "rejected"
  /\ Again(s)
  /\ UNCHANGED <<gateVars, alive, sock, sent, reader, cancelled>>

\* Rejected, or expired: an implicit reject.
PollRejected(s) ==
  /\ session[s].pc = "wait" /\ ~cancelled[s]
  /\ rec[session[s].approval] \in {"rejected", "none", "expired"}
  /\ Again(s)
  /\ UNCHANGED <<gateVars, alive, sock, sent, reader, cancelled>>

\* Faulty: any error of the wait ends the session.
WaitCancelled_AnyError(s) ==
  /\ session[s].pc = "wait"
  /\ Move(s, "ended")
  /\ UNCHANGED <<gateVars, alive, sock, sent, reader, cancelled>>

\* The wait returns because its context is cancelled: the session ends.
WaitCancelled(s) ==
  /\ session[s].pc = "wait" /\ cancelled[s]
  /\ Move(s, "ended")
  /\ UNCHANGED <<gateVars, alive, sock, sent, reader, cancelled>>

\* client.Exec sends the request to the guest.  A context cancelled after the dial
\* closes the connection concurrently, so the request may still go out.
ExecSends(s) ==
  /\ session[s].pc = "exec"
  /\ Move(s, "running")
  /\ UNCHANGED <<gateVars, alive, sock, sent, reader, cancelled>>

\* Exec returns: exit frame, error, or cancelled before or after the request left.
ExecReturns(s) ==
  /\ session[s].pc \in {"exec", "running"}
  /\ Again(s)
  /\ UNCHANGED <<gateVars, alive, sock, sent, reader, cancelled>>

-----------------------------------------------------------------------------
ReaderStep(s) == ReaderReads(s) \/ ReaderFails(s)

WaitStep(s) == PollApproved(s) \/ PollRejected(s) \/ WaitCancelled(s)

MainStep(s) ==
  \/ TakeFrame(s) \/ SessionEnds(s) \/ SubmitCommand(s) \/ SubmitFails(s)
  \/ WaitStep(s) \/ ExecSends(s) \/ ExecReturns(s)

Next ==
  \/ \E s \in Sessions : \/ BrowserSends(s) \/ BrowserLeaves(s)
                         \/ ReaderStep(s) \/ WatcherCancels(s) \/ MainStep(s)
  \/ GateStep /\ UNCHANGED sessionVars

Spec == Init /\ [][Next]_vars

\* Goroutines are scheduled, the poll ticker ticks and Redis expires keys.
\* No operator has to decide anything and no browser has to send or leave.
Fairness ==
  /\ \A s \in Sessions :
       WF_vars(ReaderStep(s)) /\ WF_vars(WatcherCancels(s)) /\ WF_vars(MainStep(s))
  /\ \A a \in Approvals : WF_vars(RecordExpires(a) /\ UNCHANGED sessionVars)

FairSpec == Spec /\ Fairness

-----------------------------------------------------------------------------
(* Properties.                                                              *)

\* Every variable has its type.
TypeOK ==
  /\ GateTypeOK
  /\ alive \in [Sessions -> BOOLEAN]
  /\ sock \in [Sessions -> Seq(Frames)]
  /\ sent \in [Sessions -> 0 .. MaxFrames]
  /\ reader \in [Sessions -> Frames \cup {"reading", "gone"}]
  /\ session \in [Sessions -> [pc : {"select", "submit", "add", "expire", "wait", "exec",
                                    "running", "ended"},
                              frame : Frames, approval : Approvals \cup {NoApproval}]]
  /\ cancelled \in [Sessions -> BOOLEAN]

\* A sensitive script is on its way to the guest only if somebody approved it: no
\* timeout, expiry, failed poll, lost pipeline or disconnect lets it through.
ApprovedBeforeRun ==
  \A s \in Sessions :
    session[s].frame = "sensitive" /\ session[s].pc \in {"exec", "running"}
      => session[s].approval \in granted

\* A session that ended left no goroutine behind: its reader has returned.
NoReaderLeak == \A s \in Sessions : session[s].pc = "ended" => Done(s)

\* The self-healing of Pending never removes an approval that is still pending,
\* although it looks at the record and removes the id in two commands.
HealSparesPending ==
  [][healer # NoApproval /\ healer' = NoApproval => rec[healer] # "pending"]_vars

\* A session does not wait for ever: a decision, the TTL of the record or the loss of
\* the browser ends every wait, also when nobody ever decides.
WaitEnds == \A s \in Sessions : session[s].pc = "wait" ~> session[s].pc # "wait"

\* gate.go:141-142, "Decide atomically transitions a pending approval ... First writer
\* wins": a decision that was written is not replaced by another one.
FirstWriterWins ==
  [][\A a \in Approvals : rec[a] \in Decisions => rec'[a] \in {rec[a], "expired"}]_vars

-----------------------------------------------------------------------------
(* The contract.                                                            *)

At(s) ==
  CASE session[s].pc \in {"submit", "add", "expire", "wait"} -> "held"
    [] session[s].pc \in {"exec", "running"} /\ session[s].frame = "sensitive" -> "released"
    [] session[s].pc \in {"exec", "running"} /\ session[s].frame # "sensitive" -> "benign"
    [] OTHER -> "idle"

Desk == [s \in Sessions |->
  [at |-> At(s),
   approval |-> IF At(s) \in {"held", "released"} THEN session[s].approval ELSE NoApproval]]

\* Asked for: somebody has it at hand, or its record was written.
Used == {a \in Approvals : rec[a] # "none" \/ \E s \in Sessions : Desk[s].approval = a}

Contract == INSTANCE ApprovalContract WITH desk <- Desk, used <- Used

\* Sessions over the gate keep the contract, with every command of a pipeline, poll, expiry
\* and disconnect interleaved: no command is released but under its own, granted approval,
\* and no approval releases two, also when Decide is called twice or after the session left.
KeepsContract == Contract!Spec
=============================================================================
