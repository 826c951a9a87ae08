--------------------------- MODULE TerminalProofs ---------------------------
(***************************************************************************)
(* ApprovedBeforeRun, NoReaderLeak and HealSparesPending for every number  *)
(* of sessions, operators, approvals and frames, and the refinement of     *)
(* ApprovalContract.  A session only sees the record, so the first needs   *)
(* that a record is approved only if an approval was written to it         *)
(* (OnlyDecided); the second that a context is cancelled only after the    *)
(* reader returned (CancelledByReader); the third that a record is written *)
(* as pending only once, before its id is listed (Unwritten,               *)
(* ListedWritten).                                                         *)
(***************************************************************************)
EXTENDS Terminal, TLAPS

OnlyDecided == \A a \in Approvals : rec[a] = "approved" => a \in granted

CancelledByReader == \A s \in Sessions : cancelled[s] => Done(s)

\* A decision under way is about an approval, and a session that waits has one.
Busy ==
  /\ \A d \in Deciders : decider[d].pc # "idle"
       => decider[d].id \in Approvals /\ decider[d].decision \in Decisions
  /\ \A s \in Sessions : session[s].pc \in {"submit", "add", "expire", "wait"}
       => session[s].approval \in Approvals /\ session[s].frame = "sensitive"

TInv == TypeOK /\ Busy /\ OnlyDecided /\ CancelledByReader /\ ApprovedBeforeRun /\ NoReaderLeak

-----------------------------------------------------------------------------
LEMMA TInvInit == Init => TInv
<1>. SUFFICES ASSUME Init PROVE TInv
  OBVIOUS
<1>. USE DEF Init, InitGate, NoDecide, Idle
<1>1. TypeOK
  <2>1. GateTypeOK
    BY DEF GateTypeOK, Decisions
  <2>2. sock \in [Sessions -> Seq(Frames)]
    OBVIOUS
  <2>3. sent \in [Sessions -> 0 .. MaxFrames]
    BY MaxFramesAssumption
  <2>. QED
    BY <2>1, <2>2, <2>3 DEF TypeOK, Frames, Decisions
<1>2. Busy /\ OnlyDecided /\ CancelledByReader /\ ApprovedBeforeRun /\ NoReaderLeak
  BY DEF Busy, OnlyDecided, CancelledByReader, ApprovedBeforeRun, NoReaderLeak
<1>. QED
  BY <1>1, <1>2 DEF TInv

-----------------------------------------------------------------------------
(* A step of the gate leaves the sessions alone and never takes back a grant.*)

LEMMA GateKeepsInv ==
  ASSUME TInv, GateTypeOK', granted \subseteq granted', OnlyDecided',
         UNCHANGED sessionVars,
         \A d \in Deciders : decider'[d].pc # "idle"
           => decider'[d].id \in Approvals /\ decider'[d].decision \in Decisions
  PROVE  TInv'
<1>. USE DEF sessionVars
<1>1. TypeOK'
  BY DEF TInv, TypeOK
<1>2. Busy'
  BY DEF TInv, Busy
<1>3. CancelledByReader' /\ NoReaderLeak'
  BY DEF TInv, CancelledByReader, NoReaderLeak, Done
<1>4. ApprovedBeforeRun'
  BY DEF TInv, ApprovedBeforeRun
<1>. QED
  BY <1>1, <1>2, <1>3, <1>4 DEF TInv

LEMMA GateStepKeepsInv == TInv /\ GateStep /\ UNCHANGED sessionVars => TInv'
<1>. SUFFICES ASSUME TInv, GateStep, UNCHANGED sessionVars PROVE TInv'
  OBVIOUS
<1>0. GateTypeOK /\ OnlyDecided /\ Busy
  BY DEF TInv, TypeOK
<1>. USE <1>0
<1>1. CASE \E d \in Deciders : DecideRead(d)
  <2>1. PICK d \in Deciders : DecideRead(d)
    BY <1>1
  <2>2. PICK a \in Approvals, decision \in Decisions :
          /\ decider' = [decider EXCEPT ![d] = [pc |-> "set", id |-> a, decision |-> decision]]
          /\ UNCHANGED <<rec, listed, lapses, covered, audit, healer, granted>>
    BY <2>1 DEF DecideRead
  <2>. QED
    BY <2>2, GateKeepsInv DEF GateTypeOK, OnlyDecided, Busy
<1>2. CASE \E d \in Deciders : DecideSet(d)
  <2>1. PICK d \in Deciders : DecideSet(d)
    BY <1>2
  <2>2. decider[d].id \in Approvals /\ decider[d].decision \in Decisions
    BY <2>1 DEF DecideSet, Busy
  <2>3. GateTypeOK'
    BY <2>1, <2>2 DEF DecideSet, GateTypeOK, Decisions
  <2>4. OnlyDecided' /\ granted \subseteq granted'
    BY <2>1, <2>2 DEF DecideSet, GateTypeOK, OnlyDecided
  <2>. QED
    BY <2>1, <2>2, <2>3, <2>4, GateKeepsInv DEF DecideSet, GateTypeOK, Busy
<1>3. CASE \E d \in Deciders : DecideUnlist(d)
  BY <1>3, GateKeepsInv DEF DecideUnlist, Unlist, GateTypeOK, OnlyDecided, Busy
<1>4. CASE \E d \in Deciders : DecideAudit(d)
  <2>1. PICK d \in Deciders : DecideAudit(d)
    BY <1>4
  <2>2. decider[d].id \in Approvals /\ decider[d].decision \in Decisions
    BY <2>1 DEF DecideAudit, Busy
  <2>3. GateTypeOK'
    BY <2>1, <2>2 DEF DecideAudit, GateTypeOK, NoDecide
  <2>. QED
    BY <2>1, <2>3, GateKeepsInv DEF DecideAudit, NoDecide, GateTypeOK, OnlyDecided, Busy
<1>5. CASE \E d \in Deciders : DecideFails(d)
  BY <1>5, GateKeepsInv DEF DecideFails, NoDecide, GateTypeOK, OnlyDecided, Busy
<1>6. CASE PendingMissing
  BY <1>6, GateKeepsInv DEF PendingMissing, GateTypeOK, OnlyDecided, Busy
<1>7. CASE PendingHeal
  BY <1>7, GateKeepsInv DEF PendingHeal, Unlist, GateTypeOK, OnlyDecided, Busy
<1>8. CASE \E a \in Approvals : RecordExpires(a)
  BY <1>8, GateKeepsInv DEF RecordExpires, GateTypeOK, OnlyDecided, Busy
<1>9. CASE SetExpires
  BY <1>9, GateKeepsInv DEF SetExpires, GateTypeOK, OnlyDecided, Busy
<1>. QED
  BY <1>1, <1>2, <1>3, <1>4, <1>5, <1>6, <1>7, <1>8, <1>9 DEF GateStep, DecideStep

-----------------------------------------------------------------------------
(* Steps of a session's three goroutines that leave the gate alone.         *)

LEMMA ReaderKeepsInv ==
  ASSUME TInv, NEW s \in Sessions,
         BrowserSends(s) \/ BrowserLeaves(s) \/ ReaderStep(s) \/ WatcherCancels(s)
  PROVE  TInv'
<1>0. /\ TypeOK /\ Busy /\ OnlyDecided /\ CancelledByReader /\ ApprovedBeforeRun
      /\ NoReaderLeak
  BY DEF TInv
<1>1. GateTypeOK' /\ Busy' /\ OnlyDecided' /\ ApprovedBeforeRun'
  <2>1. UNCHANGED <<gateVars, session>>
    BY DEF BrowserSends, BrowserLeaves, ReaderStep, ReaderReads, ReaderFails, WatcherCancels
  <2>. QED
    BY <1>0, <2>1 DEF gateVars, TypeOK, GateTypeOK, Busy, OnlyDecided, ApprovedBeforeRun
<1>2. TypeOK' /\ CancelledByReader' /\ NoReaderLeak'
  <2>1. CASE BrowserSends(s)
    <3>1. PICK f \in Frames : sock' = [sock EXCEPT ![s] = Append(@, f)]
      BY <2>1 DEF BrowserSends
    <3>2. sock' \in [Sessions -> Seq(Frames)]
      BY <1>0, <3>1 DEF TypeOK
    <3>3. sent' \in [Sessions -> 0 .. MaxFrames]
      BY <1>0, <2>1, MaxFramesAssumption DEF TypeOK, BrowserSends
    <3>. QED
      BY <1>0, <1>1, <2>1, <3>2, <3>3 DEF TypeOK, BrowserSends, CancelledByReader, NoReaderLeak, Done
  <2>2. CASE BrowserLeaves(s)
    BY <1>0, <1>1, <2>2 DEF TypeOK, BrowserLeaves, CancelledByReader, NoReaderLeak, Done
  <2>3. CASE ReaderReads(s)
    <3>1. sock[s] \in Seq(Frames) /\ sock[s] # <<>>
      BY <1>0, <2>3 DEF TypeOK, ReaderReads
    <3>2. Head(sock[s]) \in Frames /\ Tail(sock[s]) \in Seq(Frames)
      BY <3>1
    <3>3. TypeOK'
      BY <1>0, <1>1, <2>3, <3>2 DEF TypeOK, ReaderReads
    <3>. QED
      BY <1>0, <2>3, <3>3 DEF TypeOK, ReaderReads, CancelledByReader, NoReaderLeak, Done
  <2>4. CASE ReaderFails(s)
    BY <1>0, <1>1, <2>4 DEF TypeOK, ReaderFails, CancelledByReader, NoReaderLeak, Done
  <2>5. CASE WatcherCancels(s)
    BY <1>0, <1>1, <2>5 DEF TypeOK, WatcherCancels, CancelledByReader, NoReaderLeak, Done
  <2>. QED
    BY <2>1, <2>2, <2>3, <2>4, <2>5 DEF ReaderStep
<1>. QED
  BY <1>0, <1>1, <1>2 DEF TInv

\* Moving a session to another step changes nothing else of it.
LEMMA MoveKeepsType ==
  ASSUME TypeOK, NEW s \in Sessions, NEW pc \in {"wait", "exec", "running", "ended"},
         Move(s, pc)
  PROVE  session' \in [Sessions -> [pc : {"select", "submit", "add", "expire", "wait", "exec",
                                     "running", "ended"},
                               frame : Frames, approval : Approvals \cup {NoApproval}]]
  BY DEF TypeOK, Move

LEMMA MainKeepsInv ==
  ASSUME TInv, NEW s \in Sessions, MainStep(s)
  PROVE  TInv'
<1>0. /\ TypeOK /\ GateTypeOK /\ Busy /\ OnlyDecided /\ CancelledByReader
      /\ ApprovedBeforeRun /\ NoReaderLeak
  BY DEF TInv, TypeOK
<1>. USE <1>0
<1>1. CASE TakeFrame(s)
  <2>1. /\ UNCHANGED <<gateVars, alive, sock, sent, cancelled>>
        /\ reader' = [reader EXCEPT ![s] = "reading"] /\ reader[s] \in Frames
        /\ session[s].pc = "select"
    BY <1>1 DEF TakeFrame
  <2>2. GateTypeOK' /\ OnlyDecided'
    BY <2>1 DEF gateVars, GateTypeOK, OnlyDecided
  <2>3. CancelledByReader' /\ (\A t \in Sessions : Done(t) => Done(t)')
    BY <2>1 DEF CancelledByReader, Done, TypeOK, Frames
  <2>4. CASE UNCHANGED session
    BY <2>1, <2>2, <2>3, <2>4 DEF TInv, gateVars, TypeOK, Busy, ApprovedBeforeRun, NoReaderLeak
  <2>5. CASE session' = [session EXCEPT ![s] = [Idle EXCEPT !.pc = "exec", !.frame = "benign"]]
    BY <2>1, <2>2, <2>3, <2>5
       DEF TInv, gateVars, TypeOK, Busy, ApprovedBeforeRun, NoReaderLeak, Idle, Frames
  <2>6. CASE \E a \in Approvals :
               session' = [session EXCEPT ![s] =
                             [pc |-> "submit", frame |-> "sensitive", approval |-> a]]
    BY <2>1, <2>2, <2>3, <2>6
       DEF TInv, gateVars, TypeOK, Busy, ApprovedBeforeRun, NoReaderLeak, Frames
  <2>. QED
    BY <1>1, <2>4, <2>5, <2>6 DEF TakeFrame
<1>2. CASE SubmitCommand(s)
  <2>1. session[s].approval \in Approvals
    BY <1>2 DEF SubmitCommand, Busy
  <2>2. GateTypeOK' /\ OnlyDecided' /\ UNCHANGED <<decider, granted>>
    BY <1>2, <2>1 DEF SubmitCommand, SubmitSet, SubmitAdd, SubmitExpire, GateTypeOK, OnlyDecided
  <2>3. PICK pc \in {"add", "expire", "wait"} :
          /\ session' = [session EXCEPT ![s].pc = pc]
          /\ session[s].pc \in {"submit", "add", "expire"}
    BY <1>2 DEF SubmitCommand, Move
  <2>. QED
    BY <1>2, <2>2, <2>3
       DEF SubmitCommand, TInv, TypeOK, Busy, CancelledByReader, ApprovedBeforeRun, NoReaderLeak, Done
<1>3. CASE PollApproved(s)
  <2>1. session[s].approval \in granted
    BY <1>3 DEF PollApproved, Busy, OnlyDecided
  <2>2. TypeOK'
    BY <1>3, MoveKeepsType DEF PollApproved, gateVars, TypeOK, GateTypeOK, Decisions
  <2>. QED
    BY <1>3, <2>1, <2>2 DEF PollApproved, Move, gateVars, TInv, TypeOK, Busy, OnlyDecided,
       CancelledByReader, ApprovedBeforeRun, NoReaderLeak, Done
<1>4. CASE PollRejected(s)
  <2>1. TypeOK'
    BY <1>4 DEF PollRejected, Again, Idle, Frames, gateVars, TypeOK, GateTypeOK, Decisions
  <2>. QED
    BY <1>4, <2>1 DEF PollRejected, Again, Idle, gateVars, TInv, TypeOK, Busy, OnlyDecided,
       CancelledByReader, ApprovedBeforeRun, NoReaderLeak, Done
<1>5. CASE SubmitFails(s) \/ ExecReturns(s)
  <2>1. session' = [session EXCEPT ![s] = Idle]
        /\ UNCHANGED <<gateVars, alive, sock, sent, reader, cancelled>>
    BY <1>5 DEF SubmitFails, ExecReturns, Again
  <2>2. TypeOK'
    BY <2>1 DEF Idle, Frames, gateVars, TypeOK, GateTypeOK
  <2>. QED
    BY <2>1, <2>2 DEF Idle, gateVars, TInv, TypeOK, Busy, OnlyDecided,
       CancelledByReader, ApprovedBeforeRun, NoReaderLeak, Done
<1>6. CASE SessionEnds(s) \/ WaitCancelled(s)
  <2>1. /\ Move(s, "ended") /\ Done(s)
        /\ UNCHANGED <<gateVars, alive, sock, sent, reader, cancelled>>
    BY <1>6 DEF SessionEnds, WaitCancelled, CancelledByReader
  <2>2. TypeOK'
    BY <2>1, MoveKeepsType DEF gateVars, TypeOK, GateTypeOK
  <2>. QED
    BY <2>1, <2>2 DEF Move, gateVars, TInv, TypeOK, Busy, OnlyDecided,
       CancelledByReader, ApprovedBeforeRun, NoReaderLeak, Done
<1>7. CASE ExecSends(s)
  <2>1. TypeOK'
    BY <1>7, MoveKeepsType DEF ExecSends, gateVars, TypeOK, GateTypeOK
  <2>. QED
    BY <1>7, <2>1 DEF ExecSends, Move, gateVars, TInv, TypeOK, Busy, OnlyDecided,
       CancelledByReader, ApprovedBeforeRun, NoReaderLeak, Done
<1>. QED
  BY <1>1, <1>2, <1>3, <1>4, <1>5, <1>6, <1>7 DEF MainStep, WaitStep

-----------------------------------------------------------------------------
LEMMA TInvStep == TInv /\ [Next]_vars => TInv'
<1>1. ASSUME TInv, UNCHANGED vars PROVE TInv'
  BY <1>1 DEF vars, gateVars, sessionVars, TInv, TypeOK, GateTypeOK, Busy, OnlyDecided,
     CancelledByReader, ApprovedBeforeRun, NoReaderLeak, Done
<1>. QED
  BY <1>1, GateStepKeepsInv, ReaderKeepsInv, MainKeepsInv DEF Next

LEMMA TInvAlways == Spec => []TInv
  BY TInvInit, TInvStep, PTL DEF Spec

\* Every variable of the gate and of the sessions keeps its type.
THEOREM TypeCorrect == Spec => []TypeOK
<1>1. TInv => TypeOK
  BY DEF TInv
<1>. QED
  BY <1>1, TInvAlways, PTL

\* No sensitive script reaches a guest without an approval, however decisions, expiry,
\* lost pipelines and disconnects of any number of sessions and operators interleave.
THEOREM NothingRunsUnapproved == Spec => []ApprovedBeforeRun
<1>1. TInv => ApprovedBeforeRun
  BY DEF TInv
<1>. QED
  BY <1>1, TInvAlways, PTL

\* The main loop of a session never returns before its reader goroutine.
THEOREM ReadersReturn == Spec => []NoReaderLeak
<1>1. TInv => NoReaderLeak
  BY DEF TInv
<1>. QED
  BY <1>1, TInvAlways, PTL

-----------------------------------------------------------------------------
(* Terminal implements ApprovalContract.  Beyond TInv the argument needs    *)
(* that an approval somebody is shown, decides on or runs under has a       *)
(* record or had one (Known): a record is never forgotten, so its approval  *)
(* is never asked for again.                                                *)

Known ==
  /\ \A s \in Sessions :
       \/ session[s].pc \in {"add", "expire", "wait"}
       \/ session[s].pc \in {"exec", "running"} /\ session[s].frame = "sensitive"
       => session[s].approval \in Approvals /\ rec[session[s].approval] # "none"
  /\ \A d \in Deciders : decider[d].pc # "idle" => rec[decider[d].id] # "none"

KInv == TInv /\ Known

LEMMA KInvInit == Init => KInv
<1>1. Init => Known
  BY DEF Init, InitGate, Known, Idle, NoDecide
<1>. QED
  BY <1>1, TInvInit DEF KInv

LEMMA GateStepKeepsKnown ==
  ASSUME KInv, GateStep, UNCHANGED sessionVars
  PROVE  /\ Known'
         /\ \A a \in Approvals : rec[a] = "none" <=> rec'[a] = "none"
<1>0. GateTypeOK /\ Busy /\ Known
  BY DEF KInv, TInv, TypeOK
<1>. USE <1>0 DEF sessionVars
<1>1. CASE \E d \in Deciders : DecideRead(d)
  BY <1>1 DEF DecideRead, GateTypeOK, Known
<1>2. CASE \E d \in Deciders : DecideSet(d)
  <2>1. PICK d \in Deciders : DecideSet(d)
    BY <1>2
  <2>2. /\ decider[d].id \in Approvals /\ decider[d].decision \in {"approved", "rejected"}
        /\ rec[decider[d].id] # "none"
    BY <2>1 DEF DecideSet, Busy, Known, Decisions
  <2>3. \A a \in Approvals : rec[a] = "none" <=> rec'[a] = "none"
    BY <2>1, <2>2 DEF DecideSet, GateTypeOK
  <2>4. \A e \in Deciders : decider'[e].id = decider[e].id
                            /\ (decider'[e].pc # "idle" => decider[e].pc # "idle")
    BY <2>1 DEF DecideSet, GateTypeOK
  <2>5. \A e \in Deciders : decider'[e].pc # "idle" => rec'[decider'[e].id] # "none"
    BY <2>3, <2>4 DEF Known, Busy
  <2>. QED
    BY <2>3, <2>5 DEF Known
<1>3. CASE \E d \in Deciders : DecideUnlist(d) \/ DecideAudit(d) \/ DecideFails(d)
  BY <1>3 DEF DecideUnlist, Unlist, DecideAudit, DecideFails, NoDecide, GateTypeOK, Known
<1>4. CASE PendingMissing \/ PendingHeal \/ SetExpires
  BY <1>4 DEF PendingMissing, PendingHeal, Unlist, SetExpires, Known
<1>5. CASE \E a \in Approvals : RecordExpires(a)
  <2>1. PICK a \in Approvals : RecordExpires(a)
    BY <1>5
  <2>2. \A b \in Approvals : rec[b] = "none" <=> rec'[b] = "none"
    BY <2>1 DEF RecordExpires, GateTypeOK
  <2>. QED
    BY <2>1, <2>2 DEF RecordExpires, Known, Busy
<1>. QED
  BY <1>1, <1>2, <1>3, <1>4, <1>5 DEF GateStep, DecideStep

LEMMA Moves ==
  ASSUME TypeOK, NEW s \in Sessions, NEW pc, Move(s, pc)
  PROVE  /\ session'[s].pc = pc /\ session'[s].frame = session[s].frame
         /\ session'[s].approval = session[s].approval
         /\ \A t \in Sessions \ {s} : session'[t] = session[t]
  BY DEF TypeOK, Move

LEMMA MainKeepsKnown ==
  ASSUME KInv, NEW s \in Sessions, MainStep(s)
  PROVE  Known'
<1>0. TypeOK /\ GateTypeOK /\ Busy /\ Known
  BY DEF KInv, TInv, TypeOK
<1>. USE <1>0
<1>1. CASE TakeFrame(s)
  <2>1. /\ UNCHANGED gateVars
        /\ \/ UNCHANGED session
           \/ session' = [session EXCEPT ![s] = [Idle EXCEPT !.pc = "exec", !.frame = "benign"]]
           \/ \E a \in Approvals :
                session' = [session EXCEPT ![s] =
                              [pc |-> "submit", frame |-> "sensitive", approval |-> a]]
    BY <1>1 DEF TakeFrame
  <2>2. UNCHANGED <<rec, decider>>
    BY <2>1 DEF gateVars
  <2>3. CASE UNCHANGED session
    BY <2>2, <2>3 DEF Known
  <2>4. CASE session' = [session EXCEPT ![s] = [Idle EXCEPT !.pc = "exec", !.frame = "benign"]]
    <3>1. /\ session'[s].pc = "exec" /\ session'[s].frame = "benign"
          /\ \A t \in Sessions \ {s} : session'[t] = session[t]
      BY <2>4 DEF TypeOK, Idle
    <3>. QED
      BY <2>2, <3>1 DEF Known
  <2>5. CASE \E a \in Approvals :
                session' = [session EXCEPT ![s] =
                              [pc |-> "submit", frame |-> "sensitive", approval |-> a]]
    <3>1. /\ session'[s].pc = "submit"
          /\ \A t \in Sessions \ {s} : session'[t] = session[t]
      BY <2>5 DEF TypeOK
    <3>. QED
      BY <2>2, <3>1 DEF Known
  <2>. QED
    BY <2>1, <2>3, <2>4, <2>5
<1>2. CASE SubmitCommand(s)
  <2>1. session[s].approval \in Approvals
    BY <1>2 DEF SubmitCommand, Busy
  <2>2. CASE session[s].pc = "submit" /\ SubmitSet(session[s].approval) /\ Move(s, "add")
    <3>1. /\ session' = [session EXCEPT ![s].pc = "add"] /\ UNCHANGED decider
          /\ rec' = [rec EXCEPT ![session[s].approval] = "pending"]
      BY <2>2 DEF SubmitSet, Move
    <3>. QED
      BY <2>1, <3>1 DEF Known, TypeOK, GateTypeOK, Busy
  <2>3. CASE session[s].pc \in {"add", "expire"}
    <3>1. /\ UNCHANGED <<rec, decider>>
          /\ \E pc \in {"expire", "wait"} : session' = [session EXCEPT ![s].pc = pc]
      BY <1>2, <2>3 DEF SubmitCommand, SubmitAdd, SubmitExpire, Move
    <3>. QED
      BY <2>3, <3>1 DEF Known, TypeOK
  <2>. QED
    BY <1>2, <2>2, <2>3 DEF SubmitCommand
<1>3. CASE PollApproved(s)
  BY <1>3 DEF PollApproved, Move, gateVars, Known, TypeOK
<1>4. CASE SubmitFails(s) \/ PollRejected(s) \/ ExecReturns(s)
  <2>1. UNCHANGED <<rec, decider>> /\ session' = [session EXCEPT ![s] = Idle]
    BY <1>4 DEF SubmitFails, PollRejected, ExecReturns, Again, gateVars
  <2>2. session'[s].pc = "select" /\ \A t \in Sessions \ {s} : session'[t] = session[t]
    BY <2>1 DEF TypeOK, Idle
  <2>. QED
    BY <2>1, <2>2 DEF Known
<1>5. CASE SessionEnds(s) \/ WaitCancelled(s)
  <2>1. UNCHANGED <<rec, decider>> /\ session' = [session EXCEPT ![s].pc = "ended"]
    BY <1>5 DEF SessionEnds, WaitCancelled, Move, gateVars
  <2>2. session'[s].pc = "ended" /\ \A t \in Sessions \ {s} : session'[t] = session[t]
    BY <2>1 DEF TypeOK
  <2>. QED
    BY <2>1, <2>2 DEF Known
<1>6. CASE ExecSends(s)
  BY <1>6 DEF ExecSends, Move, gateVars, Known, TypeOK
<1>. QED
  BY <1>1, <1>2, <1>3, <1>4, <1>5, <1>6 DEF MainStep, WaitStep

LEMMA KInvStep == KInv /\ [Next]_vars => KInv'
<1>. SUFFICES ASSUME KInv, [Next]_vars PROVE Known'
  BY TInvStep DEF KInv
<1>1. CASE UNCHANGED <<gateVars, session>>
  BY <1>1 DEF KInv, Known, gateVars
<1>2. CASE \E s \in Sessions :
             BrowserSends(s) \/ BrowserLeaves(s) \/ ReaderStep(s) \/ WatcherCancels(s)
  BY <1>1, <1>2 DEF BrowserSends, BrowserLeaves, ReaderStep, ReaderReads, ReaderFails,
     WatcherCancels
<1>. QED
  BY <1>1, <1>2, GateStepKeepsKnown, MainKeepsKnown DEF Next, vars, sessionVars

LEMMA KInvAlways == Spec => []KInv
  BY KInvInit, KInvStep, PTL DEF Spec

-----------------------------------------------------------------------------
(* How the desks and the used approvals follow the sessions and records.    *)

LEMMA DeskOf ==
  ASSUME NEW s \in Sessions
  PROVE  /\ session[s].pc \in {"submit", "add", "expire", "wait"}
              => Desk[s] = [at |-> "held", approval |-> session[s].approval]
         /\ session[s].pc \in {"exec", "running"} /\ session[s].frame = "sensitive"
              => Desk[s] = [at |-> "released", approval |-> session[s].approval]
         /\ session[s].pc \in {"exec", "running"} /\ session[s].frame # "sensitive"
              => Desk[s] = [at |-> "benign", approval |-> NoApproval]
         /\ session[s].pc \in {"select", "ended"}
              => Desk[s] = [at |-> "idle", approval |-> NoApproval]
  BY DEF Desk, At

LEMMA DeskKept ==
  ASSUME session' = session
  PROVE  Desk' = Desk
  BY DEF Desk, At

LEMMA DeskMoves ==
  ASSUME NEW s \in Sessions, NEW d, Desk'[s] = d,
         \A t \in Sessions \ {s} : session'[t] = session[t]
  PROVE  /\ Desk' = [Desk EXCEPT ![s] = d]
         /\ \A t \in Sessions \ {s} : Desk'[t] = Desk[t]
<1>1. \A t \in Sessions \ {s} : Desk'[t] = Desk[t]
  BY DEF Desk, At
<1>2. Desk = [t \in Sessions |-> Desk[t]] /\ Desk' = [t \in Sessions |-> Desk'[t]]
  BY DEF Desk
<1>. QED
  BY <1>1, <1>2

LEMMA UsedKept ==
  ASSUME \A a \in Approvals : rec[a] = "none" <=> rec'[a] = "none",
         \A s \in Sessions : Desk'[s].approval = Desk[s].approval
  PROVE  Used' = Used
  BY DEF Used

-----------------------------------------------------------------------------
(* Every step is a step of the contract or changes nothing it speaks of.    *)

LEMMA GateKeepsContract ==
  ASSUME KInv, GateStep, UNCHANGED sessionVars
  PROVE  Contract!Next \/ UNCHANGED Contract!vars
<1>1. Desk' = Desk
  BY DeskKept DEF sessionVars
<1>2. Used' = Used
  BY <1>1, GateStepKeepsKnown, UsedKept
<1>3. CASE granted' = granted
  BY <1>1, <1>2, <1>3 DEF Contract!vars
<1>4. CASE \E d \in Deciders : DecideSet(d) /\ decider[d].decision = "approved"
  <2>1. PICK d \in Deciders : DecideSet(d) /\ decider[d].decision = "approved"
    BY <1>4
  <2>2. decider[d].id \in Used
    BY <2>1 DEF DecideSet, KInv, TInv, Busy, Known, Used
  <2>3. granted' = granted \cup {decider[d].id}
    BY <2>1 DEF DecideSet
  <2>. QED
    BY <1>1, <1>2, <2>2, <2>3 DEF Contract!Next, Contract!Grant
<1>. QED
  BY <1>3, <1>4 DEF GateStep, DecideRead, DecideStep, DecideSet, DecideUnlist, DecideAudit,
     DecideFails, PendingMissing, PendingHeal, RecordExpires, SetExpires

LEMMA TakeFrameKeepsContract ==
  ASSUME KInv, NEW s \in Sessions, TakeFrame(s)
  PROVE  Contract!Next \/ UNCHANGED Contract!vars
<1>0. /\ TypeOK /\ UNCHANGED <<rec, granted>>
      /\ Desk[s] = [at |-> "idle", approval |-> NoApproval]
  BY DeskOf DEF TakeFrame, gateVars, KInv, TInv
<1>1. CASE UNCHANGED session
  <2>1. Desk' = Desk
    BY <1>1, DeskKept
  <2>. QED
    BY <1>0, <2>1, UsedKept DEF Contract!vars
<1>2. CASE session' = [session EXCEPT ![s] = [Idle EXCEPT !.pc = "exec", !.frame = "benign"]]
  <2>1. /\ session'[s].pc = "exec" /\ session'[s].frame = "benign"
        /\ \A t \in Sessions \ {s} : session'[t] = session[t]
    BY <1>0, <1>2 DEF TypeOK, Idle
  <2>2. Desk'[s] = [at |-> "benign", approval |-> NoApproval]
    BY <2>1 DEF Desk, At
  <2>3. Desk' = [Desk EXCEPT ![s] = [at |-> "benign", approval |-> NoApproval]]
    BY <2>1, <2>2, DeskMoves
  <2>4. \A t \in Sessions : Desk'[t].approval = Desk[t].approval
    BY <1>0, <2>1, <2>2, DeskMoves
  <2>5. Used' = Used
    BY <1>0, <2>4, UsedKept
  <2>. QED
    BY <1>0, <2>3, <2>5 DEF Contract!Next, Contract!RunBenign, Contract!Put, Contract!Clear
<1>3. CASE \E a \in Approvals :
             /\ Fresh(a)
             /\ session' = [session EXCEPT ![s] =
                              [pc |-> "submit", frame |-> "sensitive", approval |-> a]]
  <2>1. PICK a \in Approvals :
             /\ Fresh(a)
             /\ session' = [session EXCEPT ![s] =
                              [pc |-> "submit", frame |-> "sensitive", approval |-> a]]
    BY <1>3
  <2>2. /\ session'[s].pc = "submit" /\ session'[s].approval = a
        /\ \A t \in Sessions \ {s} : session'[t] = session[t]
    BY <1>0, <2>1 DEF TypeOK
  <2>3. Desk'[s] = [at |-> "held", approval |-> a]
    BY <2>2 DEF Desk, At
  <2>4. /\ Desk' = [Desk EXCEPT ![s] = [at |-> "held", approval |-> a]]
        /\ \A t \in Sessions \ {s} : Desk'[t] = Desk[t]
    BY <2>2, <2>3, DeskMoves
  <2>5. a \notin Used
    BY <2>1, NoApprovalAssumption DEF Fresh, Used, Desk
  <2>6. Used' = Used \cup {a}
    BY <1>0, <2>3, <2>4, NoApprovalAssumption DEF Used
  <2>. QED
    BY <1>0, <2>4, <2>5, <2>6 DEF Contract!Next, Contract!Hold, Contract!Put, Contract!Clear
<1>. QED
  BY <1>1, <1>2, <1>3 DEF TakeFrame

LEMMA SubmitKeepsContract ==
  ASSUME KInv, NEW s \in Sessions, SubmitCommand(s)
  PROVE  UNCHANGED Contract!vars
<1>0. /\ TypeOK /\ GateTypeOK /\ session[s].approval \in Approvals /\ granted' = granted
      /\ session[s].pc \in {"submit", "add", "expire"}
  BY DEF SubmitCommand, SubmitSet, SubmitAdd, SubmitExpire, KInv, TInv, Busy, TypeOK
<1>1. PICK pc \in {"add", "expire", "wait"} : session' = [session EXCEPT ![s].pc = pc]
  BY DEF SubmitCommand, Move
<1>2. /\ session'[s].pc = pc /\ session'[s].approval = session[s].approval
      /\ \A t \in Sessions \ {s} : session'[t] = session[t]
  BY <1>0, <1>1 DEF TypeOK
<1>3. Desk[s] = [at |-> "held", approval |-> session[s].approval]
  BY <1>0 DEF Desk, At
<1>4. Desk'[s] = [at |-> "held", approval |-> session[s].approval]
  BY <1>2 DEF Desk, At
<1>5. Desk' = Desk
  <2>1. \A t \in Sessions : Desk'[t] = Desk[t]
    BY <1>2, <1>3, <1>4, DeskMoves
  <2>. QED
    BY <2>1 DEF Desk
<1>6. \A a \in Approvals : a # session[s].approval => rec'[a] = rec[a]
  BY <1>0 DEF SubmitCommand, SubmitSet, SubmitAdd, SubmitExpire, GateTypeOK
<1>7. Used' = Used
  BY <1>0, <1>3, <1>5, <1>6 DEF Used
<1>. QED
  BY <1>0, <1>5, <1>7 DEF Contract!vars

\* A step that clears the desk of a session whose approval, if any, is known or given up.
LEMMA ClearMoves ==
  ASSUME TypeOK, NEW s \in Sessions, session'[s].pc \in {"select", "ended"},
         \A t \in Sessions \ {s} : session'[t] = session[t], UNCHANGED rec
  PROVE  /\ Desk' = [Desk EXCEPT ![s] = [at |-> "idle", approval |-> NoApproval]]
         /\ Used' \in {Used, Used \ {Desk[s].approval}}
         /\ \A a \in Approvals : Desk[s].approval = a /\ rec[a] # "none" => Used' = Used
         /\ Desk[s].approval = NoApproval => Used' = Used
<1>1. Desk'[s] = [at |-> "idle", approval |-> NoApproval]
  BY DEF Desk, At
<1>2. /\ Desk' = [Desk EXCEPT ![s] = [at |-> "idle", approval |-> NoApproval]]
      /\ \A t \in Sessions \ {s} : Desk'[t] = Desk[t]
  BY <1>1, DeskMoves
<1>3. Used \ {Desk[s].approval} \subseteq Used' /\ Used' \subseteq Used
  BY <1>1, <1>2, NoApprovalAssumption DEF Used
<1>4. \A a \in Approvals : Desk[s].approval = a /\ rec[a] # "none" => a \in Used'
  BY DEF Used
<1>5. NoApproval \notin Used
  BY NoApprovalAssumption DEF Used
<1>. QED
  BY <1>2, <1>3, <1>4, <1>5

LEMMA DropKeepsContract ==
  ASSUME KInv, NEW s \in Sessions, SubmitFails(s) \/ PollRejected(s) \/ WaitCancelled(s)
  PROVE  Contract!Next
<1>0. /\ TypeOK /\ UNCHANGED <<rec, granted>>
      /\ session[s].pc \in {"submit", "add", "expire", "wait"}
  BY DEF SubmitFails, PollRejected, WaitCancelled, gateVars, KInv, TInv
<1>1. Desk[s].at = "held"
  BY <1>0 DEF Desk, At
<1>2. /\ session'[s].pc \in {"select", "ended"}
      /\ \A t \in Sessions \ {s} : session'[t] = session[t]
  BY <1>0 DEF SubmitFails, PollRejected, WaitCancelled, Again, Move, Idle, TypeOK
<1>3. /\ Desk' = [Desk EXCEPT ![s] = [at |-> "idle", approval |-> NoApproval]]
      /\ Used' \in {Used, Used \ {Desk[s].approval}}
  BY <1>0, <1>2, ClearMoves
<1>. QED
  BY <1>0, <1>1, <1>3 DEF Contract!Next, Contract!Drop, Contract!Put, Contract!Clear

LEMMA ReleaseKeepsContract ==
  ASSUME KInv, NEW s \in Sessions, PollApproved(s)
  PROVE  Contract!Next
<1>0. /\ TypeOK /\ UNCHANGED <<rec, granted>> /\ session[s].pc = "wait"
      /\ session[s].frame = "sensitive" /\ session[s].approval \in granted
  BY DEF PollApproved, gateVars, KInv, TInv, Busy, OnlyDecided
<1>1. Desk[s] = [at |-> "held", approval |-> session[s].approval]
  BY <1>0 DEF Desk, At
<1>2. /\ session'[s].pc = "exec" /\ session'[s].frame = "sensitive"
      /\ session'[s].approval = session[s].approval
      /\ \A t \in Sessions \ {s} : session'[t] = session[t]
  BY <1>0, Moves DEF PollApproved
<1>3. Desk'[s] = [at |-> "released", approval |-> session[s].approval]
  BY <1>2 DEF Desk, At
<1>4. /\ Desk' = [Desk EXCEPT ![s] = [at |-> "released", approval |-> session[s].approval]]
      /\ \A t \in Sessions : Desk'[t].approval = Desk[t].approval
  BY <1>1, <1>2, <1>3, DeskMoves
<1>5. Used' = Used
  BY <1>0, <1>4, UsedKept
<1>6. Contract!Release(s)
  BY <1>0, <1>1, <1>4, <1>5 DEF Contract!Release, Contract!Put
<1>. QED
  BY <1>6 DEF Contract!Next

LEMMA ExecKeepsContract ==
  ASSUME KInv, NEW s \in Sessions, SessionEnds(s) \/ ExecSends(s) \/ ExecReturns(s)
  PROVE  Contract!Next \/ UNCHANGED Contract!vars
<1>0. TypeOK /\ UNCHANGED <<rec, granted>>
  BY DEF SessionEnds, ExecSends, ExecReturns, gateVars, KInv, TInv
<1>1. CASE SessionEnds(s)
  <2>1. Desk[s] = [at |-> "idle", approval |-> NoApproval]
    BY <1>1 DEF SessionEnds, Desk, At
  <2>2. /\ session'[s].pc = "ended"
        /\ \A t \in Sessions \ {s} : session'[t] = session[t]
    BY <1>0, <1>1, Moves DEF SessionEnds
  <2>3. Desk' = [Desk EXCEPT ![s] = Desk[s]] /\ Used' = Used
    BY <1>0, <2>1, <2>2, ClearMoves
  <2>4. Desk' = Desk
    BY <2>3 DEF Desk
  <2>. QED
    BY <1>0, <2>3, <2>4 DEF Contract!vars
<1>2. CASE ExecSends(s)
  <2>1. /\ session[s].pc = "exec" /\ session'[s].pc = "running"
        /\ session'[s].frame = session[s].frame
        /\ session'[s].approval = session[s].approval
        /\ \A t \in Sessions \ {s} : session'[t] = session[t]
    BY <1>0, <1>2, Moves DEF ExecSends
  <2>2. Desk'[s] = Desk[s]
    BY <2>1 DEF Desk, At
  <2>3. Desk' = [Desk EXCEPT ![s] = Desk[s]]
    BY <2>1, <2>2, DeskMoves
  <2>4. Desk' = Desk
    BY <2>3 DEF Desk
  <2>. QED
    BY <1>0, <2>4, UsedKept DEF Contract!vars
<1>3. CASE ExecReturns(s)
  <2>1. /\ session[s].pc \in {"exec", "running"} /\ session'[s].pc = "select"
        /\ \A t \in Sessions \ {s} : session'[t] = session[t]
    BY <1>0, <1>3 DEF ExecReturns, Again, Idle, TypeOK
  <2>2. \/ Desk[s] = [at |-> "benign", approval |-> NoApproval]
        \/ /\ Desk[s] = [at |-> "released", approval |-> session[s].approval]
           /\ session[s].frame = "sensitive"
    BY <2>1, DeskOf
  <2>3. \/ Desk[s].approval = NoApproval
        \/ Desk[s].approval \in Approvals /\ rec[Desk[s].approval] # "none"
    BY <2>1, <2>2 DEF KInv, Known
  <2>4. /\ Desk' = [Desk EXCEPT ![s] = [at |-> "idle", approval |-> NoApproval]]
        /\ Used' = Used
    BY <1>0, <2>1, <2>3, ClearMoves
  <2>5. Contract!Finish(s)
    BY <1>0, <2>2, <2>4 DEF Contract!Finish, Contract!Put, Contract!Clear
  <2>. QED
    BY <2>5 DEF Contract!Next
<1>. QED
  BY <1>1, <1>2, <1>3

LEMMA StepKeepsContract == KInv /\ [Next]_vars => Contract!Next \/ UNCHANGED Contract!vars
<1>. SUFFICES ASSUME KInv, [Next]_vars PROVE Contract!Next \/ UNCHANGED Contract!vars
  OBVIOUS
<1>1. CASE UNCHANGED <<gateVars, session>>
  <2>1. Desk' = Desk /\ UNCHANGED <<rec, granted>>
    BY <1>1, DeskKept DEF gateVars
  <2>. QED
    BY <2>1, UsedKept DEF Contract!vars
<1>2. CASE \E s \in Sessions :
             BrowserSends(s) \/ BrowserLeaves(s) \/ ReaderStep(s) \/ WatcherCancels(s)
  BY <1>1, <1>2 DEF BrowserSends, BrowserLeaves, ReaderStep, ReaderReads, ReaderFails,
     WatcherCancels
<1>3. CASE \E s \in Sessions : MainStep(s)
  BY <1>3, TakeFrameKeepsContract, SubmitKeepsContract, DropKeepsContract,
     ReleaseKeepsContract, ExecKeepsContract DEF MainStep, WaitStep
<1>. QED
  BY <1>1, <1>2, <1>3, GateKeepsContract DEF Next, vars, sessionVars

\* Terminal sessions over the gate implement the contract: however pipelines, polls,
\* expiries, disconnects and concurrent decisions interleave, a sensitive command leaves the
\* hold only under its own granted approval, and an approval releases at most one command.
THEOREM ContractKept == Spec => KeepsContract
<1>1. Init => Contract!Init
  <2>. SUFFICES ASSUME Init PROVE Contract!Init
    OBVIOUS
  <2>1. Desk = [s \in Sessions |-> Contract!Clear]
    BY DEF Init, Idle, Desk, At, Contract!Clear
  <2>2. Used = {}
    BY <2>1, NoApprovalAssumption DEF Used, Init, InitGate, Contract!Clear
  <2>. QED
    BY <2>1, <2>2 DEF Contract!Init, Init, InitGate
<1>. QED
  BY <1>1, KInvAlways, StepKeepsContract, PTL DEF Spec, KeepsContract, Contract!Spec

-----------------------------------------------------------------------------
(* HealSparesPending.  Pending finds the record gone and removes the id      *)
(* later; a record becomes pending only once, when it is first written, and  *)
(* an id is listed only after that.                                          *)

\* Sessions never share an approval.
OwnApproval == \A s, t \in Sessions :
  s # t /\ session[s].approval = session[t].approval => session[s].approval = NoApproval

\* An approval that is about to be submitted has had no record yet.
Unwritten == \A s \in Sessions : session[s].pc = "submit" => rec[session[s].approval] = "none"

ListedWritten == \A a \in listed : rec[a] # "none"

\* The record whose id is about to be removed was there once and is not pending.
Spared == healer # NoApproval => rec[healer] \notin {"none", "pending"}

HealInv == KInv /\ OwnApproval /\ Unwritten /\ ListedWritten /\ Spared

LEMMA HealInvInit == Init => HealInv
  BY KInvInit DEF Init, InitGate, Idle, HealInv, OwnApproval, Unwritten, ListedWritten, Spared

\* Nothing becomes pending in the gate itself.
LEMMA GateKeepsHeal ==
  ASSUME HealInv, GateStep, UNCHANGED sessionVars
  PROVE  HealInv'
<1>0. KInv /\ TInv /\ GateTypeOK /\ Busy
  BY DEF HealInv, KInv, TInv, TypeOK
<1>1. \A a \in Approvals : rec[a] = "none" <=> rec'[a] = "none"
  BY <1>0, GateStepKeepsKnown
<1>2. KInv'
  BY <1>0, GateStepKeepsInv, GateStepKeepsKnown DEF KInv
<1>3. ASSUME NEW a \in Approvals, rec'[a] = "pending" PROVE rec[a] = "pending"
  <2>1. CASE \E d \in Deciders : DecideSet(d)
    <3>1. PICK d \in Deciders : DecideSet(d) BY <2>1
    <3>2. decider[d].decision \in {"approved", "rejected"} /\ decider[d].id \in Approvals
      BY <1>0, <3>1 DEF DecideSet, Busy, Decisions
    <3>. QED BY <1>0, <1>3, <3>1, <3>2 DEF DecideSet, GateTypeOK
  <2>2. CASE \E b \in Approvals : RecordExpires(b)
    BY <1>0, <1>3, <2>2 DEF RecordExpires, GateTypeOK
  <2>3. CASE UNCHANGED rec
    BY <1>3, <2>3
  <2>. QED
    BY <2>1, <2>2, <2>3 DEF GateStep, DecideRead, DecideStep, DecideUnlist, DecideAudit,
       DecideFails, PendingMissing, PendingHeal, SetExpires
<1>4. OwnApproval'
  BY DEF sessionVars, HealInv, OwnApproval
<1>5. Unwritten'
  <2>1. \A s \in Sessions : session[s].pc = "submit" => session[s].approval \in Approvals
    BY <1>0 DEF Busy
  <2>. QED BY <1>1, <2>1 DEF sessionVars, HealInv, Unwritten
<1>6. ListedWritten'
  <2>1. listed' \subseteq listed /\ listed \subseteq Approvals
    BY <1>0 DEF GateTypeOK, GateStep, DecideRead, DecideStep, DecideSet, DecideUnlist, Unlist,
       DecideAudit, DecideFails, PendingMissing, PendingHeal, RecordExpires, SetExpires
  <2>. QED BY <1>1, <2>1 DEF HealInv, ListedWritten
<1>7. Spared'
  <2>1. CASE PendingMissing
    <3>1. PICK a \in listed : rec[a] \in {"none", "expired"} /\ healer' = a /\ UNCHANGED rec
      BY <2>1 DEF PendingMissing
    <3>. QED BY <3>1 DEF HealInv, ListedWritten, Spared
  <2>2. CASE PendingHeal
    BY <2>2 DEF PendingHeal, Spared
  <2>3. CASE UNCHANGED healer
    BY <1>0, <1>1, <1>3, <2>3 DEF GateTypeOK, HealInv, Spared
  <2>. QED
    BY <2>1, <2>2, <2>3 DEF GateStep, DecideRead, DecideStep, DecideSet, DecideUnlist,
       DecideAudit, DecideFails, RecordExpires, SetExpires
<1>. QED
  BY <1>2, <1>4, <1>5, <1>6, <1>7 DEF HealInv

\* A session that submits writes a record that was not there: it is not the one that
\* Pending is about to take out of the list.
LEMMA MainKeepsHeal ==
  ASSUME HealInv, NEW s \in Sessions, MainStep(s), KInv'
  PROVE  HealInv'
<1>0. /\ KInv /\ Known /\ TypeOK /\ GateTypeOK /\ Busy
      /\ OwnApproval /\ Unwritten /\ ListedWritten /\ Spared
  BY DEF HealInv, KInv, TInv, TypeOK
<1>1. CASE SubmitCommand(s)
  <2> DEFINE a == session[s].approval
  <2>1. a \in Approvals /\ a # NoApproval
    BY <1>0, <1>1, NoApprovalAssumption DEF SubmitCommand, Busy
  <2>2. /\ \A t \in Sessions : session'[t].approval = session[t].approval
        /\ \A t \in Sessions : session'[t].pc = "submit" => t # s /\ session[t].pc = "submit"
    <3>1. PICK pc \in {"add", "expire", "wait"} : session' = [session EXCEPT ![s].pc = pc]
      BY <1>1 DEF SubmitCommand, Move
    <3>. QED BY <1>0, <3>1 DEF TypeOK
  <2>3. UNCHANGED healer
    BY <1>1 DEF SubmitCommand, SubmitSet, SubmitAdd, SubmitExpire
  <2>4. CASE session[s].pc = "submit"
    <3>1. rec' = [rec EXCEPT ![a] = "pending"] /\ UNCHANGED listed /\ rec[a] = "none"
      BY <1>0, <1>1, <2>4 DEF SubmitCommand, SubmitSet, Unwritten
    <3>2. rec'[a] = "pending" /\ \A b \in Approvals \ {a} : rec'[b] = rec[b]
      BY <1>0, <2>1, <3>1 DEF GateTypeOK
    <3>3. healer # NoApproval => healer # a /\ healer \in Approvals
      BY <1>0, <3>1 DEF Spared, GateTypeOK
    <3>4. \A t \in Sessions : t # s => session[t].approval # a
      BY <1>0, <2>1 DEF OwnApproval
    <3>5. Unwritten'
      BY <1>0, <2>2, <3>2, <3>4 DEF Unwritten, Busy
    <3>6. ListedWritten'
      BY <1>0, <3>1, <3>2 DEF ListedWritten, GateTypeOK
    <3>7. Spared'
      BY <1>0, <2>3, <3>2, <3>3 DEF Spared
    <3>8. OwnApproval'
      BY <1>0, <2>2 DEF OwnApproval
    <3>. QED BY <3>5, <3>6, <3>7, <3>8 DEF HealInv
  <2>5. CASE session[s].pc # "submit"
    <3>1. UNCHANGED rec /\ listed' \subseteq listed \cup {a} /\ rec[a] # "none"
      BY <1>0, <1>1, <2>5 DEF SubmitCommand, SubmitAdd, SubmitExpire, Known
    <3>. QED
      BY <1>0, <2>2, <2>3, <3>1 DEF HealInv, OwnApproval, Unwritten, ListedWritten, Spared
  <2>. QED BY <2>4, <2>5
<1>2. CASE TakeFrame(s) /\ session' # session
        /\ ~(session' = [session EXCEPT ![s] = [Idle EXCEPT !.pc = "exec", !.frame = "benign"]])
  <2>1. PICK a \in Approvals :
          /\ Fresh(a)
          /\ session' = [session EXCEPT ![s] =
                           [pc |-> "submit", frame |-> "sensitive", approval |-> a]]
    BY <1>2 DEF TakeFrame
  <2>2. UNCHANGED <<rec, listed, healer>>
    BY <1>2 DEF TakeFrame, gateVars
  <2>3. /\ session'[s].approval = a /\ \A t \in Sessions \ {s} : session'[t] = session[t]
        /\ rec[a] = "none" /\ \A t \in Sessions : session[t].approval # a
    BY <1>0, <2>1 DEF TypeOK, Fresh
  <2>4. OwnApproval'
    BY <1>0, <2>3 DEF OwnApproval
  <2>5. Unwritten'
    BY <1>0, <2>2, <2>3 DEF Unwritten
  <2>. QED
    BY <1>0, <2>2, <2>4, <2>5 DEF HealInv, ListedWritten, Spared
<1>3. CASE /\ UNCHANGED gateVars
           /\ \A t \in Sessions : session'[t].approval \in {session[t].approval, NoApproval}
           /\ \A t \in Sessions : session'[t].pc = "submit" => session'[t] = session[t]
  <2>1. UNCHANGED <<rec, listed, healer>>
    BY <1>3 DEF gateVars
  <2>. QED
    BY <1>0, <1>3, <2>1 DEF HealInv, OwnApproval, Unwritten, ListedWritten, Spared
<1>4. ASSUME ~SubmitCommand(s), NEW pc \in {"exec", "running", "ended"}, Move(s, pc),
             UNCHANGED gateVars
      PROVE  HealInv'
  <2>1. /\ session'[s].approval = session[s].approval /\ session'[s].pc = pc
        /\ \A t \in Sessions \ {s} : session'[t] = session[t]
    BY <1>0, <1>4 DEF Move, TypeOK
  <2>. QED BY <1>3, <1>4, <2>1
<1>5. ASSUME NEW i, i.pc # "submit", i.approval = NoApproval,
             session' = [session EXCEPT ![s] = i], UNCHANGED gateVars
      PROVE  HealInv'
  <2>1. session'[s] = i /\ \A t \in Sessions \ {s} : session'[t] = session[t]
    BY <1>0, <1>5 DEF TypeOK
  <2>. QED BY <1>3, <1>5, <2>1
<1>6. CASE TakeFrame(s)
  <2>1. UNCHANGED gateVars BY <1>6 DEF TakeFrame
  <2>2. CASE UNCHANGED session
    BY <1>3, <2>1, <2>2
  <2>3. CASE session' = [session EXCEPT ![s] = [Idle EXCEPT !.pc = "exec", !.frame = "benign"]]
    BY <1>5, <2>1, <2>3 DEF Idle
  <2>. QED BY <1>2, <1>6, <2>2, <2>3
<1>7. CASE SubmitFails(s) \/ PollRejected(s) \/ ExecReturns(s)
  BY <1>5, <1>7 DEF SubmitFails, PollRejected, ExecReturns, Again, Idle
<1>8. CASE SessionEnds(s) \/ PollApproved(s) \/ WaitCancelled(s) \/ ExecSends(s)
  <2>1. \E pc \in {"exec", "running", "ended"} : Move(s, pc) /\ UNCHANGED gateVars
    BY <1>8 DEF SessionEnds, PollApproved, WaitCancelled, ExecSends
  <2>. QED BY <1>1, <1>4, <2>1
<1>. QED
  BY <1>1, <1>6, <1>7, <1>8 DEF MainStep, WaitStep

LEMMA HealInvStep == HealInv /\ [Next]_vars => HealInv'
<1>. SUFFICES ASSUME HealInv, [Next]_vars PROVE HealInv'
  OBVIOUS
<1>1. KInv'
  BY KInvStep DEF HealInv
<1>2. ASSUME UNCHANGED <<rec, listed, healer, session>> PROVE HealInv'
  BY <1>1, <1>2 DEF HealInv, OwnApproval, Unwritten, ListedWritten, Spared
<1>3. ASSUME NEW s \in Sessions,
             BrowserSends(s) \/ BrowserLeaves(s) \/ ReaderStep(s) \/ WatcherCancels(s)
      PROVE  HealInv'
  BY <1>2, <1>3
  DEF BrowserSends, BrowserLeaves, ReaderStep, ReaderReads, ReaderFails, WatcherCancels, gateVars
<1>4. CASE UNCHANGED vars
  BY <1>2, <1>4 DEF vars, gateVars, sessionVars
<1>. QED
  BY <1>1, <1>3, <1>4, GateKeepsHeal, MainKeepsHeal DEF Next

\* The self-healing of Pending, which looks at a record in one command and removes the
\* id in a later one, never takes an approval that is pending out of the list.
THEOREM HealingIsSafe == Spec => HealSparesPending
<1>1. HealInv /\ [Next]_vars
        => [healer # NoApproval /\ healer' = NoApproval => rec[healer] # "pending"]_vars
  BY DEF HealInv, Spared
<1>2. Spec => []HealInv
  BY HealInvInit, HealInvStep, PTL DEF Spec
<1>. QED
  BY <1>1, <1>2, PTL DEF Spec, HealSparesPending
=============================================================================
