--------------------------- MODULE GuestExecProofs ----------------------------
(***************************************************************************)
(* Theorems about GuestExec, for every output cap, chunk size, pipe and    *)
(* connection buffer, number of retries and amount of output.              *)
(***************************************************************************)
EXTENDS GuestExec, TLAPS

\* The types of TypeOK, by name.
Hosts == [pc : {"dial", "send", "receive", "returned"}, attempt : 0 .. RetryMax,
          result : TerminalKinds \cup {"none", "gave up", "cancelled", "send failed", "lost"}]
Frames == [kind : TerminalKinds \cup {"output", "notice"}, units : 0 .. Chunk]
Wires == Seq(Frames)
Seens == [units : Nat, notice : BOOLEAN, last : TerminalKinds \cup {"none", "output", "notice"}]
Handlers == [pc : {"none", "read", "run", "notice", "final", "done"},
             outcome : TerminalKinds \cup {"none"}]
Conns == {"none", "open", "host closed", "guest closed"}
Contexts == {"live", "deadline", "stopped"}
Scripts == {"none", "running", "exit 0", "exit 1", "killed"}
Strays == {"none", "group", "escaped"}
Pipes == [units : 0 .. PipeCap, open : BOOLEAN]
Copiers == [pc : {"reading", "writing", "done"}, left : 0 .. PipeCap]
StreamWriters == [written : Nat, truncated : BOOLEAN]
Spoils == SUBSET {"delay", "copy"}

Typed ==
  /\ request \in Requests /\ frozen \in BOOLEAN /\ host \in Hosts /\ ctxDone \in BOOLEAN /\ conn \in Conns
  /\ inbox \in BOOLEAN /\ wire \in Wires /\ seen \in Seens /\ handler \in Handlers
  /\ gctx \in Contexts /\ proc \in Scripts /\ stray \in Strays /\ pipe \in Pipes
  /\ copier \in Copiers /\ sw \in StreamWriters /\ waitErr \in Spoils
  /\ produced \in 0 .. MaxProduced /\ runs \in Nat

\* The script, its group and the copy live only while runScript waits for them.
Grouped == (proc = "running" \/ stray = "group" \/ copier.pc # "done") => handler.pc = "run"

\* Until the request is taken up nothing has run or been sent, and only then is dialled.
Fresh ==
  /\ host.pc = "dial" => handler.pc = "none" /\ host.result = "none"
  /\ handler.pc \in {"none", "read"} =>
       /\ runs = 0 /\ produced = 0 /\ stray = "none" /\ waitErr = {} /\ wire = <<>>
       /\ sw.written = 0 /\ ~sw.truncated /\ seen.units = 0 /\ ~seen.notice

\* A handler about to answer knows what to answer, and gives notice of what was cut.
Reported ==
  /\ handler.pc \in {"notice", "final"} => handler.outcome # "none"
  /\ handler.pc = "notice" => sw.truncated

\* A pipe that is closed is empty; the copy ends with it closed and nothing in hand, and
\* only WaitDelay closes it before.
Piped ==
  /\ ~pipe.open => pipe.units = 0
  /\ copier.pc = "reading" => copier.left = 0
  /\ copier.pc = "done" => ~pipe.open /\ copier.left = 0
  /\ copier.pc # "done" /\ ~pipe.open => "delay" \in waitErr

\* What is written and what is about to be stay below the cap.
Capped == MaxOutput > 0 => sw.written + copier.left <= MaxOutput

\* Frame by frame, f counts the output up to there: what the caller has, then each frame
\* on the wire, and at the end all that streamWriter has written.
Ledger(f, w, from, to) ==
  /\ f[0] = from /\ f[Len(w)] = to
  /\ \A i \in 1 .. Len(w) : f[i] = f[i - 1] + w[i].units

InTransit == \E f \in [0 .. Len(wire) -> 0 .. sw.written] :
               Ledger(f, wire, seen.units, sw.written)

\* Unless something spoiled Wait, no unit is lost on the way through the pipe except what
\* the cap cuts.
Conserved ==
  waitErr = {} /\ handler.pc \in {"run", "notice", "final"} =>
    IF sw.truncated
      THEN MaxOutput > 0 /\ sw.written + copier.left = MaxOutput /\ produced > MaxOutput
      ELSE produced = sw.written + copier.left + pipe.units

OnWire(k) == \E i \in 1 .. Len(wire) : wire[i].kind = k

\* The last frame is the last one, and nothing follows it.
LastIsLast ==
  /\ \A i \in 1 .. Len(wire) :
       wire[i].kind \in TerminalKinds => i = Len(wire) /\ handler.pc = "done"
  /\ host.result \in TerminalKinds => wire = <<>> /\ handler.pc = "done"

\* The notice is sent before the last frame when output was cut, and only then.
Noticed == seen.notice \/ OnWire("notice")

NoticeFits ==
  /\ Noticed => sw.truncated
  /\ handler.pc = "final" /\ conn = "open" /\ sw.truncated => Noticed

\* What holds of a call once "exit 0" is to be reported.
Finished ==
  /\ proc = "exit 0" /\ waitErr = {}
  /\ IF sw.truncated THEN MaxOutput > 0 /\ sw.written = MaxOutput /\ produced > MaxOutput
                     ELSE produced = sw.written

ZeroIsEarned ==
  /\ handler.outcome = "exit 0" /\ handler.pc \in {"notice", "final"} => Finished
  /\ host.result = "exit 0" \/ OnWire("exit 0") =>
       handler.pc = "done" /\ Finished /\ (sw.truncated => Noticed)

FlowInv == Grouped /\ Fresh /\ Reported /\ Piped /\ Capped /\ RunsOnce

GInv == /\ Typed /\ FlowInv
        /\ InTransit /\ Conserved /\ LastIsLast /\ NoticeFits /\ ZeroIsEarned

\* The steps that do more than pause the microVM.
Action == HostStep \/ Cancel \/ CancelCloses \/ GuestStep \/ VmDies

-----------------------------------------------------------------------------
(* The operators the actions are made of.                                   *)

\* The constants are numbers.
LEMMA Numbers ==
  /\ RetryMax \in Nat /\ MaxOutput \in Nat /\ MaxProduced \in Nat
  /\ Chunk \in Nat /\ PipeCap \in Nat /\ WireCap \in Nat
  /\ Chunk > 0 /\ PipeCap > 0 /\ WireCap > 0
  BY ExecAssumption

\* Min of two numbers, as FiniteSetsExt defines it.
LEMMA MinOfTwo ==
  ASSUME NEW a \in Nat, NEW b \in Nat
  PROVE  Min({a, b}) = IF a <= b THEN a ELSE b
  BY DEF Min

LEMMA TypedIsTypeOK == (Typed <=> TypeOK) /\ (Typed' <=> TypeOK')
  BY Zenon DEF Typed, TypeOK, Hosts, Frames, Wires, Seens, Handlers, Conns, Contexts, Scripts,
      Strays, Pipes, Copiers, StreamWriters, Spoils

\* The counters are numbers.
LEMMA Counters ==
  ASSUME Typed
  PROVE  /\ host.attempt \in Nat /\ seen.units \in Nat /\ sw.written \in Nat
         /\ pipe.units \in Nat /\ pipe.units <= PipeCap
         /\ copier.left \in Nat /\ copier.left <= PipeCap
         /\ produced \in Nat /\ produced <= MaxProduced /\ runs \in Nat
<1>1. /\ host.attempt \in 0 .. RetryMax /\ seen.units \in Nat /\ sw.written \in Nat
      /\ pipe.units \in 0 .. PipeCap /\ copier.left \in 0 .. PipeCap
      /\ produced \in 0 .. MaxProduced /\ runs \in Nat
  BY DEF Typed, Hosts, Seens, StreamWriters, Pipes, Copiers
<1>2. QED BY <1>1, Numbers

\* A chunk is part of what is left, and some of it when anything is left.
LEMMA ChunkFits ==
  ASSUME Typed
  PROVE  /\ NextChunk \in 0 .. Chunk /\ NextChunk <= copier.left
         /\ copier.left > 0 => NextChunk > 0
<1>1. copier.left \in Nat /\ Chunk \in Nat /\ Chunk > 0
  BY Numbers, Counters
<1>2. NextChunk = IF copier.left <= Chunk THEN copier.left ELSE Chunk
  BY <1>1, MinOfTwo DEF NextChunk
<1>3. QED BY <1>1, <1>2

\* What Clip lets pass is no more than it was given, and fits under the cap.
LEMMA ClipFits ==
  ASSUME Typed, Capped, NEW n \in Nat
  PROVE  /\ Clip(n).units \in 0 .. n /\ Clip(n).truncated \in BOOLEAN
         /\ MaxOutput > 0 => sw.written + Clip(n).units <= MaxOutput
<1>1. /\ sw.written \in Nat /\ copier.left \in Nat /\ MaxOutput \in Nat
      /\ MaxOutput > 0 => sw.written <= MaxOutput
  BY Numbers, Counters DEF Capped
<1>2. CASE sw.truncated
  BY <1>1, <1>2 DEF Clip
<1>3. CASE ~sw.truncated /\ MaxOutput > 0 /\ sw.written + n > MaxOutput
  BY <1>1, <1>3 DEF Clip
<1>4. CASE ~sw.truncated /\ ~(MaxOutput > 0 /\ sw.written + n > MaxOutput)
  BY <1>1, <1>4 DEF Clip
<1>5. QED BY <1>2, <1>3, <1>4
-----------------------------------------------------------------------------
(* Every action preserves the types.                                        *)

\* The wire as a sequence of frames.
LEMMA WireTypes ==
  ASSUME NEW w \in Wires
  PROVE  /\ <<>> \in Wires /\ Len(w) \in Nat
         /\ \A f \in Frames : Append(w, f) \in Wires
         /\ w # <<>> => Head(w) \in Frames /\ Tail(w) \in Wires
  BY DEF Wires

LEMMA FrameTypes ==
  /\ Notice \in Frames
  /\ \A k \in TerminalKinds : Final(k) \in Frames
  /\ \A n \in 0 .. Chunk : Output(n) \in Frames
<1>1. 0 \in 0 .. Chunk BY Numbers
<1>2. QED BY <1>1, Zenon DEF Notice, Final, Output, Frames

LEMMA EmptyTypes ==
  /\ \A b \in BOOLEAN : [units |-> 0, open |-> b] \in Pipes
  /\ \A c \in {"reading", "done"} : [pc |-> c, left |-> 0] \in Copiers
  BY Numbers DEF Pipes, Copiers

LEMMA TypeKept ==
  ASSUME Typed, Capped, Reported, Action
  PROVE  Typed'
<1>0. wire \in Wires /\ handler \in Handlers BY DEF Typed
<1>1. CASE DialSucceeds
  <2>1. host' \in Hosts BY <1>1 DEF DialSucceeds, Typed, Hosts
  <2>2. wire' \in Wires BY <1>0, <1>1, WireTypes DEF DialSucceeds
  <2>3. handler' \in Handlers BY <1>1 DEF DialSucceeds, Handlers
  <2>4. QED BY <1>1, <2>1, <2>2, <2>3 DEF DialSucceeds, Typed, procVars, copyVars, Conns
<1>2. CASE DialFails
  <2>1. CASE host.attempt < RetryMax
    <3>1. host.attempt + 1 \in 0 .. RetryMax BY <2>1, Numbers, Counters
    <3>2. host' = [host EXCEPT !.attempt = host.attempt + 1] BY <1>2, <2>1 DEF DialFails
    <3>3. host' \in Hosts BY <3>1, <3>2 DEF Typed, Hosts
    <3>4. QED BY <1>2, <3>3 DEF DialFails, Typed, procVars, copyVars
  <2>2. CASE ~(host.attempt < RetryMax)
    <3>1. host' \in Hosts BY <1>2, <2>2 DEF DialFails, Returns, Typed, Hosts
    <3>2. QED BY <1>2, <3>1 DEF DialFails, Typed, procVars, copyVars
  <2>3. QED BY <2>1, <2>2
<1>3. CASE DialCancelled
  BY <1>3, Numbers DEF DialCancelled, Typed, hostVars, procVars, copyVars, Hosts, Returns
<1>4. CASE SendRequest
  BY <1>4, Numbers DEF SendRequest, Typed, hostVars, procVars, copyVars, Hosts
<1>5. CASE SendFails
  BY <1>5, Numbers DEF SendFails, Typed, hostVars, procVars, copyVars, Hosts, Conns, Returns,
      CtxErrOr, HangUp
<1>6. CASE ReceiveFrame
  <2>1. Head(wire) \in Frames /\ wire' \in Wires BY <1>0, <1>6, WireTypes DEF ReceiveFrame
  <2>2. Head(wire).units \in Nat /\ Head(wire).kind \in TerminalKinds \cup {"output", "notice"}
    <3>1. Head(wire).units \in 0 .. Chunk BY <2>1 DEF Frames
    <3>2. QED BY <2>1, <3>1, Numbers DEF Frames
  <2>3. seen' \in Seens
    <3>1. seen' = [units |-> seen.units + Head(wire).units,
                   notice |-> seen.notice \/ Head(wire).kind = "notice",
                   last |-> Head(wire).kind]
      BY <1>6 DEF ReceiveFrame
    <3>2. seen.units + Head(wire).units \in Nat BY <2>2, Counters
    <3>3. (seen.notice \/ Head(wire).kind = "notice") \in BOOLEAN OBVIOUS
    <3>4. QED BY <2>2, <3>1, <3>2, <3>3 DEF Seens
  <2>4. host' \in Hosts /\ conn' \in Conns
    BY <1>6 DEF ReceiveFrame, Returns, HangUp, Typed, Hosts, Conns
  <2>5. QED BY <1>6, <2>1, <2>3, <2>4 DEF ReceiveFrame, Typed, procVars, copyVars
<1>7. CASE ReceiveFails
  BY <1>7, Numbers DEF ReceiveFails, Typed, hostVars, procVars, copyVars, Hosts, Returns,
      CtxErrOr
<1>8. CASE Cancel
  BY <1>8, Numbers DEF Cancel, Typed, hostVars, procVars, copyVars
<1>9. CASE CancelCloses
  BY <1>9, Numbers DEF CancelCloses, Typed, hostVars, procVars, copyVars, Conns
<1>10. CASE HandleRequest
  <2>1. CASE request = "exec" /\ handler' = [handler EXCEPT !.pc = "run"]
             /\ proc' = "running" /\ runs' = runs + 1
             /\ pipe' = [units |-> 0, open |-> TRUE]
             /\ copier' = [pc |-> "reading", left |-> 0]
    <3>1. handler' \in Handlers BY <1>0, <2>1 DEF Handlers
    <3>2. pipe' \in Pipes /\ copier' \in Copiers BY <2>1, EmptyTypes
    <3>3. runs' \in Nat BY <2>1, Counters
    <3>4. QED BY <1>10, <2>1, <3>1, <3>2, <3>3 DEF HandleRequest, Typed, hostVars, Scripts
  <2>2. CASE handler' = [pc |-> "final",
                         outcome |-> IF request = "ping" THEN "pong" ELSE "error"]
             /\ UNCHANGED <<proc, runs, pipe, copier>>
    <3>1. handler' \in Handlers BY <2>2 DEF Handlers, TerminalKinds
    <3>2. QED BY <1>10, <2>2, <3>1 DEF HandleRequest, Typed, hostVars
  <2>3. QED BY <1>10, <2>1, <2>2 DEF HandleRequest
<1>11. CASE HandlerGivesUp
  BY <1>11, Numbers DEF HandlerGivesUp, Typed, hostVars, procVars, copyVars, Handlers, Conns,
      HandlerReturns
<1>12. CASE Deadline
  BY <1>12, Numbers DEF Deadline, Typed, hostVars, procVars, copyVars, ContextEnds, Contexts,
      Kill, Scripts, Strays
<1>13. CASE AgentStops
  BY <1>13, Numbers DEF AgentStops, Typed, hostVars, procVars, copyVars, ContextEnds,
      Contexts, Kill, Scripts, Strays
<1>14. CASE DelayFires
  BY <1>14, Numbers DEF DelayFires, Typed, hostVars, procVars, copyVars, Pipes, Spoils
<1>15. CASE WaitReturns
  BY <1>15, Numbers DEF WaitReturns, Typed, hostVars, procVars, copyVars, Handlers, Strays,
      Outcome, TerminalKinds
<1>16. CASE SendNotice
  <2>1. wire' \in Wires BY <1>0, <1>16, WireTypes, FrameTypes DEF SendNotice, Write
  <2>2. handler' \in Handlers BY <1>0, <1>16 DEF SendNotice, Handlers
  <2>3. QED BY <1>16, <2>1, <2>2 DEF SendNotice, Typed, hostVars, procVars, copyVars
<1>17. CASE SendFinal
  <2>1. (IF gctx = "deadline" THEN "error" ELSE handler.outcome) \in TerminalKinds
    BY <1>0, <1>17 DEF SendFinal, Reported, Handlers, TerminalKinds
  <2>2. wire' \in Wires BY <1>0, <1>17, <2>1, WireTypes, FrameTypes DEF SendFinal, Write
  <2>3. handler' \in Handlers /\ conn' \in Conns
    BY <1>0, <1>17 DEF SendFinal, HandlerReturns, Handlers, Typed, Conns
  <2>4. QED BY <1>17, <2>2, <2>3 DEF SendFinal, Typed, hostVars, procVars, copyVars
<1>18. CASE ScriptWrites
  <2>1. CASE pipe.open /\ pipe.units < PipeCap /\ pipe' = [pipe EXCEPT !.units = @ + 1]
             /\ produced' = produced + 1 /\ UNCHANGED <<proc, stray>>
    <3>1. pipe.units + 1 \in 0 .. PipeCap /\ produced' \in 0 .. MaxProduced
      BY <1>18, <2>1, Numbers, Counters DEF ScriptWrites
    <3>2. pipe' \in Pipes BY <2>1, <3>1 DEF Typed, Pipes
    <3>3. QED BY <1>18, <2>1, <3>1, <3>2 DEF ScriptWrites, Typed, hostVars
  <2>2. CASE UNCHANGED <<pipe, produced>>
    BY <1>18, <2>2 DEF ScriptWrites, Typed, hostVars, Scripts, Strays
  <2>3. QED BY <1>18, <2>1, <2>2 DEF ScriptWrites
<1>19. CASE ScriptForks
  BY <1>19, Numbers DEF ScriptForks, Typed, hostVars, procVars, copyVars, Strays
<1>20. CASE ScriptExits
  BY <1>20, Numbers DEF ScriptExits, Typed, hostVars, procVars, copyVars, Scripts, Strays
<1>21. CASE VmDies
  <2>1. handler' \in Handlers /\ conn' \in Conns
    BY <1>0, <1>21 DEF VmDies, HandlerReturns, Handlers, Typed, Conns
  <2>2. pipe' \in Pipes /\ copier' \in Copiers BY <1>21, EmptyTypes DEF VmDies
  <2>3. QED BY <1>21, <2>1, <2>2 DEF VmDies, Typed, hostVars, Scripts, Strays
<1>22. CASE CopyReads
  <2>1. PICK n \in 1 .. pipe.units :
          /\ pipe' = [pipe EXCEPT !.units = @ - n]
          /\ copier' = [pc |-> IF Clip(n).units > 0 THEN "writing" ELSE "reading",
                        left |-> Clip(n).units]
          /\ sw' = [sw EXCEPT !.truncated = Clip(n).truncated]
    BY <1>22 DEF CopyReads
  <2>2. n \in Nat /\ pipe.units - n \in 0 .. PipeCap BY Numbers, Counters
  <2>3. Clip(n).units \in 0 .. n /\ Clip(n).truncated \in BOOLEAN BY <2>2, ClipFits
  <2>4. Clip(n).units \in 0 .. PipeCap BY <2>2, <2>3, Numbers, Counters
  <2>5. pipe' \in Pipes BY <2>1, <2>2 DEF Typed, Pipes
  <2>6. copier' \in Copiers BY <2>1, <2>4 DEF Copiers
  <2>7. sw' \in StreamWriters BY <2>1, <2>3 DEF Typed, StreamWriters
  <2>8. QED BY <1>22, <2>5, <2>6, <2>7 DEF CopyReads, Typed, hostVars, procVars
<1>23. CASE CopyWrites
  <2>1. /\ NextChunk \in 0 .. Chunk /\ copier.left - NextChunk \in 0 .. PipeCap
        /\ sw.written + NextChunk \in Nat
    BY ChunkFits, Numbers, Counters
  <2>2. wire' \in Wires BY <1>0, <1>23, <2>1, WireTypes, FrameTypes DEF CopyWrites, Write
  <2>3. copier' \in Copiers BY <1>23, <2>1 DEF CopyWrites, Copiers
  <2>4. sw' \in StreamWriters
    <3>1. sw' = [sw EXCEPT !.written = sw.written + NextChunk] BY <1>23 DEF CopyWrites
    <3>2. QED BY <2>1, <3>1 DEF Typed, StreamWriters
  <2>5. QED BY <1>23, <2>2, <2>3, <2>4 DEF CopyWrites, Typed, hostVars, procVars
<1>24. CASE CopyFails
  BY <1>24, Numbers DEF CopyFails, Typed, hostVars, procVars, copyVars, Copiers, Pipes, Spoils
<1>25. CASE CopyEnds
  BY <1>25, Numbers DEF CopyEnds, Typed, hostVars, procVars, copyVars, Copiers, Pipes
<1>26. QED
  BY <1>1, <1>2, <1>3, <1>4, <1>5, <1>6, <1>7, <1>8, <1>9, <1>10, <1>11, <1>12, <1>13, <1>14,
      <1>15, <1>16, <1>17, <1>18, <1>19, <1>20, <1>21, <1>22, <1>23, <1>24, <1>25 DEF Action,
      HostStep, GuestStep, HandlerStep, CopyStep
LEMMA FlowKept ==
  ASSUME Typed, FlowInv, Action
  PROVE  Grouped' /\ Fresh' /\ Reported' /\ RunsOnce'
<1>1. CASE DialSucceeds
    BY <1>1, Counters DEF DialSucceeds, Typed, FlowInv, Grouped, Fresh, Reported, RunsOnce,
      hostVars, procVars, copyVars, Hosts, Conns, Wires, Handlers
<1>2. CASE DialFails
    BY <1>2, Counters DEF DialFails, Typed, FlowInv, Grouped, Fresh, Reported, RunsOnce,
      hostVars, procVars, copyVars, Hosts, Returns
<1>3. CASE DialCancelled
    BY <1>3, Counters DEF DialCancelled, Typed, FlowInv, Grouped, Fresh, Reported, RunsOnce,
      hostVars, procVars, copyVars, Hosts, Returns
<1>4. CASE SendRequest
    BY <1>4, Counters DEF SendRequest, Typed, FlowInv, Grouped, Fresh, Reported, RunsOnce,
      hostVars, procVars, copyVars, Hosts
<1>5. CASE SendFails
    BY <1>5, Counters DEF SendFails, Typed, FlowInv, Grouped, Fresh, Reported, RunsOnce,
      hostVars, procVars, copyVars, Hosts, Conns, Returns, CtxErrOr, HangUp
<1>6. CASE ReceiveFrame
    BY <1>6, Counters DEF ReceiveFrame, Typed, FlowInv, Grouped, Fresh, Reported, RunsOnce,
      hostVars, procVars, copyVars, Hosts, Conns, Wires, Seens, Returns, HangUp
<1>7. CASE ReceiveFails
    BY <1>7, Counters DEF ReceiveFails, Typed, FlowInv, Grouped, Fresh, Reported, RunsOnce,
      hostVars, procVars, copyVars, Hosts, Returns, CtxErrOr
<1>8. CASE Cancel
    BY <1>8, Counters DEF Cancel, Typed, FlowInv, Grouped, Fresh, Reported, RunsOnce,
      hostVars, procVars, copyVars
<1>9. CASE CancelCloses
    BY <1>9, Counters DEF CancelCloses, Typed, FlowInv, Grouped, Fresh, Reported, RunsOnce,
      hostVars, procVars, copyVars, Conns
<1>10. CASE HandleRequest
  <2>1. CASE request = "exec" /\ handler' = [handler EXCEPT !.pc = "run"]
             /\ proc' = "running" /\ runs' = runs + 1
             /\ pipe' = [units |-> 0, open |-> TRUE]
             /\ copier' = [pc |-> "reading", left |-> 0]
    BY <1>10, <2>1, Counters DEF HandleRequest, Typed, hostVars, Handlers, FlowInv, Grouped, Fresh, Reported, RunsOnce
  <2>2. CASE /\ handler' = [pc |-> "final",
                           outcome |-> IF request = "ping" THEN "pong" ELSE "error"]
             /\ UNCHANGED <<proc, runs, pipe, copier>>
    BY <1>10, <2>2, Counters DEF HandleRequest, Typed, hostVars, Handlers, FlowInv, Grouped, Fresh, Reported, RunsOnce
  <2>3. QED BY <1>10, <2>1, <2>2 DEF HandleRequest
<1>11. CASE HandlerGivesUp
    BY <1>11, Counters DEF HandlerGivesUp, Typed, FlowInv, Grouped, Fresh, Reported, RunsOnce,
      hostVars, procVars, copyVars, Handlers, Conns, HandlerReturns
<1>12. CASE Deadline
    BY <1>12, Counters DEF Deadline, Typed, FlowInv, Grouped, Fresh, Reported, RunsOnce,
      hostVars, procVars, copyVars, ContextEnds, Contexts, Kill, Scripts, Strays
<1>13. CASE AgentStops
    BY <1>13, Counters DEF AgentStops, Typed, FlowInv, Grouped, Fresh, Reported, RunsOnce,
      hostVars, procVars, copyVars, ContextEnds, Contexts, Kill, Scripts, Strays
<1>14. CASE DelayFires
    BY <1>14, Counters DEF DelayFires, Typed, FlowInv, Grouped, Fresh, Reported, RunsOnce,
      hostVars, procVars, copyVars, Pipes, Spoils
<1>15. CASE WaitReturns
    BY <1>15, Counters DEF WaitReturns, Typed, FlowInv, Grouped, Fresh, Reported, RunsOnce,
      hostVars, procVars, copyVars, Handlers, Strays, Outcome, TerminalKinds
<1>16. CASE SendNotice
    BY <1>16, Counters DEF SendNotice, Typed, FlowInv, Grouped, Fresh, Reported, RunsOnce,
      hostVars, procVars, copyVars, Handlers, Wires, Write, Notice
<1>17. CASE SendFinal
    BY <1>17, Counters DEF SendFinal, Typed, FlowInv, Grouped, Fresh, Reported, RunsOnce,
      hostVars, procVars, copyVars, Handlers, Wires, Write, Final, HandlerReturns, Conns,
      TerminalKinds
<1>18. CASE ScriptWrites
    BY <1>18, Counters DEF ScriptWrites, Typed, FlowInv, Grouped, Fresh, Reported, RunsOnce,
      hostVars, procVars, copyVars, Pipes, Scripts, Strays, Writers
<1>19. CASE ScriptForks
    BY <1>19, Counters DEF ScriptForks, Typed, FlowInv, Grouped, Fresh, Reported, RunsOnce,
      hostVars, procVars, copyVars, Strays
<1>20. CASE ScriptExits
    BY <1>20, Counters DEF ScriptExits, Typed, FlowInv, Grouped, Fresh, Reported, RunsOnce,
      hostVars, procVars, copyVars, Scripts, Strays
<1>21. CASE VmDies
    BY <1>21, Counters DEF VmDies, Typed, FlowInv, Grouped, Fresh, Reported, RunsOnce,
      hostVars, procVars, copyVars, Handlers, HandlerReturns, Conns, Scripts, Strays, Copiers,
      Pipes
<1>22. CASE CopyReads
    BY <1>22, Counters DEF CopyReads, Typed, FlowInv, Grouped, Fresh, Reported, RunsOnce,
      hostVars, procVars, copyVars, Pipes, Copiers, StreamWriters
<1>23. CASE CopyWrites
    BY <1>23, Counters DEF CopyWrites, Typed, FlowInv, Grouped, Fresh, Reported, RunsOnce,
      hostVars, procVars, copyVars, Wires, Write, Output, StreamWriters, Copiers
<1>24. CASE CopyFails
    BY <1>24, Counters DEF CopyFails, Typed, FlowInv, Grouped, Fresh, Reported, RunsOnce,
      hostVars, procVars, copyVars, Copiers, Pipes, Spoils
<1>25. CASE CopyEnds
    BY <1>25, Counters DEF CopyEnds, Typed, FlowInv, Grouped, Fresh, Reported, RunsOnce,
      hostVars, procVars, copyVars, Copiers, Pipes
<1>26. QED
  BY <1>1, <1>2, <1>3, <1>4, <1>5, <1>6, <1>7, <1>8, <1>9, <1>10, <1>11, <1>12, <1>13, <1>14, <1>15, <1>16, <1>17, <1>18, <1>19, <1>20, <1>21, <1>22, <1>23, <1>24, <1>25
  DEF Action, HostStep, GuestStep, HandlerStep, CopyStep
LEMMA PipeKept ==
  ASSUME Typed, FlowInv, Action
  PROVE  Piped' /\ Capped'
<1>1. CASE DialSucceeds
    BY <1>1, Numbers, Counters DEF DialSucceeds, Typed, FlowInv, Grouped, Fresh, Piped,
      Capped, hostVars, procVars, copyVars, Hosts, Conns, Wires, Handlers
<1>2. CASE DialFails
    BY <1>2, Numbers, Counters DEF DialFails, Typed, FlowInv, Grouped, Fresh, Piped, Capped,
      hostVars, procVars, copyVars, Hosts, Returns
<1>3. CASE DialCancelled
    BY <1>3, Numbers, Counters DEF DialCancelled, Typed, FlowInv, Grouped, Fresh, Piped,
      Capped, hostVars, procVars, copyVars, Hosts, Returns
<1>4. CASE SendRequest
    BY <1>4, Numbers, Counters DEF SendRequest, Typed, FlowInv, Grouped, Fresh, Piped, Capped,
      hostVars, procVars, copyVars, Hosts
<1>5. CASE SendFails
    BY <1>5, Numbers, Counters DEF SendFails, Typed, FlowInv, Grouped, Fresh, Piped, Capped,
      hostVars, procVars, copyVars, Hosts, Conns, Returns, CtxErrOr, HangUp
<1>6. CASE ReceiveFrame
    BY <1>6, Numbers, Counters DEF ReceiveFrame, Typed, FlowInv, Grouped, Fresh, Piped,
      Capped, hostVars, procVars, copyVars, Hosts, Conns, Wires, Seens, Returns, HangUp
<1>7. CASE ReceiveFails
    BY <1>7, Numbers, Counters DEF ReceiveFails, Typed, FlowInv, Grouped, Fresh, Piped,
      Capped, hostVars, procVars, copyVars, Hosts, Returns, CtxErrOr
<1>8. CASE Cancel
    BY <1>8, Numbers, Counters DEF Cancel, Typed, FlowInv, Grouped, Fresh, Piped, Capped,
      hostVars, procVars, copyVars
<1>9. CASE CancelCloses
    BY <1>9, Numbers, Counters DEF CancelCloses, Typed, FlowInv, Grouped, Fresh, Piped,
      Capped, hostVars, procVars, copyVars, Conns
<1>10. CASE HandleRequest
  <2>1. CASE request = "exec" /\ handler' = [handler EXCEPT !.pc = "run"]
             /\ proc' = "running" /\ runs' = runs + 1
             /\ pipe' = [units |-> 0, open |-> TRUE]
             /\ copier' = [pc |-> "reading", left |-> 0]
    BY <1>10, <2>1, Numbers, Counters DEF HandleRequest, Typed, hostVars, Handlers, FlowInv, Fresh, Piped, Capped
  <2>2. CASE /\ handler' = [pc |-> "final",
                           outcome |-> IF request = "ping" THEN "pong" ELSE "error"]
             /\ UNCHANGED <<proc, runs, pipe, copier>>
    BY <1>10, <2>2, Numbers, Counters DEF HandleRequest, Typed, hostVars, Handlers, FlowInv, Fresh, Piped, Capped
  <2>3. QED BY <1>10, <2>1, <2>2 DEF HandleRequest
<1>11. CASE HandlerGivesUp
    BY <1>11, Numbers, Counters DEF HandlerGivesUp, Typed, FlowInv, Grouped, Fresh, Piped,
      Capped, hostVars, procVars, copyVars, Handlers, Conns, HandlerReturns
<1>12. CASE Deadline
    BY <1>12, Numbers, Counters DEF Deadline, Typed, FlowInv, Grouped, Fresh, Piped, Capped,
      hostVars, procVars, copyVars, ContextEnds, Contexts, Kill, Scripts, Strays
<1>13. CASE AgentStops
    BY <1>13, Numbers, Counters DEF AgentStops, Typed, FlowInv, Grouped, Fresh, Piped, Capped,
      hostVars, procVars, copyVars, ContextEnds, Contexts, Kill, Scripts, Strays
<1>14. CASE DelayFires
    BY <1>14, Numbers, Counters DEF DelayFires, Typed, FlowInv, Grouped, Fresh, Piped, Capped,
      hostVars, procVars, copyVars, Pipes, Spoils
<1>15. CASE WaitReturns
    BY <1>15, Numbers, Counters DEF WaitReturns, Typed, FlowInv, Grouped, Fresh, Piped,
      Capped, hostVars, procVars, copyVars, Handlers, Strays, Outcome, TerminalKinds
<1>16. CASE SendNotice
    BY <1>16, Numbers, Counters DEF SendNotice, Typed, FlowInv, Grouped, Fresh, Piped, Capped,
      hostVars, procVars, copyVars, Handlers, Wires, Write, Notice
<1>17. CASE SendFinal
    BY <1>17, Numbers, Counters DEF SendFinal, Typed, FlowInv, Grouped, Fresh, Piped, Capped,
      hostVars, procVars, copyVars, Handlers, Wires, Write, Final, HandlerReturns, Conns,
      TerminalKinds
<1>18. CASE ScriptWrites
    BY <1>18, Numbers, Counters DEF ScriptWrites, Typed, FlowInv, Grouped, Fresh, Piped,
      Capped, hostVars, procVars, copyVars, Pipes, Scripts, Strays, Writers
<1>19. CASE ScriptForks
    BY <1>19, Numbers, Counters DEF ScriptForks, Typed, FlowInv, Grouped, Fresh, Piped,
      Capped, hostVars, procVars, copyVars, Strays
<1>20. CASE ScriptExits
    BY <1>20, Numbers, Counters DEF ScriptExits, Typed, FlowInv, Grouped, Fresh, Piped,
      Capped, hostVars, procVars, copyVars, Scripts, Strays
<1>21. CASE VmDies
  <2>1. /\ copier' = [pc |-> "done", left |-> 0] /\ pipe' = [units |-> 0, open |-> FALSE]
        /\ sw' = sw
    BY <1>21 DEF VmDies
  <2>2. Capped' BY <2>1, Counters, Numbers DEF FlowInv, Capped
  <2>3. QED BY <2>1, <2>2 DEF Piped
<1>22. CASE CopyReads
  <2>1. PICK n \in 1 .. pipe.units :
          /\ pipe' = [pipe EXCEPT !.units = @ - n]
          /\ copier' = [pc |-> IF Clip(n).units > 0 THEN "writing" ELSE "reading",
                        left |-> Clip(n).units]
          /\ sw' = [sw EXCEPT !.truncated = Clip(n).truncated]
    BY <1>22 DEF CopyReads
  <2>2. n \in Nat /\ Clip(n).units \in Nat BY ClipFits, Counters DEF FlowInv
  <2>3. sw'.written = sw.written BY <2>1 DEF Typed, StreamWriters
  <2>4. Capped'
    <3>1. MaxOutput > 0 => sw.written + Clip(n).units <= MaxOutput
      BY <2>2, ClipFits DEF FlowInv
    <3>2. copier'.left = Clip(n).units BY <2>1
    <3>3. QED BY <2>3, <3>1, <3>2 DEF Capped
  <2>5. pipe.open /\ pipe'.open = pipe.open BY <1>22, <2>1 DEF CopyReads, Typed, Pipes
  <2>6. copier'.pc = "reading" => copier'.left = 0 BY <2>1, <2>2
  <2>7. copier'.pc # "done" BY <2>1
  <2>8. QED BY <2>4, <2>5, <2>6, <2>7 DEF Piped
<1>23. CASE CopyWrites
  <2>1. /\ copier' = [pc |-> IF copier.left > NextChunk THEN "writing" ELSE "reading",
                     left |-> copier.left - NextChunk]
        /\ pipe' = pipe /\ waitErr' = waitErr
    BY <1>23 DEF CopyWrites
  <2>2. sw'.written = sw.written + NextChunk BY <1>23 DEF CopyWrites, Typed, StreamWriters
  <2>3. NextChunk \in Nat /\ NextChunk <= copier.left BY ChunkFits, Numbers
  <2>4. Capped' BY <2>1, <2>2, <2>3, Counters, Numbers DEF FlowInv, Capped
  <2>5. copier'.pc = "reading" => copier'.left = 0 BY <2>1, <2>3, Counters
  <2>6. copier'.pc # "done" /\ copier.pc # "done" BY <1>23, <2>1 DEF CopyWrites
  <2>7. QED BY <2>1, <2>4, <2>5, <2>6 DEF FlowInv, Piped
<1>24. CASE CopyFails
    BY <1>24, Numbers, Counters DEF CopyFails, Typed, FlowInv, Grouped, Fresh, Piped, Capped,
      hostVars, procVars, copyVars, Copiers, Pipes, Spoils
<1>25. CASE CopyEnds
    BY <1>25, Numbers, Counters DEF CopyEnds, Typed, FlowInv, Grouped, Fresh, Piped, Capped,
      hostVars, procVars, copyVars, Copiers, Pipes
<1>26. QED
  BY <1>1, <1>2, <1>3, <1>4, <1>5, <1>6, <1>7, <1>8, <1>9, <1>10, <1>11, <1>12, <1>13, <1>14, <1>15, <1>16, <1>17, <1>18, <1>19, <1>20, <1>21, <1>22, <1>23, <1>24, <1>25
  DEF Action, HostStep, GuestStep, HandlerStep, CopyStep
-----------------------------------------------------------------------------
(* The output on its way to the caller.                                     *)

LEMMA LedgerSends ==
  ASSUME NEW w \in Wires, NEW from, NEW to \in Nat, NEW fr \in Frames,
         \E f \in [0 .. Len(w) -> 0 .. to] : Ledger(f, w, from, to)
  PROVE  \E g \in [0 .. Len(Append(w, fr)) -> 0 .. to + fr.units] :
           Ledger(g, Append(w, fr), from, to + fr.units)
<1>1. PICK f \in [0 .. Len(w) -> 0 .. to] : Ledger(f, w, from, to)
  OBVIOUS
<1> DEFINE n == Len(w)
           v == Append(w, fr)
           g == [i \in 0 .. n + 1 |-> IF i <= n THEN f[i] ELSE to + fr.units]
<1>2. fr.units \in Nat
  <2>1. fr.units \in 0 .. Chunk BY DEF Frames
  <2>2. QED BY <2>1, Numbers
<1>3. n \in Nat /\ Len(v) = n + 1 /\ v[n + 1] = fr /\ \A i \in 1 .. n : v[i] = w[i]
  BY DEF Wires
<1>4. g \in [0 .. n + 1 -> 0 .. to + fr.units]
  BY <1>2, <1>3
<1>5. g[0] = from /\ g[n + 1] = to + fr.units
  BY <1>1, <1>3 DEF Ledger
<1>6. ASSUME NEW i \in 1 .. n + 1 PROVE g[i] = g[i - 1] + v[i].units
  <2>1. CASE i <= n
    BY <1>1, <1>3, <2>1 DEF Ledger
  <2>2. CASE i = n + 1
    BY <1>1, <1>3, <2>2 DEF Ledger
  <2>3. QED BY <1>3, <2>1, <2>2
<1>7. Ledger(g, v, from, to + fr.units)
  BY <1>3, <1>5, <1>6 DEF Ledger
<1>8. QED BY <1>3, <1>4, <1>7

LEMMA LedgerReceives ==
  ASSUME NEW w \in Wires, w # <<>>, NEW from, NEW to \in Nat,
         \E f \in [0 .. Len(w) -> 0 .. to] : Ledger(f, w, from, to)
  PROVE  \E g \in [0 .. Len(Tail(w)) -> 0 .. to] :
           Ledger(g, Tail(w), from + Head(w).units, to)
<1>1. PICK f \in [0 .. Len(w) -> 0 .. to] : Ledger(f, w, from, to)
  OBVIOUS
<1> DEFINE n == Len(w)
           v == Tail(w)
           g == [i \in 0 .. n - 1 |-> f[i + 1]]
<1>2. n \in Nat /\ n > 0 /\ Len(v) = n - 1 /\ Head(w) = w[1] /\ \A i \in 1 .. n - 1 : v[i] = w[i + 1]
  BY DEF Wires
<1>3. g \in [0 .. n - 1 -> 0 .. to]
  BY <1>2
<1>4. g[0] = from + Head(w).units /\ g[n - 1] = to
  BY <1>1, <1>2 DEF Ledger
<1>5. ASSUME NEW i \in 1 .. n - 1 PROVE g[i] = g[i - 1] + v[i].units
  BY <1>1, <1>2 DEF Ledger
<1>6. Ledger(g, v, from + Head(w).units, to)
  BY <1>2, <1>4, <1>5 DEF Ledger
<1>7. QED BY <1>2, <1>3, <1>6

\* A step that sends frame fr, or none when the connection is closed.
LEMMA TransitSends ==
  ASSUME Typed, InTransit, NEW fr \in Frames, Write(fr), seen' = seen,
         sw'.written = IF conn = "open" THEN sw.written + fr.units ELSE sw.written
  PROVE  InTransit'
<1>1. wire \in Wires /\ sw.written \in Nat BY Counters DEF Typed
<1>2. CASE conn = "open"
  <2>1. wire' = Append(wire, fr) BY <1>2 DEF Write
  <2>2. \E g \in [0 .. Len(wire') -> 0 .. sw.written + fr.units] :
          Ledger(g, wire', seen.units, sw.written + fr.units)
    BY <1>1, <2>1, LedgerSends DEF InTransit
  <2>3. QED BY <1>2, <2>2 DEF InTransit
<1>3. CASE conn # "open"
  BY <1>3 DEF InTransit, Write
<1>4. QED BY <1>2, <1>3

LEMMA TransitKept ==
  ASSUME Typed, FlowInv, InTransit, Action
  PROVE  InTransit'
<1>0. wire \in Wires /\ sw.written \in Nat BY Counters DEF Typed
<1>1. CASE UNCHANGED <<wire, seen, sw>>
  BY <1>1 DEF InTransit
<1>2. CASE DialSucceeds
  BY <1>2, <1>1 DEF DialSucceeds, FlowInv, Fresh, copyVars
<1>3. CASE ReceiveFrame
  <2>1. /\ wire # <<>> /\ wire' = Tail(wire) /\ sw' = sw
        /\ seen'.units = seen.units + Head(wire).units
    BY <1>3 DEF ReceiveFrame, copyVars
  <2>2. \E g \in [0 .. Len(Tail(wire)) -> 0 .. sw.written] :
          Ledger(g, Tail(wire), seen.units + Head(wire).units, sw.written)
    BY <1>0, <2>1, LedgerReceives DEF InTransit
  <2>3. QED BY <2>1, <2>2 DEF InTransit
<1>4. CASE SendNotice
  <2>1. Notice \in Frames /\ Notice.units = 0 /\ Write(Notice) /\ seen' = seen /\ sw' = sw
    BY <1>4, FrameTypes DEF SendNotice, Notice, hostVars, copyVars
  <2>2. QED BY <1>0, <2>1, TransitSends
<1>5. CASE SendFinal
  <2> DEFINE k == IF gctx = "deadline" THEN "error" ELSE handler.outcome
  <2>1. k \in TerminalKinds
    BY <1>5 DEF SendFinal, FlowInv, Reported, Typed, Handlers, TerminalKinds
  <2>2. Write(Final(k)) /\ seen' = seen /\ sw' = sw
    BY <1>5 DEF SendFinal, hostVars, copyVars
  <2> HIDE DEF k
  <2>3. Final(k) \in Frames /\ Final(k).units = 0
    BY <2>1, FrameTypes DEF Final
  <2>4. QED BY <1>0, <2>2, <2>3, TransitSends
<1>6. CASE CopyReads
  BY <1>6, <1>0 DEF CopyReads, InTransit, Typed, StreamWriters, hostVars
<1>7. CASE CopyWrites
  <2>1. NextChunk \in 0 .. Chunk BY ChunkFits
  <2>2. Output(NextChunk) \in Frames /\ Output(NextChunk).units = NextChunk
    BY <2>1, FrameTypes DEF Output
  <2>3. /\ Write(Output(NextChunk)) /\ seen' = seen /\ conn = "open"
        /\ sw'.written = sw.written + NextChunk
    BY <1>7 DEF CopyWrites, hostVars, Typed, StreamWriters
  <2>4. QED BY <2>2, <2>3, TransitSends
<1>8. QED
  BY <1>1, <1>2, <1>3, <1>4, <1>5, <1>6, <1>7
  DEF Action, HostStep, GuestStep, HandlerStep, CopyStep, hostVars, copyVars, DialFails, DialCancelled,
      SendRequest, SendFails, ReceiveFails, Cancel, CancelCloses, HandleRequest,
      HandlerGivesUp, Deadline, AgentStops, ContextEnds, DelayFires, WaitReturns,
      ScriptWrites, ScriptForks, ScriptExits, VmDies, CopyFails, CopyEnds
-----------------------------------------------------------------------------
(* No output is lost in the pipe.                                           *)

LEMMA ConservedKept ==
  ASSUME Typed, FlowInv, Conserved, Action
  PROVE  Conserved'
<1> DEFINE Answering == {"run", "notice", "final"}
<1>0. /\ sw.written \in Nat /\ copier.left \in Nat /\ pipe.units \in Nat /\ produced \in Nat
      /\ MaxOutput \in Nat
  BY Counters, Numbers
<1>1. CASE /\ UNCHANGED <<sw, copier, pipe, produced, waitErr>>
           /\ handler'.pc \in Answering => handler.pc \in Answering
  BY <1>1 DEF Conserved
<1>2. CASE waitErr' # {} \/ handler'.pc = "done"
  BY <1>2 DEF Conserved
<1>3. CASE HandleRequest
  <2>1. sw'.written = 0 /\ ~sw'.truncated /\ produced' = 0
    BY <1>3 DEF HandleRequest, FlowInv, Fresh
  <2>2. copier'.left = 0 /\ pipe'.units = 0
    <3>1. copier.pc = "done" BY <1>3 DEF HandleRequest, FlowInv, Grouped
    <3>2. copier.left = 0 /\ pipe.units = 0 BY <3>1 DEF FlowInv, Piped
    <3>3. QED BY <1>3, <3>2 DEF HandleRequest
  <2>3. QED BY <2>1, <2>2 DEF Conserved
<1>4. CASE ScriptWrites
  <2>1. CASE UNCHANGED <<pipe, produced>>
    BY <1>1, <1>4, <2>1 DEF ScriptWrites
  <2>2. CASE /\ pipe' = [pipe EXCEPT !.units = @ + 1] /\ produced' = produced + 1
    <3>1. pipe'.units = pipe.units + 1 BY <2>2 DEF Typed, Pipes
    <3>2. UNCHANGED <<sw, copier, waitErr, handler>> BY <1>4 DEF ScriptWrites
    <3>3. QED BY <1>0, <2>2, <3>1, <3>2 DEF Conserved
  <2>3. QED BY <1>4, <2>1, <2>2 DEF ScriptWrites
<1>5. CASE CopyReads
  <2>1. PICK n \in 1 .. pipe.units :
          /\ pipe' = [pipe EXCEPT !.units = @ - n]
          /\ copier' = [pc |-> IF Clip(n).units > 0 THEN "writing" ELSE "reading",
                        left |-> Clip(n).units]
          /\ sw' = [sw EXCEPT !.truncated = Clip(n).truncated]
    BY <1>5 DEF CopyReads
  <2>2. /\ copier.left = 0 /\ copier'.left = Clip(n).units
        /\ pipe'.units = pipe.units - n
        /\ sw'.written = sw.written /\ sw'.truncated = Clip(n).truncated
        /\ UNCHANGED <<produced, waitErr, handler>>
    BY <1>5, <2>1 DEF CopyReads, FlowInv, Piped, Typed, Pipes, StreamWriters, procVars
  <2>3. n \in Nat /\ n <= pipe.units BY <1>0
  <2>4. CASE sw.truncated
    <3>1. Clip(n).units = 0 /\ Clip(n).truncated BY <2>4 DEF Clip
    <3>2. QED BY <1>0, <2>2, <2>4, <3>1 DEF Conserved
  <2>5. CASE ~sw.truncated /\ MaxOutput > 0 /\ sw.written + n > MaxOutput
    <3>1. Clip(n).units = MaxOutput - sw.written /\ Clip(n).truncated BY <2>5 DEF Clip
    <3>2. QED BY <1>0, <2>2, <2>3, <2>5, <3>1 DEF Conserved
  <2>6. CASE ~sw.truncated /\ ~(MaxOutput > 0 /\ sw.written + n > MaxOutput)
    <3>1. Clip(n).units = n /\ ~Clip(n).truncated BY <2>6 DEF Clip
    <3>2. QED BY <1>0, <2>2, <2>3, <2>6, <3>1 DEF Conserved
  <2>7. QED BY <2>4, <2>5, <2>6
<1>6. CASE CopyWrites
  <2>1. /\ copier'.left = copier.left - NextChunk
        /\ sw'.written = sw.written + NextChunk /\ sw'.truncated = sw.truncated
        /\ UNCHANGED <<pipe, produced, waitErr, handler>>
    BY <1>6 DEF CopyWrites, Typed, StreamWriters, procVars
  <2>2. NextChunk \in Nat /\ NextChunk <= copier.left BY ChunkFits, Numbers
  <2>3. QED BY <1>0, <2>1, <2>2 DEF Conserved
<1>7. CASE CopyEnds
  <2>1. /\ copier'.left = copier.left /\ pipe'.units = pipe.units
        /\ UNCHANGED <<sw, produced, waitErr, handler>>
    BY <1>7 DEF CopyEnds, procVars, Typed, Copiers, Pipes
  <2>2. QED BY <2>1 DEF Conserved
<1>8. CASE HandlerGivesUp \/ SendFinal \/ VmDies
  <2>1. handler'.pc = "done"
    BY <1>8 DEF HandlerGivesUp, SendFinal, VmDies, HandlerReturns, Typed, Handlers
  <2>2. QED BY <1>2, <2>1
<1>9. CASE DialSucceeds \/ WaitReturns \/ SendNotice
  <2>1. UNCHANGED <<sw, copier, pipe, produced, waitErr>>
    BY <1>9 DEF DialSucceeds, WaitReturns, SendNotice, procVars, copyVars
  <2>2. handler'.pc \in Answering => handler.pc \in Answering
    BY <1>9 DEF DialSucceeds, WaitReturns, SendNotice, Typed, Handlers
  <2>3. QED BY <1>1, <2>1, <2>2
<1>10. CASE DelayFires \/ CopyFails
  BY <1>2, <1>10 DEF DelayFires, CopyFails
<1>11. CASE UNCHANGED <<handler, sw, copier, pipe, produced, waitErr>>
  BY <1>1, <1>11
<1>12. QED
  BY <1>3, <1>4, <1>5, <1>6, <1>7, <1>8, <1>9, <1>10, <1>11
  DEF Action, HostStep, GuestStep, HandlerStep, CopyStep, procVars, copyVars, DialFails, DialCancelled,
      SendRequest, SendFails, ReceiveFrame, ReceiveFails, Cancel, CancelCloses, Deadline,
      AgentStops, ContextEnds, ScriptForks, ScriptExits
-----------------------------------------------------------------------------
(* The frames that end an answer.                                           *)

\* The wire after a frame was sent, or not because the connection is closed.
LEMMA SentWire ==
  ASSUME Typed, NEW fr \in Frames, Write(fr)
  PROVE  /\ conn = "open" => /\ Len(wire') = Len(wire) + 1 /\ wire'[Len(wire) + 1] = fr
                             /\ \A i \in 1 .. Len(wire) : wire'[i] = wire[i]
         /\ conn # "open" => wire' = wire
         /\ Len(wire) \in Nat
  BY DEF Typed, Wires, Write

LEMMA SentKinds ==
  ASSUME Typed, NEW fr \in Frames, Write(fr), NEW k
  PROVE  OnWire(k)' <=> OnWire(k) \/ (conn = "open" /\ fr.kind = k)
  BY SentWire DEF OnWire

\* The wire after its first frame was received.
LEMMA ReceivedWire ==
  ASSUME Typed, wire # <<>>, wire' = Tail(wire)
  PROVE  /\ Len(wire) \in Nat /\ Len(wire) > 0 /\ Len(wire') = Len(wire) - 1
         /\ wire[1] = Head(wire)
         /\ \A i \in 1 .. Len(wire') : wire'[i] = wire[i + 1]
         /\ Len(wire) = 1 => wire' = <<>>
  BY DEF Typed, Wires

LEMMA ReceivedKinds ==
  ASSUME Typed, wire # <<>>, wire' = Tail(wire), NEW k
  PROVE  OnWire(k) <=> Head(wire).kind = k \/ OnWire(k)'
<1>1. ASSUME OnWire(k) PROVE Head(wire).kind = k \/ OnWire(k)'
  <2>1. PICK i \in 1 .. Len(wire) : wire[i].kind = k BY <1>1 DEF OnWire
  <2>2. CASE i = 1 BY <2>1, <2>2, ReceivedWire
  <2>3. CASE i # 1
    <3>1. i - 1 \in 1 .. Len(wire') /\ wire'[i - 1] = wire[i] BY <2>3, ReceivedWire
    <3>2. QED BY <2>1, <3>1 DEF OnWire
  <2>4. QED BY <2>2, <2>3
<1>2. ASSUME Head(wire).kind = k PROVE OnWire(k)
  BY <1>2, ReceivedWire DEF OnWire
<1>3. ASSUME OnWire(k)' PROVE OnWire(k)
  <2>1. PICK i \in 1 .. Len(wire') : wire'[i].kind = k BY <1>3 DEF OnWire
  <2>2. i + 1 \in 1 .. Len(wire) /\ wire'[i] = wire[i + 1] BY ReceivedWire
  <2>3. QED BY <2>1, <2>2 DEF OnWire
<1>4. QED BY <1>1, <1>2, <1>3

\* What a handler that answers writes last.
Answer == IF gctx = "deadline" THEN "error" ELSE handler.outcome

LEMMA AnswerTypes ==
  ASSUME Typed, FlowInv, SendFinal
  PROVE  /\ Answer \in TerminalKinds /\ Final(Answer) \in Frames
         /\ Final(Answer).kind = Answer /\ Write(Final(Answer))
<1>1. Answer \in TerminalKinds
  BY DEF Answer, SendFinal, FlowInv, Reported, Typed, Handlers, TerminalKinds
<1>2. Write(Final(Answer)) BY DEF SendFinal, Answer
<1>3. QED BY <1>1, <1>2, FrameTypes DEF Final

LEMMA LastKept ==
  ASSUME Typed, FlowInv, LastIsLast, Action
  PROVE  LastIsLast'
<1>1. CASE /\ UNCHANGED wire
           /\ handler.pc = "done" => handler'.pc = "done"
           /\ host'.result \in TerminalKinds => host.result \in TerminalKinds
  BY <1>1 DEF LastIsLast
<1>2. CASE DialSucceeds
  <2>1. wire' = <<>> /\ host.result = "none" /\ host'.result = host.result
    BY <1>2 DEF DialSucceeds, FlowInv, Fresh, Typed, Hosts
  <2>2. Len(wire') = 0 BY <2>1
  <2>3. host'.result \notin TerminalKinds BY <2>1 DEF TerminalKinds
  <2>4. \A i \in 1 .. Len(wire') : FALSE BY <2>2
  <2>5. QED BY <2>3, <2>4 DEF LastIsLast
<1>3. CASE ReceiveFrame
  <2>1. wire # <<>> /\ wire' = Tail(wire) /\ handler' = handler
    BY <1>3 DEF ReceiveFrame
  <2>2. ASSUME NEW i \in 1 .. Len(wire'), wire'[i].kind \in TerminalKinds
        PROVE  i = Len(wire') /\ handler'.pc = "done"
    <3>1. i + 1 \in 1 .. Len(wire) /\ wire'[i] = wire[i + 1] BY <2>1, ReceivedWire
    <3>2. i + 1 = Len(wire) /\ handler.pc = "done" BY <2>2, <3>1 DEF LastIsLast
    <3>3. QED BY <2>1, <3>2, ReceivedWire
  <2>3. CASE Head(wire).kind \in TerminalKinds
    <3>0. 1 \in 1 .. Len(wire) /\ wire[1].kind \in TerminalKinds
      BY <2>1, <2>3, ReceivedWire
    <3>1. 1 = Len(wire) /\ handler.pc = "done" BY <3>0 DEF LastIsLast
    <3>2. wire' = <<>> BY <2>1, <3>1, ReceivedWire
    <3>3. QED BY <2>1, <2>2, <3>1, <3>2 DEF LastIsLast
  <2>4. CASE Head(wire).kind \notin TerminalKinds
    <3>1. host' = host BY <1>3, <2>4 DEF ReceiveFrame
    <3>2. host.result \notin TerminalKinds BY <2>1 DEF LastIsLast
    <3>3. QED BY <2>2, <3>1, <3>2 DEF LastIsLast
  <2>5. QED BY <2>3, <2>4
<1>4. ASSUME NEW fr \in Frames, Write(fr), fr.kind \notin TerminalKinds, handler.pc # "done",
             host' = host
      PROVE  LastIsLast'
  BY <1>4, SentWire DEF LastIsLast
<1>5. CASE SendNotice
  <2>1. Notice \in Frames /\ Notice.kind = "notice" BY FrameTypes DEF Notice
  <2>2. QED BY <1>4, <1>5, <2>1 DEF SendNotice, TerminalKinds, hostVars
<1>6. CASE CopyWrites
  <2>1. Output(NextChunk) \in Frames /\ Output(NextChunk).kind = "output"
    BY ChunkFits, FrameTypes DEF Output
  <2>2. handler.pc = "run" BY <1>6 DEF CopyWrites, FlowInv, Grouped
  <2>3. QED BY <1>4, <1>6, <2>1, <2>2 DEF CopyWrites, TerminalKinds, hostVars
<1>7. CASE SendFinal
  <2>1. handler.pc # "done" /\ handler'.pc = "done" /\ host' = host
    BY <1>7 DEF SendFinal, HandlerReturns, hostVars, Typed, Handlers
  <2>2. /\ Final(Answer) \in Frames /\ Write(Final(Answer))
    BY <1>7, AnswerTypes
  <2>3. QED BY <2>1, <2>2, SentWire DEF LastIsLast
<1>8. UNCHANGED wire => (handler.pc = "done" => handler'.pc = "done")
  BY DEF Action, HostStep, GuestStep, HandlerStep, CopyStep, hostVars, DialSucceeds, DialFails,
      DialCancelled, SendRequest, SendFails, ReceiveFrame, ReceiveFails, Cancel, CancelCloses,
      HandleRequest, HandlerGivesUp, HandlerReturns, Deadline, AgentStops, ContextEnds,
      DelayFires, WaitReturns, SendNotice, SendFinal, ScriptWrites, ScriptForks, ScriptExits,
      VmDies, CopyReads, CopyWrites, CopyFails, CopyEnds, FlowInv, Fresh
<1>9. CASE DialFails \/ DialCancelled \/ SendRequest \/ SendFails \/ ReceiveFails
  <2>1. UNCHANGED <<wire, handler>>
    BY <1>9 DEF DialFails, DialCancelled, SendRequest, SendFails, ReceiveFails
  <2>2. host'.result \in {host.result, "gave up", "cancelled", "send failed", "lost"}
    BY <1>9 DEF DialFails, DialCancelled, SendRequest, SendFails, ReceiveFails, Returns,
      CtxErrOr, Typed, Hosts
  <2>3. QED BY <1>1, <2>1, <2>2 DEF TerminalKinds
<1>10. CASE UNCHANGED <<wire, host>>
  BY <1>1, <1>8, <1>10
<1>11. QED
  BY <1>2, <1>3, <1>5, <1>6, <1>7, <1>9, <1>10
  DEF Action, HostStep, GuestStep, HandlerStep, CopyStep, hostVars, Cancel, CancelCloses, HandleRequest,
      HandlerGivesUp, Deadline, AgentStops, ContextEnds, DelayFires, WaitReturns,
      ScriptWrites, ScriptForks, ScriptExits, VmDies, CopyReads, CopyFails, CopyEnds
\* The notice is known to the caller or on its way.
LEMMA NoticeReceived ==
  ASSUME Typed, ReceiveFrame
  PROVE  Noticed' <=> Noticed
<1>1. wire # <<>> /\ wire' = Tail(wire)
  BY DEF ReceiveFrame
<1>2. seen'.notice = (seen.notice \/ Head(wire).kind = "notice")
  BY DEF ReceiveFrame
<1>3. OnWire("notice") <=> Head(wire).kind = "notice" \/ OnWire("notice")'
  BY <1>1, ReceivedKinds
<1>4. QED BY <1>2, <1>3, Zenon DEF Noticed

LEMMA NoticeSent ==
  ASSUME Typed, NEW fr \in Frames, Write(fr), seen' = seen
  PROVE  Noticed' <=> Noticed \/ (conn = "open" /\ fr.kind = "notice")
<1>1. OnWire("notice")' <=> OnWire("notice") \/ (conn = "open" /\ fr.kind = "notice")
  BY SentKinds
<1>2. QED BY <1>1, Zenon DEF Noticed

LEMMA NoticeKept ==
  ASSUME Typed, FlowInv, NoticeFits, Action
  PROVE  NoticeFits'
<1>1. CASE /\ UNCHANGED <<wire, seen>>
           /\ sw.truncated => sw'.truncated
           /\ handler'.pc = "final" /\ conn' = "open" /\ sw'.truncated =>
                handler.pc = "final" /\ conn = "open" /\ sw.truncated
  <2>1. Noticed' = Noticed BY <1>1 DEF Noticed, OnWire
  <2>2. QED BY <1>1, <2>1 DEF NoticeFits
<1>2. CASE DialSucceeds
  <2>1. UNCHANGED <<wire, seen, sw>> /\ handler'.pc = "read"
    BY <1>2 DEF DialSucceeds, FlowInv, Fresh, copyVars
  <2>2. QED BY <1>1, <2>1
<1>3. CASE ReceiveFrame
  <2>1. UNCHANGED <<handler, sw>> /\ (conn' = "open" => conn = "open")
    BY <1>3 DEF ReceiveFrame, HangUp, copyVars
  <2>2. QED BY <1>3, <2>1, NoticeReceived DEF NoticeFits
<1>4. CASE HandleRequest
  <2>1. UNCHANGED <<wire, seen, sw, conn>> /\ ~sw.truncated
    BY <1>4 DEF HandleRequest, FlowInv, Fresh, hostVars
  <2>2. QED BY <1>1, <2>1
<1>5. CASE WaitReturns
  <2>1. UNCHANGED <<wire, seen, sw, conn>> /\ (handler'.pc = "final" => ~sw.truncated)
    BY <1>5 DEF WaitReturns, hostVars, copyVars
  <2>2. QED BY <1>1, <2>1
<1>6. CASE SendNotice
  <2>1. /\ UNCHANGED <<seen, sw, conn>> /\ Write(Notice) /\ sw.truncated
        /\ Notice \in Frames /\ Notice.kind = "notice"
    BY <1>6, FrameTypes DEF SendNotice, FlowInv, Reported, Notice, hostVars, copyVars
  <2>2. QED BY <2>1, NoticeSent DEF NoticeFits
<1>7. CASE SendFinal
  <2>1. handler'.pc = "done" /\ UNCHANGED <<seen, sw>>
    BY <1>7 DEF SendFinal, HandlerReturns, Typed, Handlers, hostVars, copyVars
  <2>2. Final(Answer).kind # "notice"
    BY <1>7, AnswerTypes DEF TerminalKinds
  <2>3. Noticed' <=> Noticed
    BY <1>7, <2>1, <2>2, AnswerTypes, NoticeSent
  <2>4. QED BY <2>1, <2>3 DEF NoticeFits
<1>8. CASE CopyReads
  <2>1. UNCHANGED <<wire, seen, handler>> /\ handler.pc = "run"
    BY <1>8 DEF CopyReads, FlowInv, Grouped, hostVars
  <2>2. sw.truncated => sw'.truncated
    BY <1>8 DEF CopyReads, Clip, Typed, StreamWriters
  <2>3. QED BY <1>1, <2>1, <2>2
<1>9. CASE CopyWrites
  <2>1. /\ UNCHANGED <<seen, handler>> /\ handler.pc = "run" /\ sw'.truncated = sw.truncated
        /\ Write(Output(NextChunk))
    BY <1>9 DEF CopyWrites, FlowInv, Grouped, Typed, StreamWriters, hostVars
  <2>2. Output(NextChunk) \in Frames /\ Output(NextChunk).kind = "output"
    BY ChunkFits, FrameTypes DEF Output
  <2>3. Noticed' <=> Noticed BY <2>1, <2>2, NoticeSent
  <2>4. QED BY <2>1, <2>3 DEF NoticeFits
<1>10. CASE HandlerGivesUp \/ VmDies
  <2>1. handler'.pc = "done" /\ UNCHANGED <<wire, seen, sw>>
    BY <1>10
    DEF HandlerGivesUp, VmDies, HandlerReturns, Typed, Handlers, hostVars, copyVars
  <2>2. QED BY <1>1, <2>1
<1>11. CASE UNCHANGED <<wire, seen, sw, handler>> /\ (conn' = "open" => conn = "open")
  BY <1>1, <1>11
<1>12. QED
  BY <1>2, <1>3, <1>4, <1>5, <1>6, <1>7, <1>8, <1>9, <1>10, <1>11
  DEF Action, HostStep, GuestStep, HandlerStep, CopyStep, hostVars, copyVars, DialFails, DialCancelled,
      SendRequest, SendFails, HangUp, ReceiveFails, Cancel, CancelCloses, Deadline,
      AgentStops, ContextEnds, DelayFires, ScriptWrites, ScriptForks, ScriptExits, CopyFails,
      CopyEnds

-----------------------------------------------------------------------------
(* Exit code 0.                                                             *)

\* Once the copy is done and the script has exited, nothing of that changes any more.
LEMMA FinishedKept ==
  ASSUME Typed, FlowInv, Finished, handler.pc \in {"notice", "final", "done"}, Action, ~VmDies
  PROVE  Finished'
<1>1. copier.pc = "done" /\ ~pipe.open BY DEF FlowInv, Grouped, Piped
<1>2. proc = "exit 0" BY DEF Finished
<1>3. UNCHANGED <<proc, waitErr, sw, produced>>
  BY <1>1, <1>2
  DEF Action, HostStep, GuestStep, HandlerStep, CopyStep, hostVars, procVars, copyVars, DialSucceeds,
      DialFails, DialCancelled, SendRequest, SendFails, ReceiveFrame, ReceiveFails, Cancel,
      CancelCloses, HandleRequest, HandlerGivesUp, Deadline, AgentStops, ContextEnds,
      DelayFires, WaitReturns, SendNotice, SendFinal, ScriptWrites, ScriptForks, ScriptExits,
      VmDies, CopyReads, CopyWrites, CopyFails, CopyEnds,
      Kill, FlowInv, Fresh
<1>4. QED BY <1>3 DEF Finished

LEMMA ZeroKept ==
  ASSUME Typed, FlowInv, Conserved, LastIsLast, NoticeFits, ZeroIsEarned, Action
  PROVE  ZeroIsEarned'
<1>1. ASSUME handler'.outcome = "exit 0", handler'.pc \in {"notice", "final"} PROVE Finished'
  <2>1. CASE WaitReturns
    <3>1. /\ proc # "running" /\ copier.pc = "done" /\ handler.pc = "run"
          /\ UNCHANGED <<proc, waitErr, sw, produced>> /\ handler'.outcome = Outcome
      BY <2>1 DEF WaitReturns, copyVars
    <3>2. proc = "exit 0" /\ waitErr = {} BY <1>1, <3>1 DEF Outcome
    <3>3. copier.left = 0 /\ pipe.units = 0 BY <3>1 DEF FlowInv, Piped
    <3>4. Finished
      <4>1. IF sw.truncated
              THEN MaxOutput > 0 /\ sw.written + 0 = MaxOutput /\ produced > MaxOutput
              ELSE produced = sw.written + 0 + 0
        BY <3>1, <3>2, <3>3 DEF Conserved
      <4>2. sw.written + 0 = sw.written /\ sw.written + 0 + 0 = sw.written BY Counters
      <4>3. QED BY <3>2, <4>1, <4>2 DEF Finished
    <3>5. QED BY <3>1, <3>4 DEF Finished
  <2>2. CASE HandleRequest
    <3>1. handler'.pc = "run" \/ handler'.outcome \in {"pong", "error"}
      BY <2>2 DEF HandleRequest, Typed, Handlers
    <3>2. QED BY <1>1, <3>1
  <2>3. CASE HandlerGivesUp \/ SendFinal \/ VmDies
    BY <1>1, <2>3 DEF HandlerGivesUp, SendFinal, VmDies, HandlerReturns, Typed, Handlers
  <2>4. CASE DialSucceeds
    BY <1>1, <2>4 DEF DialSucceeds
  <2>5. CASE ~VmDies /\ (SendNotice \/ UNCHANGED handler)
    <3>1. handler.outcome = "exit 0" /\ handler.pc \in {"notice", "final"}
      BY <1>1, <2>5 DEF SendNotice, Typed, Handlers
    <3>2. QED BY <2>5, <3>1, FinishedKept DEF ZeroIsEarned
  <2>6. QED
    BY <2>1, <2>2, <2>3, <2>4, <2>5
    DEF Action, HostStep, GuestStep, HandlerStep, CopyStep, DialFails, DialCancelled, SendRequest,
        SendFails, ReceiveFrame, ReceiveFails, Cancel, CancelCloses, Deadline, AgentStops,
        ContextEnds, DelayFires, ScriptWrites, ScriptForks, ScriptExits, CopyReads,
        CopyWrites, CopyFails, CopyEnds
<1>2. ASSUME host.result = "exit 0" \/ OnWire("exit 0"), Noticed => Noticed'
      PROVE  handler'.pc = "done" /\ Finished' /\ (sw'.truncated => Noticed')
  <2>1. handler.pc = "done" /\ Finished /\ (sw.truncated => Noticed)
    BY <1>2 DEF ZeroIsEarned
  <2>2. ~VmDies /\ copier.pc = "done" BY <2>1 DEF VmDies, FlowInv, Grouped
  <2>3. UNCHANGED <<handler, sw>>
    BY <2>1, <2>2
    DEF Action, HostStep, GuestStep, HandlerStep, CopyStep, hostVars, procVars, copyVars, DialSucceeds,
      DialFails, DialCancelled, SendRequest, SendFails, ReceiveFrame, ReceiveFails, Cancel,
      CancelCloses, HandleRequest, HandlerGivesUp, Deadline, AgentStops, ContextEnds,
      DelayFires, WaitReturns, SendNotice, SendFinal, ScriptWrites, ScriptForks, ScriptExits,
      VmDies, CopyReads, CopyWrites, CopyFails, CopyEnds,
        FlowInv, Fresh
  <2>4. QED BY <1>2, <2>1, <2>2, <2>3, FinishedKept
<1>3. ASSUME host'.result = "exit 0" \/ OnWire("exit 0")'
      PROVE  handler'.pc = "done" /\ Finished' /\ (sw'.truncated => Noticed')
  <2>1. CASE SendFinal
    <3>1. /\ handler.pc = "final" /\ handler'.pc = "done"
          /\ UNCHANGED <<host, seen, sw, proc, produced, waitErr>>
      BY <2>1
      DEF SendFinal, HandlerReturns, Typed, Handlers, hostVars, procVars, copyVars
    <3>2. host.result # "exit 0" /\ ~OnWire("exit 0") BY <3>1 DEF ZeroIsEarned
    <3>3. conn = "open" /\ Answer = "exit 0"
      BY <1>3, <2>1, <3>1, <3>2, AnswerTypes, SentKinds
    <3>4. handler.outcome = "exit 0" BY <3>3 DEF Answer
    <3>5. Finished BY <3>1, <3>4 DEF ZeroIsEarned
    <3>6. sw.truncated => Noticed BY <3>1, <3>3 DEF NoticeFits
    <3>7. Noticed => Noticed' BY <2>1, <3>1, AnswerTypes, NoticeSent
    <3>8. Finished' BY <3>1, <3>5 DEF Finished
    <3>9. QED BY <3>1, <3>6, <3>7, <3>8
  <2>2. CASE ReceiveFrame
    <3>1. wire # <<>> /\ wire' = Tail(wire) BY <2>2 DEF ReceiveFrame
    <3>2. host.result = "exit 0" \/ OnWire("exit 0")
      <4>1. host'.result = "exit 0" => host.result = "exit 0" \/ Head(wire).kind = "exit 0"
        BY <2>2 DEF ReceiveFrame, Returns, Typed, Hosts
      <4>2. QED BY <1>3, <3>1, <4>1, ReceivedKinds
    <3>3. QED BY <1>2, <2>2, <3>2, NoticeReceived
  <2>3. CASE SendNotice
    <3>1. UNCHANGED <<host, seen>> /\ Write(Notice) /\ Notice \in Frames /\ Notice.kind = "notice"
      BY <2>3, FrameTypes DEF SendNotice, hostVars, Notice
    <3>2. QED BY <1>2, <1>3, <3>1, SentKinds, NoticeSent
  <2>4. CASE CopyWrites
    <3>1. /\ UNCHANGED <<host, seen>> /\ Write(Output(NextChunk))
          /\ Output(NextChunk) \in Frames /\ Output(NextChunk).kind = "output"
      BY <2>4, ChunkFits, FrameTypes DEF CopyWrites, hostVars, Output
    <3> DEFINE fr == Output(NextChunk)
    <3> HIDE DEF fr
    <3>2. fr \in Frames /\ fr.kind = "output" /\ Write(fr) BY <3>1 DEF fr
    <3>3. Noticed => Noticed' BY <3>1, <3>2, NoticeSent
    <3>4. OnWire("exit 0")' => OnWire("exit 0")
      <4>1. OnWire("exit 0")' <=> OnWire("exit 0") \/ (conn = "open" /\ fr.kind = "exit 0")
        BY <3>2, SentKinds
      <4>2. QED BY <3>2, <4>1
    <3>5. QED BY <1>2, <1>3, <3>1, <3>3, <3>4
  <2>5. CASE DialSucceeds
    <3>1. UNCHANGED <<wire, seen>> /\ host'.result = host.result
      BY <2>5 DEF DialSucceeds, FlowInv, Fresh, Typed, Hosts
    <3>2. QED BY <1>2, <1>3, <3>1 DEF Noticed, OnWire
  <2>6. CASE UNCHANGED <<wire, seen>> /\ (host'.result = "exit 0" => host.result = "exit 0")
    BY <1>2, <1>3, <2>6 DEF Noticed, OnWire
  <2>7. CASE DialFails \/ DialCancelled \/ SendRequest \/ SendFails \/ ReceiveFails
    <3>1. UNCHANGED <<wire, seen>>
      BY <2>7 DEF DialFails, DialCancelled, SendRequest, SendFails, ReceiveFails
    <3>2. host'.result = "exit 0" => host.result = "exit 0"
      BY <2>7 DEF DialFails, DialCancelled, SendRequest, SendFails, ReceiveFails, Returns,
        CtxErrOr, Typed, Hosts
    <3>3. QED BY <2>6, <3>1, <3>2
  <2>8. QED
    BY <2>1, <2>2, <2>3, <2>4, <2>5, <2>6, <2>7
    DEF Action, HostStep, GuestStep, HandlerStep, CopyStep, hostVars, Cancel, CancelCloses, HandleRequest,
        HandlerGivesUp, Deadline, AgentStops, ContextEnds, DelayFires, WaitReturns,
        ScriptWrites, ScriptForks, ScriptExits, VmDies, CopyReads, CopyFails, CopyEnds
<1>4. QED BY <1>1, <1>3, Zenon DEF ZeroIsEarned
-----------------------------------------------------------------------------
(* The theorems.                                                            *)

LEMMA InitGInv == Init => GInv
<1> SUFFICES ASSUME Init PROVE GInv
  OBVIOUS
<1>1. Typed
  <2>1. 0 \in 0 .. RetryMax /\ 0 \in 0 .. MaxProduced BY Numbers
  <2>2. pipe \in Pipes /\ copier \in Copiers BY EmptyTypes DEF Init
  <2>3. host \in Hosts BY <2>1 DEF Init, Hosts
  <2>4. wire \in Wires BY DEF Init, Wires
  <2>5. seen \in Seens /\ handler \in Handlers /\ sw \in StreamWriters
    BY DEF Init, Seens, Handlers, StreamWriters
  <2>6. QED
    BY <2>1, <2>2, <2>3, <2>4, <2>5
    DEF Init, Typed, Conns, Contexts, Scripts, Strays, Spoils
<1>2. FlowInv
  BY Numbers DEF Init, FlowInv, Grouped, Fresh, Reported, Piped, Capped, RunsOnce
<1>3. InTransit
  <2> DEFINE f == [i \in 0 .. 0 |-> 0]
  <2>1. Len(wire) = 0 /\ seen.units = 0 /\ sw.written = 0 BY DEF Init
  <2>2. f \in [0 .. 0 -> 0 .. 0] /\ f[0] = 0 OBVIOUS
  <2>3. Ledger(f, wire, 0, 0) BY <2>1, <2>2 DEF Ledger
  <2>4. QED BY <2>1, <2>2, <2>3 DEF InTransit
<1>4. Conserved /\ LastIsLast /\ NoticeFits /\ ZeroIsEarned
  <2>1. Len(wire) = 0 /\ \A i \in 1 .. Len(wire) : FALSE BY DEF Init
  <2>2. \A k : ~OnWire(k) BY <2>1 DEF OnWire
  <2>3. host.result = "none" /\ handler.pc = "none" /\ ~seen.notice BY DEF Init
  <2>4. host.result \notin TerminalKinds BY <2>3 DEF TerminalKinds
  <2>5. QED
    BY <2>1, <2>2, <2>3, <2>4 DEF Conserved, LastIsLast, NoticeFits, Noticed, ZeroIsEarned
<1>5. QED BY <1>1, <1>2, <1>3, <1>4 DEF GInv

LEMMA NextGInv == GInv /\ [Next]_vars => GInv'
<1>1. ASSUME GInv, Action PROVE GInv'
  <2>1. Typed' BY <1>1, TypeKept DEF GInv, FlowInv
  <2>2. FlowInv' BY <1>1, FlowKept, PipeKept DEF GInv, FlowInv
  <2>3. InTransit' BY <1>1, TransitKept DEF GInv
  <2>4. Conserved' /\ LastIsLast' BY <1>1, ConservedKept, LastKept DEF GInv
  <2>5. NoticeFits' /\ ZeroIsEarned' BY <1>1, NoticeKept, ZeroKept DEF GInv
  <2>6. QED BY <2>1, <2>2, <2>3, <2>4, <2>5 DEF GInv
<1>2. ASSUME GInv, VmPauses \/ UNCHANGED vars PROVE GInv'
  <2>0. frozen \in BOOLEAN => frozen' \in BOOLEAN BY <1>2 DEF VmPauses, vars
  <2>1. UNCHANGED <<request, host, ctxDone, seen, conn, inbox, wire, handler, gctx, proc, stray,
                    produced, pipe, copier, sw, waitErr, runs>>
    BY <1>2 DEF VmPauses, vars, hostVars, procVars, copyVars
  <2>2. Typed' BY <1>2, <2>0, <2>1 DEF GInv, Typed
  <2>3. FlowInv' BY <1>2, <2>1 DEF GInv, FlowInv, Grouped, Fresh, Reported, Piped, Capped, RunsOnce
  <2>4. InTransit' BY <1>2, <2>1 DEF GInv, InTransit
  <2>5. Conserved' BY <1>2, <2>1 DEF GInv, Conserved
  <2>6. LastIsLast' BY <1>2, <2>1 DEF GInv, LastIsLast
  <2>7. \A k : OnWire(k)' = OnWire(k) BY <2>1 DEF OnWire
  <2>8. NoticeFits' BY <1>2, <2>1, <2>7 DEF GInv, NoticeFits, Noticed
  <2>9. ZeroIsEarned' BY <1>2, <2>1, <2>7 DEF GInv, ZeroIsEarned, Noticed, Finished
  <2>10. QED BY <2>2, <2>3, <2>4, <2>5, <2>6, <2>8, <2>9 DEF GInv
<1>3. QED BY <1>1, <1>2 DEF Next, Action

\* The invariant behind the theorems: what the caller has, what is on the wire, in the
\* copying goroutine's hands and in the pipe add up, and the last frame is earned.
THEOREM ExecInvariant == Spec => []GInv
<1>1. Init => GInv BY InitGInv
<1>2. GInv /\ [Next]_vars => GInv' BY NextGInv
<1>3. QED BY <1>1, <1>2, PTL DEF Spec

\* Every variable of host and guest has its type: the agent never takes more out of the
\* pipe than it holds, nor puts more into a frame than a chunk.
THEOREM TypeCorrect == Spec => []TypeOK
<1>1. GInv => TypeOK BY TypedIsTypeOK DEF GInv
<1>2. QED BY <1>1, ExecInvariant, PTL

\* However often it is dialled, lost or cancelled, a request starts its script at most once
\* (dialWithRetry retries nothing that was sent).
THEOREM NeverRunTwice == Spec => []RunsOnce
<1>1. GInv => RunsOnce BY DEF GInv, FlowInv
<1>2. QED BY <1>1, ExecInvariant, PTL

\* No process of the script's group, running or left in the background, is there when
\* handleConn has returned (Setpgid, cmd.Cancel and the kill after Wait).
THEOREM GroupsEnd == Spec => []NoStragglers
<1>1. GInv => NoStragglers BY DEF GInv, FlowInv, Grouped, NoStragglers
<1>2. QED BY <1>1, ExecInvariant, PTL

\* streamWriter's cap holds for what the caller is handed of the output, for every cap, chunk
\* size and buffer, and however the script's writes fall around it.
THEOREM CapHolds == Spec => []OutputCapped
<1>1. ASSUME GInv PROVE OutputCapped
  <2>1. /\ seen.units \in Nat /\ sw.written \in Nat /\ copier.left \in Nat
        /\ MaxOutput \in Nat /\ wire \in Wires
    BY <1>1, Counters, Numbers DEF GInv, Typed
  <2>2. PICK f \in [0 .. Len(wire) -> 0 .. sw.written] :
          Ledger(f, wire, seen.units, sw.written)
    BY <1>1 DEF GInv, InTransit
  <2>3. 0 \in 0 .. Len(wire) BY <2>1, WireTypes
  <2>4. seen.units <= sw.written BY <2>1, <2>2, <2>3 DEF Ledger
  <2>5. QED BY <1>1, <2>1, <2>4 DEF GInv, FlowInv, Capped, OutputCapped
<1>2. QED BY <1>1, ExecInvariant, PTL

\* An Exec that returns exit code 0 has handed its caller every unit the script's processes
\* wrote, up to the cap, and the notice exactly when some was cut (runScript, "output
\* truncated").
THEOREM ZeroIsComplete == Spec => []ZeroMeansComplete
<1>1. ASSUME GInv, host.result = "exit 0"
      PROVE  /\ seen.units = (IF MaxOutput > 0 THEN Min({produced, MaxOutput}) ELSE produced)
             /\ seen.notice <=> (seen.units < produced)
  <2>1. /\ seen.units \in Nat /\ sw.written \in Nat /\ copier.left \in Nat
        /\ produced \in Nat /\ MaxOutput \in Nat
    BY <1>1, Counters, Numbers DEF GInv
  <2>2. wire = <<>> BY <1>1 DEF GInv, LastIsLast, TerminalKinds
  <2>3. Len(wire) = 0 BY <2>2
  <2>4. seen.units = sw.written
    BY <1>1, <2>3 DEF GInv, InTransit, Ledger
  <2>5. ~OnWire("notice") BY <2>3 DEF OnWire
  <2>6. Finished /\ (sw.truncated => Noticed) BY <1>1 DEF GInv, ZeroIsEarned
  <2>7. seen.notice <=> sw.truncated BY <1>1, <2>5, <2>6 DEF GInv, NoticeFits, Noticed
  <2>8. CASE sw.truncated
    <3>1. MaxOutput > 0 /\ sw.written = MaxOutput /\ produced > MaxOutput
      BY <2>6, <2>8 DEF Finished
    <3>2. Min({produced, MaxOutput}) = MaxOutput BY <2>1, <3>1, MinOfTwo
    <3>3. QED BY <2>1, <2>4, <2>7, <2>8, <3>1, <3>2
  <2>9. CASE ~sw.truncated
    <3>1. produced = sw.written BY <2>6, <2>9 DEF Finished
    <3>2. MaxOutput > 0 => produced <= MaxOutput
      <4>1. MaxOutput > 0 => sw.written + copier.left <= MaxOutput
        BY <1>1 DEF GInv, FlowInv, Capped
      <4>2. QED BY <2>1, <3>1, <4>1
    <3>3. MaxOutput > 0 => Min({produced, MaxOutput}) = produced
      BY <2>1, <3>2, MinOfTwo
    <3>4. QED BY <2>1, <2>4, <2>7, <2>9, <3>1, <3>3
  <2>10. QED BY <2>8, <2>9
<1>2. GInv => ZeroMeansComplete BY <1>1 DEF ZeroMeansComplete
<1>3. QED BY <1>2, ExecInvariant, PTL
=============================================================================
