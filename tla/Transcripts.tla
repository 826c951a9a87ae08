----------------------------- MODULE Transcripts ------------------------------
(***************************************************************************)
(* The transcript of one sandbox (internal/store/pg/transcripts.go): the   *)
(* terminal sessions open on it append lines, a client pages through them  *)
(* and the maintenance loop removes old ones.                              *)
(*                                                                         *)
(* The number of a line is max(seq) + 1 of the lines the statement sees    *)
(* when it begins.  Nothing makes (sandbox_id, seq) unique, so statements  *)
(* that overlap may choose the same number.  A session waits three seconds *)
(* for its statement and goes on; the statement may still be carried out.  *)
(***************************************************************************)
EXTENDS Integers, FiniteSets, FiniteSetsExt

CONSTANTS
  Sessions,   \* terminal sessions on the sandbox
  MaxLines,   \* bound: lines a session records
  Limit,      \* lines List returns at most: 5000 in getTranscript
  Retention,  \* TRANSCRIPT_RETENTION_DAYS
  MaxDays     \* bound: days that pass

ASSUME TranscriptsAssumption ==
  /\ MaxLines \in Nat /\ MaxDays \in Nat
  /\ Limit \in Nat \ {0} /\ Retention \in Nat \ {0}

VARIABLES
  lines,      \* rows: session, number within the session, seq and day
  open,       \* statements begun and not ended: rows yet to appear
  session,    \* sessions: "ready", or "waiting" for the statement of the last line; lines so far
  today,
  client,     \* a client that pages: the seq it passes as after, and the rows it got
  late,       \* history: sessions that gave up on a statement
  emptied     \* history: did retention remove every line, so that the numbers start again?

vars == <<lines, open, session, today, client, late, emptied>>

Line == [who : Sessions, n : 1 .. MaxLines, seq : Nat, day : 0 .. MaxDays]

Init ==
  /\ lines = {} /\ open = {} /\ today = 0
  /\ session = [s \in Sessions |-> [pc |-> "ready", n |-> 0]]
  /\ client = [after |-> 0, got |-> {}]
  /\ late = {} /\ emptied = FALSE

-----------------------------------------------------------------------------
(* recordLine and Append.                                                   *)

\* Faulty: without COALESCE the first line gets no number.
nextSeq_Null == IF lines = {} THEN -1 ELSE Max({l.seq : l \in lines}) + 1

\* COALESCE(max(seq), 0) + 1
nextSeq == Max({l.seq : l \in lines} \cup {0}) + 1

\* The statement begins: its number comes from the lines committed so far.
AppendBegins(s) ==
  /\ session[s].pc = "ready" /\ session[s].n < MaxLines
  /\ session' = [session EXCEPT ![s] = [pc |-> "waiting", n |-> @.n + 1]]
  /\ open' = open \cup {[who |-> s, n |-> session[s].n + 1, seq |-> nextSeq, day |-> today]}
  /\ UNCHANGED <<lines, today, client, late, emptied>>

\* The statement ends, and the session goes on if it still waits for it.
AppendEnds(l) ==
  /\ l \in open
  /\ open' = open \ {l}
  /\ session' = IF session[l.who] = [pc |-> "waiting", n |-> l.n]
                  THEN [session EXCEPT ![l.who].pc = "ready"] ELSE session
  /\ UNCHANGED <<today, client, late, emptied>>

AppendCommits(l) == AppendEnds(l) /\ lines' = lines \cup {l}

\* The sandbox has no row, or the database fails: the line is lost.
AppendFails(l) == AppendEnds(l) /\ UNCHANGED lines

\* Faulty: the session does not wait.
AppendTimesOut_AtOnce(s) ==
  /\ session[s].pc = "waiting"
  /\ session' = [session EXCEPT ![s].pc = "ready"]
  /\ UNCHANGED <<lines, open, today, client, late, emptied>>

\* Three seconds are over.
AppendTimesOut(s) ==
  /\ session[s].pc = "waiting"
  /\ session' = [session EXCEPT ![s].pc = "ready"]
  /\ late' = late \cup {s}
  /\ UNCHANGED <<lines, open, today, client, emptied>>

-----------------------------------------------------------------------------
(* getTranscript and List.                                                  *)

\* Faulty: the newest lines first.
Page_Descending(after, p) ==
  LET rest == {l \in lines : l.seq > after}
  IN /\ p \subseteq rest
     /\ Cardinality(p) = Min({Limit, Cardinality(rest)})
     /\ \A l \in p, m \in rest \ p : l.seq >= m.seq

\* p is what List may return: the first Limit lines by seq, equal ones in any order.
Page(after, p) ==
  LET rest == {l \in lines : l.seq > after}
  IN /\ p \subseteq rest
     /\ Cardinality(p) = Min({Limit, Cardinality(rest)})
     /\ \A l \in p, m \in rest \ p : l.seq <= m.seq

\* The client asks for what follows the last line it has.
ClientPages == \E p \in SUBSET lines :
  /\ p # {} /\ Page(client.after, p)
  /\ client' = [after |-> Max({l.seq : l \in p}), got |-> client.got \cup p]
  /\ UNCHANGED <<lines, open, session, today, late, emptied>>

-----------------------------------------------------------------------------
(* Retention.                                                               *)

\* No statement lasts a day.
DayPasses ==
  /\ today < MaxDays /\ open = {}
  /\ today' = today + 1
  /\ UNCHANGED <<lines, open, session, client, late, emptied>>

PruneOlderThanDays ==
  /\ \E l \in lines : l.day < today - Retention
  /\ lines' = {l \in lines : l.day >= today - Retention}
  /\ emptied' = (emptied \/ lines' = {})
  /\ UNCHANGED <<open, session, today, client, late>>

-----------------------------------------------------------------------------
Next ==
  \/ \E s \in Sessions : AppendBegins(s) \/ AppendTimesOut(s)
  \/ \E l \in open : AppendCommits(l) \/ AppendFails(l)
  \/ ClientPages \/ DayPasses \/ PruneOlderThanDays

Spec == Init /\ [][Next]_vars

-----------------------------------------------------------------------------
(* Properties.                                                              *)

\* Every variable has its type.
TypeOK ==
  /\ lines \subseteq Line /\ open \subseteq Line /\ today \in 0 .. MaxDays
  /\ session \in [Sessions -> [pc : {"ready", "waiting"}, n : 0 .. MaxLines]]
  /\ client.after \in Nat /\ client.got \subseteq Line
  /\ late \subseteq Sessions /\ emptied \in BOOLEAN

\* A replay shows what a session did in the order it did it (a script before its output,
\* the output before the exit code), whatever other sessions append and retention removes:
\* the numbers of a session that never gave up on a statement go up.
SessionOrder ==
  \A l, m \in lines : l.who = m.who /\ l.who \notin late /\ l.n < m.n => l.seq < m.seq

\* A client that pages forward loses a line only to one with the same number: it already
\* has a line with that number when it passes over the other.  (Unless the numbers started
\* again: then it is shown nothing until they are past its own.)
MissesOnlyTies ==
  emptied \/ \A l \in lines \ client.got :
                 l.seq <= client.after => \E g \in client.got : g.seq = l.seq
=============================================================================
