--------------------------- MODULE TranscriptsProofs ---------------------------
(***************************************************************************)
(* The order of a transcript and what a paging client may miss, for any    *)
(* number of sessions, lines, days and any page size.                      *)
(*                                                                         *)
(* SessionOrder rests on a session that has not given up having at most    *)
(* one statement under way, whose number is above those of its lines       *)
(* (OneAtATime).  MissesOnlyTies rests on how the numbers are chosen:      *)
(* lines of later days have higher ones (DaysRise), no statement under way *)
(* and no client is ahead of the lines unless retention removed them all   *)
(* (NotAhead), and a number that was passed over while its statement was   *)
(* under way belongs to a line of today, which retention spares (Filled).  *)
(***************************************************************************)
EXTENDS Transcripts, WellFoundedInduction, TLAPS

Written == lines \cup open

\* Lines are numbered from 1, and there is a highest number.
Numbered ==
  /\ \A l \in Written : l.seq > 0
  /\ \E b \in Nat : \A l \in Written : l.seq <= b

\* Statements of a session that has not given up come one after the other.
OneAtATime ==
  /\ \A l \in Written : l.n <= session[l.who].n
  /\ \A l \in open : l.who \notin late =>
       /\ session[l.who] = [pc |-> "waiting", n |-> l.n]
       /\ \A m \in lines : m.who = l.who => m.seq < l.seq
       /\ \A m \in open : m.who = l.who => m = l

DaysRise ==
  /\ \A l \in Written : l.day <= today
  /\ \A l \in open : l.day = today
  /\ \A l \in lines, m \in Written : l.day < m.day => l.seq < m.seq

NotAhead ==
  /\ client.after > 0 => \E m \in lines : client.after <= m.seq
  /\ \A l \in open : l.seq > 1 => \E m \in lines : l.seq <= m.seq + 1

Filled ==
  \A l \in open, m \in Written : l.seq < m.seq =>
    \E k \in lines : k.seq = l.seq /\ k.day = today

\* MissesOnlyTies, of the lines to come too.
NoneSkipped ==
  \A l \in Written \ client.got :
    l.seq <= client.after => \E g \in client.got : g.seq = l.seq

TInv ==
  /\ TypeOK /\ Numbered /\ OneAtATime /\ SessionOrder /\ DaysRise
  /\ emptied \/ (NotAhead /\ Filled /\ NoneSkipped)

-----------------------------------------------------------------------------
(* The highest number.                                                      *)

\* A set of numbers has a least one: what well-foundedness of < says of sets.
LEMMA LeastNumber ==
  ASSUME NEW S \in SUBSET Nat, S # {}
  PROVE  \E m \in S : \A k \in S : m <= k
<1> DEFINE Below == {p \in Nat \X Nat : p[1] < p[2]}
<1>1. IsWellFoundedOn(OpToRel(<, Nat), Nat) BY NatLessThanWellFounded, Zenon
<1>2. IsWellFoundedOn(Below, Nat) BY <1>1, Zenon DEF OpToRel
<1>3. PICK m \in S : \A k \in S : <<k, m>> \notin Below
  <2> HIDE DEF Below
  <2> QED BY <1>2, WFMin
<1>4. ASSUME NEW k \in S PROVE m <= k
  <2>1. m \in Nat /\ k \in Nat OBVIOUS
  <2>2. ~(k < m) BY <1>3, <2>1
  <2>3. QED BY <2>1, <2>2
<1>5. QED BY <1>4

\* A set of numbers with a bound has a highest one, and Max is it.
LEMMA HighestNumber ==
  ASSUME NEW S \in SUBSET Nat, S # {}, NEW b \in Nat, \A k \in S : k <= b
  PROVE  Max(S) \in S /\ \A k \in S : k <= Max(S)
<1> DEFINE Bounds == {c \in Nat : \A k \in S : k <= c}
<1>1. b \in Bounds OBVIOUS
<1>2. PICK m \in Bounds : \A c \in Bounds : m <= c
  <2> HIDE DEF Bounds
  <2>1. Bounds \in SUBSET Nat BY DEF Bounds
  <2>2. QED BY <1>1, <2>1, LeastNumber
<1>3. m \in Nat /\ \A k \in S : k \in Nat /\ k <= m BY <1>2
<1>4. m \in S
  <2> SUFFICES ASSUME m \notin S PROVE FALSE OBVIOUS
  <2>1. \A k \in S : k < m BY <1>3
  <2>2. m > 0
    <3>1. PICK k \in S : TRUE OBVIOUS
    <3>2. k \in Nat /\ k < m BY <1>3, <2>1
    <3>3. QED BY <1>3, <3>2
  <2>3. m - 1 \in Bounds BY <1>3, <2>1, <2>2
  <2>4. QED BY <1>2, <1>3, <2>3
<1>5. \E x \in S : \A y \in S : x >= y BY <1>3, <1>4
<1>6. Max(S) \in S /\ \A y \in S : Max(S) >= y BY <1>5, Zenon DEF Max
<1>7. QED BY <1>3, <1>6

\* nextSeq is above every line, and just above one of them unless it is 1.
LEMMA NextSeqIsNext ==
  ASSUME TypeOK, Numbered
  PROVE  /\ nextSeq \in Nat /\ nextSeq > 0
         /\ \A l \in lines : l.seq < nextSeq
         /\ nextSeq > 1 => \E m \in lines : nextSeq = m.seq + 1
<1> DEFINE S == {l.seq : l \in lines} \cup {0}
<1>1. S \in SUBSET Nat BY DEF TypeOK, Line
<1>2. PICK b \in Nat : \A l \in Written : l.seq <= b BY DEF Numbered
<1>3. \A k \in S : k <= b BY <1>1, <1>2 DEF Written
<1>4. Max(S) \in S /\ \A k \in S : k <= Max(S)
  <2> HIDE DEF S
  <2>1. S # {} BY DEF S
  <2>2. QED BY <1>1, <1>3, <2>1, HighestNumber
<1>5. nextSeq = Max(S) + 1 BY DEF nextSeq
<1>6. Max(S) \in Nat BY <1>1, <1>4
<1> DEFINE t == Max(S)
<1>7. t = 0 \/ \E m \in lines : t = m.seq BY <1>4
<1>8. \A l \in lines : l.seq <= t /\ l.seq \in Nat BY <1>1, <1>4
<1> HIDE DEF t, S
<1>9. QED BY <1>5, <1>6, <1>7, <1>8 DEF t

LEMMA LineFields ==
  ASSUME NEW l \in Line
  PROVE  l.who \in Sessions /\ l.n \in Nat /\ l.seq \in Nat /\ l.day \in Nat
BY TranscriptsAssumption DEF Line

-----------------------------------------------------------------------------
LEMMA InitTInv == Init => TInv
<1> SUFFICES ASSUME Init PROVE TInv OBVIOUS
<1>1. TypeOK
  <2>1. 0 \in 0 .. MaxDays /\ 0 \in 0 .. MaxLines BY TranscriptsAssumption
  <2>2. session \in [Sessions -> [pc : {"ready", "waiting"}, n : 0 .. MaxLines]]
    BY <2>1 DEF Init
  <2>3. client.after = 0 /\ client.got = {} BY DEF Init
  <2>4. QED BY <2>1, <2>2, <2>3 DEF Init, TypeOK
<1>2. Written = {} BY DEF Init, Written
<1>3. QED
  BY <1>1, <1>2
  DEF Init, TInv, Numbered, OneAtATime, SessionOrder, DaysRise, NotAhead, Filled, NoneSkipped

(* A statement begins.                                                      *)
LEMMA AppendBeginsKeeps ==
  ASSUME TInv, NEW s \in Sessions, AppendBegins(s)
  PROVE  TInv'
<1> DEFINE x == [who |-> s, n |-> session[s].n + 1, seq |-> nextSeq, day |-> today]
<1>1. /\ TypeOK /\ Numbered /\ OneAtATime /\ SessionOrder /\ DaysRise BY DEF TInv
<1>2. /\ session[s].n \in Nat /\ session[s].n + 1 \in 1 .. MaxLines /\ today \in 0 .. MaxDays
      /\ MaxLines \in Nat /\ MaxDays \in Nat /\ today \in Nat
  BY <1>1, TranscriptsAssumption DEF TypeOK, AppendBegins
<1>3. nextSeq \in Nat /\ nextSeq > 0 BY <1>1, NextSeqIsNext
<1>4. \A l \in lines : l.seq < nextSeq BY <1>1, NextSeqIsNext
<1>5. x \in Line BY <1>2, <1>3 DEF Line
<1>6. /\ open' = open \cup {x} /\ UNCHANGED <<lines, today, client, late, emptied>>
      /\ session' = [session EXCEPT ![s] = [pc |-> "waiting", n |-> session[s].n + 1]]
      /\ session[s].pc = "ready"
  BY DEF AppendBegins
<1>7. TypeOK' BY <1>1, <1>2, <1>5, <1>6 DEF TypeOK
<1>8. \A l \in Written : l \in Line BY <1>1 DEF Written, TypeOK
<1>9. x.who = s /\ x.n = session[s].n + 1 /\ x.seq = nextSeq /\ x.day = today OBVIOUS
<1>10. Written' = Written \cup {x} BY <1>6 DEF Written
<1> HIDE DEF x
<1>11. Numbered'
  <2>1. PICK b \in Nat : \A l \in Written : l.seq <= b BY <1>1 DEF Numbered
  <2>2. b + nextSeq \in Nat /\ \A l \in Written' : l.seq <= b + nextSeq
    BY <1>3, <1>8, <1>9, <1>10, <2>1, LineFields
  <2>3. \A l \in Written' : l.seq > 0 BY <1>1, <1>3, <1>9, <1>10 DEF Numbered
  <2>4. QED BY <2>2, <2>3 DEF Numbered
<1>12. OneAtATime'
  <2>1. /\ session'[s] = [pc |-> "waiting", n |-> x.n]
        /\ \A t \in Sessions : t # s => session'[t] = session[t]
    BY <1>1, <1>6, <1>9 DEF TypeOK
  <2>2. session'[s].n = session[s].n + 1 BY <1>9, <2>1
  <2>3. \A l \in Written' : l.n <= session'[l.who].n
    BY <1>1, <1>2, <1>8, <1>9, <1>10, <2>1, <2>2, LineFields DEF OneAtATime
  <2>4. s \notin late => \A m \in open : m.who # s
    <3> SUFFICES ASSUME s \notin late, NEW m \in open, m.who = s PROVE FALSE OBVIOUS
    <3>1. session[s] = [pc |-> "waiting", n |-> m.n] BY <1>1 DEF OneAtATime
    <3>2. QED BY <1>6, <3>1
  <2>5. ASSUME NEW l \in open', l.who \notin late'
        PROVE  /\ session'[l.who] = [pc |-> "waiting", n |-> l.n]
               /\ \A m \in lines' : m.who = l.who => m.seq < l.seq
               /\ \A m \in open' : m.who = l.who => m = l
    <3>1. CASE l = x BY <1>4, <1>6, <1>9, <2>1, <2>4, <2>5, <3>1
    <3>2. CASE l \in open
      <4>1. l.who # s /\ l.who \in Sessions BY <1>6, <1>8, <2>4, <2>5, <3>2, LineFields DEF Written
      <4>2. QED BY <1>1, <1>6, <1>9, <2>1, <2>5, <3>2, <4>1 DEF OneAtATime
    <3>3. QED BY <1>6, <3>1, <3>2
  <2>6. QED BY <2>3, <2>5 DEF OneAtATime
<1>13. SessionOrder' BY <1>1, <1>6 DEF SessionOrder
<1>14. DaysRise'
  <2>1. \A l \in Written' : l.day <= today' BY <1>1, <1>2, <1>6, <1>9, <1>10 DEF DaysRise
  <2>2. \A l \in open' : l.day = today' BY <1>1, <1>6, <1>9 DEF DaysRise
  <2>3. \A l \in lines', m \in Written' : l.day < m.day => l.seq < m.seq
    BY <1>1, <1>4, <1>6, <1>9, <1>10 DEF DaysRise
  <2>4. QED BY <2>1, <2>2, <2>3 DEF DaysRise
<1>15. ASSUME NotAhead, Filled, NoneSkipped PROVE (NotAhead /\ Filled /\ NoneSkipped)'
  <2>1. nextSeq > 1 => \E m \in lines : nextSeq = m.seq + 1 BY <1>1, NextSeqIsNext
  <2>2. NotAhead'
    <3>1. nextSeq > 1 => \E m \in lines : nextSeq <= m.seq + 1 BY <1>3, <2>1
    <3>2. \A l \in open' : l.seq > 1 => \E m \in lines : l.seq <= m.seq + 1
      BY <1>6, <1>9, <1>15, <3>1 DEF NotAhead
    <3>3. QED BY <1>6, <1>15, <3>2 DEF NotAhead
  <2>3. ASSUME NEW l \in open', NEW m \in Written', l.seq < m.seq
        PROVE  \E k \in lines : k.seq = l.seq /\ k.day = today
    <3>1. l \in Line /\ m \in Line /\ l.seq \in Nat /\ m.seq \in Nat
      BY <1>5, <1>6, <1>8, <1>10, LineFields DEF Written
    <3>2. CASE l = x
      <4>1. m \notin lines BY <1>3, <1>4, <1>9, <2>3, <3>1, <3>2
      <4>2. m \in open BY <1>10, <2>3, <3>1, <3>2, <4>1 DEF Written
      <4>3. PICK k \in lines : m.seq <= k.seq + 1
        BY <1>3, <1>9, <1>15, <2>3, <3>1, <3>2, <4>2 DEF NotAhead
      <4>4. k.seq < nextSeq /\ k.seq \in Nat BY <1>4, <1>8, LineFields DEF Written
      <4>5. QED BY <1>3, <1>9, <2>3, <3>1, <3>2, <4>3, <4>4
    <3>3. CASE l \in open /\ m \in Written BY <1>15, <2>3, <3>3 DEF Filled
    <3>4. CASE l \in open /\ m = x
      <4>1. l.seq > 0 /\ l.day = today BY <1>1, <3>4 DEF Numbered, Written, DaysRise
      <4>2. nextSeq > 1 BY <1>3, <1>9, <2>3, <3>1, <3>4, <4>1
      <4>3. PICK k \in lines : nextSeq = k.seq + 1 BY <2>1, <4>2
      <4>4. k \in Written /\ k.seq \in Nat /\ k.day \in Nat BY <1>8, LineFields DEF Written
      <4>5. l.seq <= k.seq BY <1>3, <1>9, <2>3, <3>1, <3>4, <4>3, <4>4
      <4>6. CASE l.seq < k.seq BY <1>15, <3>4, <4>4, <4>6 DEF Filled
      <4>7. CASE l.seq = k.seq
        <5>1. k.day <= today BY <1>1, <4>4 DEF DaysRise
        <5>2. ~(k.day < l.day) BY <1>1, <3>1, <3>4, <4>4, <4>7 DEF DaysRise, Written
        <5>3. k.day = today BY <1>2, <4>1, <4>4, <5>1, <5>2
        <5>4. QED BY <4>7, <5>3
      <4>8. QED BY <3>1, <4>4, <4>5, <4>6, <4>7
    <3>5. QED BY <1>6, <1>10, <2>3, <3>2, <3>3, <3>4
  <2>4. Filled' BY <1>6, <2>3 DEF Filled
  <2>5. client.after < nextSeq
    <3>1. client.after \in Nat BY <1>1 DEF TypeOK
    <3>2. CASE client.after = 0 BY <1>3, <3>2
    <3>3. CASE client.after > 0
      <4>1. PICK m \in lines : client.after <= m.seq BY <1>15, <3>3 DEF NotAhead
      <4>2. m.seq \in Nat /\ m.seq < nextSeq BY <1>4, <1>8, LineFields DEF Written
      <4>3. QED BY <1>3, <3>1, <4>1, <4>2
    <3>4. QED BY <3>1, <3>2, <3>3
  <2>6. ~(x.seq <= client.after) BY <1>1, <1>3, <1>9, <2>5 DEF TypeOK
  <2>7. NoneSkipped' BY <1>6, <1>10, <1>15, <2>6 DEF NoneSkipped
  <2>8. QED BY <2>2, <2>4, <2>7
<1>16. QED BY <1>6, <1>7, <1>11, <1>12, <1>13, <1>14, <1>15 DEF TInv

(* A statement ends or is given up.                                         *)
LEMMA AppendEndsKeeps ==
  ASSUME TInv, NEW l \in open, AppendCommits(l) \/ AppendFails(l)
  PROVE  TInv'
<1>1. /\ TypeOK /\ Numbered /\ OneAtATime /\ SessionOrder /\ DaysRise BY DEF TInv
<1>2. /\ open' = open \ {l} /\ UNCHANGED <<today, client, late, emptied>>
      /\ session' = IF session[l.who] = [pc |-> "waiting", n |-> l.n]
                      THEN [session EXCEPT ![l.who].pc = "ready"] ELSE session
  BY DEF AppendCommits, AppendFails, AppendEnds
<1>3. lines \subseteq lines' /\ lines' \subseteq lines \cup {l}
  BY DEF AppendCommits, AppendFails
<1>4. Written' \subseteq Written BY <1>2, <1>3 DEF Written
<1>5. \A m \in Written : m \in Line BY <1>1 DEF Written, TypeOK
<1>6. l \in Line /\ l.who \in Sessions BY <1>1, LineFields DEF TypeOK
<1>7. /\ session' \in [Sessions -> [pc : {"ready", "waiting"}, n : 0 .. MaxLines]]
      /\ \A t \in Sessions : session'[t].n = session[t].n /\ (t # l.who => session'[t] = session[t])
  BY <1>1, <1>2, <1>6 DEF TypeOK
<1>8. TypeOK' BY <1>1, <1>2, <1>3, <1>7 DEF TypeOK
<1>9. Numbered' BY <1>1, <1>4 DEF Numbered
<1>10. OneAtATime'
  <2>1. \A m \in Written' : m.n <= session'[m.who].n
    BY <1>1, <1>4, <1>5, <1>7, LineFields DEF OneAtATime
  <2>2. ASSUME NEW m \in open', m.who \notin late'
        PROVE  /\ session'[m.who] = [pc |-> "waiting", n |-> m.n]
               /\ \A k \in lines' : k.who = m.who => k.seq < m.seq
               /\ \A k \in open' : k.who = m.who => k = m
    <3>1. m \in open /\ m # l /\ m.who \notin late /\ m.who \in Sessions
      BY <1>2, <1>5, <2>2, LineFields DEF Written
    <3>2. l.who # m.who BY <1>1, <3>1 DEF OneAtATime
    <3>3. QED BY <1>1, <1>2, <1>3, <1>7, <3>1, <3>2 DEF OneAtATime
  <2>3. QED BY <2>1, <2>2 DEF OneAtATime
<1>11. SessionOrder'
  <2> SUFFICES ASSUME NEW a \in lines', NEW b \in lines',
                      a.who = b.who, a.who \notin late, a.n < b.n
               PROVE  a.seq < b.seq
    BY <1>2 DEF SessionOrder
  <2>1. /\ a \in Written /\ b \in Written /\ a.n \in Nat /\ b.n \in Nat
        /\ a.who \in Sessions
    BY <1>3, <1>5, LineFields DEF Written
  <2>2. CASE a \in lines /\ b \in lines BY <1>1, <2>2 DEF SessionOrder
  <2>3. CASE a \in lines /\ b = l BY <1>1, <2>3 DEF OneAtATime
  <2>4. CASE a = l
    <3>1. session[l.who] = [pc |-> "waiting", n |-> l.n] BY <1>1, <2>4 DEF OneAtATime
    <3>2. session[b.who].n = a.n BY <2>4, <3>1
    <3>3. b.n <= session[b.who].n BY <1>1, <2>1 DEF OneAtATime
    <3>4. QED BY <2>1, <3>2, <3>3
  <2>5. QED BY <1>3, <2>2, <2>3, <2>4
<1>12. DaysRise'
  <2>1. (\A m \in Written' : m.day <= today') /\ (\A m \in open' : m.day = today')
    BY <1>1, <1>2, <1>4 DEF DaysRise
  <2>2. ASSUME NEW a \in lines', NEW m \in Written', a.day < m.day PROVE a.seq < m.seq
    <3>1. m \in Written BY <1>4
    <3>2. CASE a \in lines BY <1>1, <2>2, <3>1, <3>2 DEF DaysRise
    <3>3. CASE a = l
      <4>1. a.day = today /\ m.day <= today BY <1>1, <3>1, <3>3 DEF DaysRise
      <4>2. m.day \in Nat /\ today \in Nat
        BY <1>1, <1>5, <3>1, LineFields, TranscriptsAssumption DEF TypeOK
      <4>3. QED BY <2>2, <4>1, <4>2
    <3>4. QED BY <1>3, <3>2, <3>3
  <2>3. QED BY <2>1, <2>2 DEF DaysRise
<1>13. ASSUME NotAhead, Filled, NoneSkipped PROVE (NotAhead /\ Filled /\ NoneSkipped)'
  <2>1. NotAhead' BY <1>2, <1>3, <1>13 DEF NotAhead
  <2>2. Filled' BY <1>2, <1>3, <1>4, <1>13 DEF Filled
  <2>3. NoneSkipped' BY <1>2, <1>4, <1>13 DEF NoneSkipped
  <2>4. QED BY <2>1, <2>2, <2>3
<1>14. QED BY <1>2, <1>8, <1>9, <1>10, <1>11, <1>12, <1>13 DEF TInv

LEMMA AppendTimesOutKeeps ==
  ASSUME TInv, NEW s \in Sessions, AppendTimesOut(s)
  PROVE  TInv'
<1>1. /\ TypeOK /\ Numbered /\ OneAtATime /\ SessionOrder /\ DaysRise BY DEF TInv
<1>2. /\ session' = [session EXCEPT ![s].pc = "ready"] /\ late' = late \cup {s}
      /\ UNCHANGED <<lines, open, today, client, emptied>>
  BY DEF AppendTimesOut
<1>3. /\ session' \in [Sessions -> [pc : {"ready", "waiting"}, n : 0 .. MaxLines]]
      /\ \A t \in Sessions : session'[t].n = session[t].n /\ (t # s => session'[t] = session[t])
  BY <1>1, <1>2 DEF TypeOK
<1>4. TypeOK' BY <1>1, <1>2, <1>3 DEF TypeOK
<1>5. UNCHANGED Written BY <1>2 DEF Written
<1>6. \A m \in Written : m.who \in Sessions BY <1>1, LineFields DEF Written, TypeOK
<1>7. OneAtATime' BY <1>1, <1>2, <1>3, <1>5, <1>6 DEF OneAtATime, Written
<1>8. (Numbered /\ SessionOrder /\ DaysRise)'
  BY <1>1, <1>2, <1>5 DEF Numbered, SessionOrder, DaysRise
<1>9. (emptied \/ (NotAhead /\ Filled /\ NoneSkipped))'
  BY <1>2, <1>5 DEF TInv, NotAhead, Filled, NoneSkipped
<1>10. QED BY <1>4, <1>7, <1>8, <1>9 DEF TInv

(* A client pages.                                                          *)

\* A page that passes a number over has a line with it: what is left out of a page comes
\* after what is in it.
LEMMA ClientPagesKeeps ==
  ASSUME TInv, ClientPages
  PROVE  TInv'
<1>1. /\ TypeOK /\ Numbered /\ OneAtATime /\ SessionOrder /\ DaysRise BY DEF TInv
<1>2. PICK p \in SUBSET lines :
        /\ p # {} /\ Page(client.after, p)
        /\ client' = [after |-> Max({l.seq : l \in p}), got |-> client.got \cup p]
  BY DEF ClientPages
<1>3. UNCHANGED <<lines, open, session, today, late, emptied, Written>>
  BY DEF ClientPages, Written
<1>4. \A l \in Written : l \in Line /\ l.seq \in Nat BY <1>1, LineFields DEF Written, TypeOK
<1> DEFINE S == {l.seq : l \in p}
<1>5. Max(S) \in S /\ \A k \in S : k <= Max(S)
  <2>1. PICK b \in Nat : \A l \in Written : l.seq <= b BY <1>1 DEF Numbered
  <2>2. S \in SUBSET Nat /\ S # {} /\ \A k \in S : k <= b
    BY <1>2, <1>4, <2>1 DEF Written
  <2> HIDE DEF S
  <2>3. QED BY <2>2, HighestNumber
<1>6. client'.after = Max(S) /\ client'.got = client.got \cup p BY <1>2
<1>7. PICK top \in p : client'.after = top.seq BY <1>5, <1>6
<1>8. \A l \in p : l.seq <= top.seq BY <1>5, <1>6, <1>7
<1>9. top \in Written /\ top \in Line /\ top.seq \in Nat BY <1>4 DEF Written
<1> HIDE DEF S
<1>10. TypeOK' BY <1>1, <1>2, <1>3, <1>6, <1>7, <1>9 DEF TypeOK
<1>11. (Numbered /\ OneAtATime /\ SessionOrder /\ DaysRise)'
  BY <1>1, <1>3 DEF Numbered, OneAtATime, SessionOrder, DaysRise
<1>12. /\ \A l \in p : l \in lines /\ l.seq > client.after
       /\ \A m \in lines : m.seq > client.after /\ m \notin p => \A l \in p : l.seq <= m.seq
  BY <1>2, Zenon DEF Page
<1>13. ASSUME NotAhead, Filled, NoneSkipped PROVE (NotAhead /\ Filled /\ NoneSkipped)'
  <2>1. top.seq <= top.seq /\ top \in lines BY <1>9, <1>12
  <2>2. NotAhead' BY <1>3, <1>7, <1>13, <2>1 DEF NotAhead
  <2>3. Filled' BY <1>3, <1>13 DEF Filled
  <2>4. ASSUME NEW l \in Written, l \notin client.got, l \notin p, l.seq <= top.seq
        PROVE  \E g \in client.got \cup p : g.seq = l.seq
    <3>1. l.seq \in Nat /\ client.after \in Nat BY <1>1, <1>4 DEF TypeOK
    <3>2. CASE l.seq <= client.after BY <1>13, <2>4, <3>2 DEF NoneSkipped
    <3>3. CASE l.seq > client.after /\ l.seq = top.seq BY <3>3
    <3>4. CASE l.seq > client.after /\ l.seq < top.seq
      <4>1. l \notin lines BY <1>9, <1>12, <2>4, <3>1, <3>4
      <4>2. PICK k \in lines : k.seq = l.seq BY <1>9, <1>13, <3>4, <4>1 DEF Filled, Written
      <4>3. k \in p BY <1>9, <1>12, <3>1, <3>4, <4>2
      <4>4. QED BY <4>2, <4>3
    <3>5. QED BY <1>9, <2>4, <3>1, <3>2, <3>3, <3>4
  <2>5. NoneSkipped' BY <1>3, <1>6, <1>7, <2>4 DEF NoneSkipped
  <2>6. QED BY <2>2, <2>3, <2>5
<1>14. QED BY <1>3, <1>10, <1>11, <1>13 DEF TInv

(* Days pass.                                                               *)
LEMMA DayPassesKeeps ==
  ASSUME TInv, DayPasses
  PROVE  TInv'
<1>1. /\ TypeOK /\ Numbered /\ OneAtATime /\ SessionOrder /\ DaysRise BY DEF TInv
<1>2. /\ open = {} /\ today < MaxDays /\ today' = today + 1
      /\ UNCHANGED <<lines, open, session, client, late, emptied, Written>>
  BY DEF DayPasses, Written
<1>3. today \in Nat /\ MaxDays \in Nat /\ today' \in 0 .. MaxDays
  BY <1>1, <1>2, TranscriptsAssumption DEF TypeOK
<1>4. TypeOK' BY <1>1, <1>2, <1>3 DEF TypeOK
<1>5. (Numbered /\ OneAtATime /\ SessionOrder)'
  BY <1>1, <1>2 DEF Numbered, OneAtATime, SessionOrder
<1>6. \A l \in Written : l.day \in Nat BY <1>1, LineFields DEF Written, TypeOK
<1>7. DaysRise' BY <1>1, <1>2, <1>3, <1>6 DEF DaysRise
<1>8. (emptied \/ (NotAhead /\ Filled /\ NoneSkipped))'
  BY <1>2 DEF TInv, NotAhead, Filled, NoneSkipped
<1>9. QED BY <1>4, <1>5, <1>7, <1>8 DEF TInv

\* Retention removes the oldest days: a line that stays has a higher number than any that
\* goes, and lines of today stay.
LEMMA PruneKeeps ==
  ASSUME TInv, PruneOlderThanDays
  PROVE  TInv'
<1>1. /\ TypeOK /\ Numbered /\ OneAtATime /\ SessionOrder /\ DaysRise BY DEF TInv
<1>2. /\ lines' = {l \in lines : l.day >= today - Retention}
      /\ emptied' = (emptied \/ lines' = {})
      /\ UNCHANGED <<open, session, today, client, late>>
  BY DEF PruneOlderThanDays
<1>3. lines' \subseteq lines /\ Written' \subseteq Written BY <1>2 DEF Written
<1>4. TypeOK' BY <1>1, <1>2, <1>3 DEF TypeOK
<1>5. (Numbered /\ OneAtATime /\ SessionOrder /\ DaysRise)'
  BY <1>1, <1>2, <1>3 DEF Numbered, OneAtATime, SessionOrder, DaysRise
<1>6. /\ today \in Nat /\ Retention \in Nat /\ Retention > 0
      /\ \A l \in Written : l.day \in Nat /\ l.seq \in Nat
  BY <1>1, LineFields, TranscriptsAssumption DEF Written, TypeOK
<1>7. ASSUME NotAhead, Filled, NoneSkipped, lines' # {}
      PROVE  (NotAhead /\ Filled /\ NoneSkipped)'
  <2>1. ASSUME NEW m \in lines PROVE \E k \in lines' : m.seq <= k.seq
    <3>1. m.seq \in Nat /\ m.day \in Nat BY <1>6 DEF Written
    <3>2. CASE m \in lines' BY <3>1, <3>2
    <3>3. CASE m \notin lines'
      <4>1. PICK k \in lines' : TRUE BY <1>7
      <4>2. k \in lines /\ k.day \in Nat /\ k.seq \in Nat BY <1>3, <1>6 DEF Written
      <4>3. m.day < today - Retention /\ k.day >= today - Retention
        BY <1>2, <1>6, <3>1, <3>3, <4>1, <4>2
      <4>4. m.day < k.day BY <1>6, <3>1, <4>2, <4>3
      <4>5. m.seq < k.seq BY <1>1, <4>2, <4>4 DEF DaysRise, Written
      <4>6. QED BY <3>1, <4>1, <4>2, <4>5
    <3>4. QED BY <3>2, <3>3
  <2>2. NotAhead'
    <3>1. client.after \in Nat BY <1>1 DEF TypeOK
    <3>2. ASSUME client.after > 0 PROVE \E k \in lines' : client.after <= k.seq
      <4>1. PICK m \in lines : client.after <= m.seq BY <1>7, <3>2 DEF NotAhead
      <4>2. PICK k \in lines' : m.seq <= k.seq BY <2>1
      <4>3. m.seq \in Nat /\ k.seq \in Nat BY <1>3, <1>6 DEF Written
      <4>4. QED BY <3>1, <4>1, <4>2, <4>3
    <3>3. ASSUME NEW l \in open, l.seq > 1 PROVE \E k \in lines' : l.seq <= k.seq + 1
      <4>1. PICK m \in lines : l.seq <= m.seq + 1 BY <1>7, <3>3 DEF NotAhead
      <4>2. PICK k \in lines' : m.seq <= k.seq BY <2>1
      <4>3. m.seq \in Nat /\ k.seq \in Nat /\ l.seq \in Nat BY <1>3, <1>6 DEF Written
      <4>4. QED BY <4>1, <4>2, <4>3
    <3>4. QED BY <1>2, <3>2, <3>3 DEF NotAhead
  <2>3. \A k \in lines : k.day = today => k \in lines' BY <1>2, <1>6
  <2>4. Filled' BY <1>2, <1>3, <1>7, <2>3 DEF Filled
  <2>5. NoneSkipped' BY <1>2, <1>3, <1>7 DEF NoneSkipped
  <2>6. QED BY <2>2, <2>4, <2>5
<1>8. QED BY <1>2, <1>4, <1>5, <1>7 DEF TInv

-----------------------------------------------------------------------------
LEMMA NextTInv == TInv /\ [Next]_vars => TInv'
<1>1. ASSUME TInv, Next PROVE TInv'
  BY <1>1, AppendBeginsKeeps, AppendEndsKeeps, AppendTimesOutKeeps, ClientPagesKeeps,
     DayPassesKeeps, PruneKeeps DEF Next
<1>2. ASSUME TInv, UNCHANGED vars PROVE TInv'
  BY <1>2
  DEF vars, TInv, TypeOK, Written, Numbered, OneAtATime, SessionOrder, DaysRise, NotAhead, Filled,
      NoneSkipped
<1>3. QED BY <1>1, <1>2

\* Lines, statements and pages keep their types: COALESCE(max(seq), 0) + 1 is a number
\* whatever retention has removed.
THEOREM TranscriptsTyped == Spec => []TypeOK
<1>1. TInv => TypeOK BY DEF TInv
<1>2. QED BY <1>1, InitTInv, NextTInv, PTL DEF Spec

\* The lines of a session that never gave up on a statement (recordLine's three seconds)
\* are numbered in the order it wrote them, whatever others append and retention removes.
THEOREM SessionsInOrder == Spec => []SessionOrder
<1>1. TInv => SessionOrder BY DEF TInv
<1>2. QED BY <1>1, InitTInv, NextTInv, PTL DEF Spec

\* A client that pages by seq (List) passes over a line only when it has another one with
\* the same number, for every page size, number of sessions and retention.
THEOREM PagesMissOnlyTies == Spec => []MissesOnlyTies
<1>1. TInv => MissesOnlyTies BY DEF TInv, NoneSkipped, MissesOnlyTies, Written
<1>2. QED BY <1>1, InitTInv, NextTInv, PTL DEF Spec
=============================================================================
