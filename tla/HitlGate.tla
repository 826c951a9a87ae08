------------------------------- MODULE HitlGate -------------------------------
(***************************************************************************)
(* The human-in-the-loop gate (internal/hitl): approval records, the       *)
(* pending set and the audit entries it keeps in Redis.  A pipeline is not *)
(* a transaction: its commands run in order, but commands of other clients *)
(* may come between them, so every command is a step of its own.           *)
(***************************************************************************)
EXTENDS Naturals

CONSTANTS
  Approvals,   \* approval ids (bounds the submissions)
  Deciders,    \* concurrent POST /approvals/{id} handlers
  NoApproval

ASSUME NoApprovalAssumption == NoApproval \notin Approvals

VARIABLES
  rec,      \* hitl:approval:<id>: State, or "none" / "expired" when the key is absent
  listed,   \* hitl:pending
  lapses,   \* does hitl:pending have a TTL?
  covered,  \* records whose own deadline is not after the one of hitl:pending
  audit,    \* hitl:audit:<id>
  decider,  \* the Decide calls in progress
  healer,   \* the Pending call in progress: the id whose GET returned nil
  granted   \* ghost: records that an approval was ever written to

gateVars == <<rec, listed, lapses, covered, audit, decider, healer, granted>>

Decisions == {"approved", "rejected"}
NoDecide == [pc |-> "idle", id |-> NoApproval, decision |-> "none"]

InitGate ==
  /\ rec = [a \in Approvals |-> "none"]
  /\ listed = {} /\ lapses = FALSE /\ covered = {}
  /\ audit = [a \in Approvals |-> "none"]
  /\ decider = [d \in Deciders |-> NoDecide]
  /\ healer = NoApproval
  /\ granted = {}

-----------------------------------------------------------------------------
(* Submit: SET with the TTL, SADD, EXPIRE of the set.                       *)

SubmitSet(a) ==
  /\ rec' = [rec EXCEPT ![a] = "pending"]
  /\ UNCHANGED <<listed, lapses, covered, audit, decider, healer, granted>>

SubmitAdd(a) ==
  /\ listed' = listed \cup {a}
  /\ UNCHANGED <<rec, lapses, covered, audit, decider, healer, granted>>

\* All records have the same TTL, so a fresh TTL on the set outlasts every record
\* there is.  EXPIRE of a set that is gone does nothing.
SubmitExpire ==
  /\ lapses' = (listed # {})
  /\ covered' = IF listed = {} THEN {} ELSE {a \in Approvals : rec[a] # "none"}
  /\ UNCHANGED <<rec, listed, audit, decider, healer, granted>>

-----------------------------------------------------------------------------
(* Decide.                                                                  *)

\* Faulty: a decision that is neither leaves the record's state as it was read.
DecideRead_AnyDecision(d) == \E a \in Approvals, decision \in Decisions \cup {"pending"} :
  /\ decider[d].pc = "idle"
  /\ rec[a] = "pending"
  /\ decider' = [decider EXCEPT ![d] = [pc |-> "set", id |-> a, decision |-> decision]]
  /\ UNCHANGED <<rec, listed, lapses, covered, audit, healer, granted>>

\* GET, the test for StatePending and for a known decision; any other outcome
\* returns an error.
DecideRead(d) == \E a \in Approvals, decision \in Decisions :
  /\ decider[d].pc = "idle"
  /\ rec[a] = "pending"
  /\ decider' = [decider EXCEPT ![d] = [pc |-> "set", id |-> a, decision |-> decision]]
  /\ UNCHANGED <<rec, listed, lapses, covered, audit, healer, granted>>

\* SET of the decided record, with a new TTL and whatever the key holds by now.
DecideSet(d) ==
  /\ decider[d].pc = "set"
  /\ rec' = [rec EXCEPT ![decider[d].id] = decider[d].decision]
  /\ granted' = IF decider[d].decision = "approved"
                THEN granted \cup {decider[d].id} ELSE granted
  /\ decider' = [decider EXCEPT ![d].pc = "srem"]
  /\ UNCHANGED <<listed, lapses, covered, audit, healer>>

\* SREM; a set that becomes empty is deleted together with its TTL.
Unlist(a) ==
  /\ listed' = listed \ {a}
  /\ lapses' = (lapses /\ listed' # {})
  /\ covered' = IF listed' = {} THEN {} ELSE covered

DecideUnlist(d) ==
  /\ decider[d].pc = "srem"
  /\ Unlist(decider[d].id)
  /\ decider' = [decider EXCEPT ![d].pc = "audit"]
  /\ UNCHANGED <<rec, audit, healer, granted>>

DecideAudit(d) ==
  /\ decider[d].pc = "audit"
  /\ audit' = [audit EXCEPT ![decider[d].id] = decider[d].decision]
  /\ decider' = [decider EXCEPT ![d] = NoDecide]
  /\ UNCHANGED <<rec, listed, lapses, covered, healer, granted>>

\* The pipeline fails (connection lost, request cancelled) before its next command.
DecideFails(d) ==
  /\ decider[d].pc # "idle"
  /\ decider' = [decider EXCEPT ![d] = NoDecide]
  /\ UNCHANGED <<rec, listed, lapses, covered, audit, healer, granted>>

DecideStep(d) == DecideSet(d) \/ DecideUnlist(d) \/ DecideAudit(d) \/ DecideFails(d)

-----------------------------------------------------------------------------
(* Pending: the list, with SREM of members whose record is gone.            *)

PendingMissing ==
  /\ healer = NoApproval
  /\ \E a \in listed : rec[a] \in {"none", "expired"} /\ healer' = a
  /\ UNCHANGED <<rec, listed, lapses, covered, audit, decider, granted>>

PendingHeal ==
  /\ healer # NoApproval
  /\ Unlist(healer)
  /\ healer' = NoApproval
  /\ UNCHANGED <<rec, audit, decider, granted>>

-----------------------------------------------------------------------------
(* Redis expiry.                                                            *)

RecordExpires(a) ==
  /\ rec[a] \in {"pending", "approved", "rejected"}
  /\ rec' = [rec EXCEPT ![a] = "expired"]
  /\ UNCHANGED <<listed, lapses, covered, audit, decider, healer, granted>>

\* The set outlives every pending record its TTL covers.
SetExpires ==
  /\ lapses
  /\ \A a \in covered : rec[a] # "pending"
  /\ listed' = {} /\ lapses' = FALSE /\ covered' = {}
  /\ UNCHANGED <<rec, audit, decider, healer, granted>>

GateStep ==
  \/ \E d \in Deciders : DecideRead(d) \/ DecideStep(d)
  \/ PendingMissing \/ PendingHeal
  \/ \E a \in Approvals : RecordExpires(a)
  \/ SetExpires

-----------------------------------------------------------------------------
GateTypeOK ==
  /\ rec \in [Approvals -> {"none", "pending", "approved", "rejected", "expired"}]
  /\ listed \subseteq Approvals /\ lapses \in BOOLEAN /\ covered \subseteq Approvals
  /\ audit \in [Approvals -> Decisions \cup {"none"}]
  /\ decider \in [Deciders -> [pc : {"idle", "set", "srem", "audit"},
                               id : Approvals \cup {NoApproval},
                               decision : Decisions \cup {"none"}]]
  /\ healer \in Approvals \cup {NoApproval}
  /\ granted \subseteq Approvals
=============================================================================
