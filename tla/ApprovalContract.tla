--------------------------- MODULE ApprovalContract ---------------------------
(***************************************************************************)
(* What the human-in-the-loop gate promises an operator, without records,  *)
(* time-outs, polls or goroutines: a sensitive command is held under an    *)
(* approval of its own, and leaves the hold towards the guest only after   *)
(* that approval was granted.  An approval is never used again, so one     *)
(* grant releases at most one command, the one it was asked for.           *)
(***************************************************************************)
CONSTANTS Sessions, Approvals, NoApproval

VARIABLES
  desk,     \* what each session has at hand: nothing, a command, its approval
  used,     \* approvals that were ever asked for
  granted   \* approvals that were granted

vars == <<desk, used, granted>>

Clear == [at |-> "idle", approval |-> NoApproval]

Init == desk = [s \in Sessions |-> Clear] /\ used = {} /\ granted = {}

Put(s, d) == desk' = [desk EXCEPT ![s] = d]

\* A benign command needs nobody.
RunBenign(s) ==
  /\ desk[s] = Clear
  /\ Put(s, [at |-> "benign", approval |-> NoApproval])
  /\ UNCHANGED <<used, granted>>

Hold(s) == \E a \in Approvals \ used :
  /\ desk[s] = Clear
  /\ Put(s, [at |-> "held", approval |-> a])
  /\ used' = used \cup {a}
  /\ UNCHANGED granted

Grant == \E a \in used :
  /\ granted' = granted \cup {a}
  /\ UNCHANGED <<desk, used>>

Release(s) ==
  /\ desk[s].at = "held" /\ desk[s].approval \in granted
  /\ Put(s, [at |-> "released", approval |-> desk[s].approval])
  /\ UNCHANGED <<used, granted>>

\* The command is given up; an approval that nobody was shown may be asked for later.
Drop(s) ==
  /\ desk[s].at = "held"
  /\ Put(s, Clear)
  /\ used' \in {used, used \ {desk[s].approval}}
  /\ UNCHANGED granted

Finish(s) ==
  /\ desk[s].at \in {"benign", "released"}
  /\ Put(s, Clear)
  /\ UNCHANGED <<used, granted>>

Next ==
  \/ \E s \in Sessions : RunBenign(s) \/ Hold(s) \/ Release(s) \/ Drop(s) \/ Finish(s)
  \/ Grant

Spec == Init /\ [][Next]_vars
=============================================================================
