---------------------------- MODULE CidAllocator ----------------------------
(***************************************************************************)
(* The ring of vsock context ids (cidAllocator in orchestrator.go).  Every *)
(* method runs under the allocator's own mutex, so each one is a single    *)
(* step.  The loop of alloc walks the ring once from next; CIDs are        *)
(* compared by their distance from next along the ring.                    *)
(***************************************************************************)
EXTENDS Naturals

CONSTANTS CIDMin, CIDMax

\* NewSupervisor replaces a zero CIDMin by 3, and uint32 arithmetic does not
\* wrap for a non-empty range that starts above 0.
ASSUME CidRangeAssumption ==
  /\ CIDMin \in Nat \ {0}
  /\ CIDMax \in Nat
  /\ CIDMin <= CIDMax

VARIABLES next, used

CIDs == CIDMin .. CIDMax

\* newCIDAllocator
InitAllocator == next = CIDMin /\ used = {}

\* How many iterations the loop of alloc takes to reach c.
Distance(c) == IF c >= next THEN c - next ELSE (CIDMax - next + 1) + (c - CIDMin)

\* Faulty: the cursor does not wrap.
After_NoWrap(c) == c + 1

\* The cursor after c was looked at.
After(c) == IF c = CIDMax THEN CIDMin ELSE c + 1

\* alloc returns c: the first free CID met on the way round the ring.
Alloc(c) ==
  /\ c \in CIDs \ used
  /\ \A d \in CIDs \ used : Distance(c) <= Distance(d)
  /\ next' = After(c)
  /\ used' = used \cup {c}

\* alloc fails after a full turn, which brings the cursor back to where it was.
Exhausted == CIDs \subseteq used /\ UNCHANGED <<next, used>>

\* free(cid): the cursor stays, so a freed CID is the last to be handed out again.
Free(c) == used' = used \ {c} /\ UNCHANGED next

=============================================================================
