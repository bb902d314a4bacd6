-------------------------- MODULE DeliveryContract --------------------------
(***************************************************************************)
(* What a run promises the owner of the repository.  The worktree changes  *)
(* by the owner's own hand, by a planner that broke its read-only contract *)
(* (then nothing is delivered), and once, as a whole and on top of what is *)
(* there, by a change the allowed paths permit.  At most one truth verdict *)
(* is issued; one that claims a result presupposes the delivery, a run     *)
(* that is blocked has delivered nothing.                                  *)
(***************************************************************************)
CONSTANTS
  Safe,    \* what the allowed paths let a delivery contain
  Owner,   \* what the owner changes meanwhile
  Leak     \* what a planner changed that had no business to

VARIABLES
  worktree,   \* differences of the owner's worktree from the baseline
  delivered,  \* the delivered change
  issued      \* the truth verdict

vars == <<worktree, delivered, issued>>

Nothing == {"nothing"}
None    == "none"

Init == worktree = {} /\ delivered = Nothing /\ issued = None

OwnerEdits == worktree' = worktree \cup {Owner} /\ UNCHANGED <<delivered, issued>>

PlannerLeaks ==
  /\ delivered = Nothing /\ issued = None
  /\ worktree' = worktree \cup {Leak}
  /\ UNCHANGED <<delivered, issued>>

\* Once, and never onto what a planner left.
Deliver ==
  /\ delivered = Nothing /\ issued = None /\ Leak \notin worktree
  /\ delivered' \in SUBSET Safe
  /\ worktree' = worktree \cup delivered'
  /\ UNCHANGED issued

Claims == {"PROVEN", "PARTIAL"}

Conclude ==
  /\ issued = None
  /\ issued' \in Claims \cup {"BLOCKED", "FAILED"}
  /\ issued' \in Claims   => delivered # Nothing
  /\ issued' = "BLOCKED" => delivered = Nothing
  /\ UNCHANGED <<worktree, delivered>>

Next == OwnerEdits \/ PlannerLeaks \/ Deliver \/ Conclude

Spec == Init /\ [][Next]_vars
=============================================================================
