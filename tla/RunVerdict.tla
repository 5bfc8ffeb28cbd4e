----------------------------- MODULE RunVerdict -----------------------------
(***************************************************************************)
(* What the decision lifecycle promises its users, without transactions,   *)
(* locks, clocks or check records: the human-decision lifecycle of         *)
(* docs/portfolio/architecture.md.                                         *)
(*                                                                         *)
(* A run is published once with a verdict.  While it needs a decision, an  *)
(* open finding may be accepted, which closes it, or marked a blocker,     *)
(* which settles the run.  The last acceptance makes the run READY unless  *)
(* it also holds something no decision can settle.                         *)
(***************************************************************************)
CONSTANTS
  Runs,          \* the run ids
  Findings       \* the fingerprints of findings a human may decide

VARIABLES
  status,        \* the verdict of each run, "none" before it is published
  open,          \* its undecided findings
  unclassified   \* whether it also holds a finding only a policy can settle

vars == <<status, open, unclassified>>

Init ==
  /\ status = [r \in Runs |-> "none"]
  /\ open = [r \in Runs |-> {}]
  /\ unclassified = [r \in Runs |-> FALSE]

(* NEEDS_DECISION is published exactly when nothing worse is known and     *)
(* something is left to settle.                                            *)
Publish(r) ==
  /\ status[r] = "none"
  /\ \E findings \in SUBSET Findings, more \in BOOLEAN :
       /\ open' = [open EXCEPT ![r] = findings]
       /\ unclassified' = [unclassified EXCEPT ![r] = more]
       /\ \/ status' = [status EXCEPT ![r] = "INSUFFICIENT_DATA"]
          \/ status' = [status EXCEPT ![r] = "NOT_READY"]
          \/ /\ findings # {} \/ more
             /\ status' = [status EXCEPT ![r] = "NEEDS_DECISION"]
          \/ /\ findings = {} /\ ~more
             /\ status' = [status EXCEPT ![r] = "READY"]

Accept(r, f) ==
  /\ status[r] = "NEEDS_DECISION"
  /\ f \in open[r]
  /\ open' = [open EXCEPT ![r] = @ \ {f}]
  /\ status' = [status EXCEPT ![r] =
                  IF open[r] = {f} /\ ~unclassified[r]
                    THEN "READY" ELSE "NEEDS_DECISION"]
  /\ UNCHANGED unclassified

Block(r, f) ==
  /\ status[r] = "NEEDS_DECISION"
  /\ f \in open[r]
  /\ open' = [open EXCEPT ![r] = @ \ {f}]
  /\ status' = [status EXCEPT ![r] = "NOT_READY"]
  /\ UNCHANGED unclassified

Next ==
  \E r \in Runs :
    \/ Publish(r)
    \/ \E f \in Findings : Accept(r, f) \/ Block(r, f)

Spec == Init /\ [][Next]_vars
=============================================================================
