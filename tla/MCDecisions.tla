---------------------------- MODULE MCDecisions ----------------------------
(***************************************************************************)
(* Decisions on a small instance: one candidate with a blocking check and  *)
(* two advisory checks that have not succeeded, and variations of it.      *)
(***************************************************************************)
EXTENDS Decisions, TLC

Check(run0, name, status, conclusion) ==
  [run |-> run0, name |-> name, sha |-> "head", status |-> status,
   conclusion |-> conclusion, identified |-> TRUE, timed |-> TRUE]

Unit(conclusion)  == Check(1, "unit", "completed", conclusion)
Lint(conclusion)  == Check(2, "lint", "completed", conclusion)
Audit             == Check(3, "audit", "in_progress", None)
Rerun             == Check(4, "lint", "completed", "success")

Snapshot(time, checks, complete) ==
  [version |-> "github_v1", fixture |-> FALSE, unlinked |-> FALSE,
   complete |-> complete,
   errors |-> IF complete THEN {} ELSE {"github.inconsistent_state"},
   candidate |-> "head", identity |-> TRUE, matchesPolicy |-> TRUE,
   started |-> time, fetched |-> time, checks |-> checks,
   rest |-> {}, restCodes |-> {}]

(* Two open decisions, so that requests for one and for both race.         *)
TwoOpen == {Unit("success"), Lint("failure"), Audit}

MCSnapshots ==
  {Snapshot(t, TwoOpen, TRUE) : t \in {0, 1}}

(* One open decision beside what keeps a run from READY: a blocker of      *)
(* another rule, or a window that was not read to its end.                 *)
OneOpen == {Unit("success"), Lint("failure")}

OtherBlocker == Finding("scope.code_change_requires_pr", "BLOCKING", Plain("issue"))

(* And a name two check runs dispute, a release without its blocking       *)
(* check, and one with a check that the policy does not know.              *)
MCVariedSnapshots ==
  {Snapshot(0, checks, TRUE) :
     checks \in {TwoOpen,
                 {Unit("success"), Lint("failure"), Rerun},
                 {Lint("timed_out")},
                 OneOpen \cup {Check(5, "smoke", "completed", "success")}}}
  \cup {Snapshot(0, OneOpen, FALSE),
        [Snapshot(0, OneOpen, TRUE) EXCEPT !.rest = {OtherBlocker}]}

MCPolicy ==
  ("unit" :> "BLOCKING") @@ ("lint" :> "ADVISORY") @@ ("audit" :> "ADVISORY")

MCPolicies == {MCPolicy}
=============================================================================
