-------------------------- MODULE MCAnalyzeRelease --------------------------
(***************************************************************************)
(* One analysis of a milestone with one issue, whose timeline comes to     *)
(* name a pull request, on a candidate branch that may be moved between    *)
(* two commits.                                                            *)
(***************************************************************************)
EXTENDS AnalyzeRelease, TLC, Sequences

Timeline == [kind |-> "timeline", id |-> "1"]
Pull     == [kind |-> "pull", id |-> "7"]

MCCommits == {"c1", "c2"}

MCResources ==
  {Milestone, Items, CandidateRef, Timeline, Pull} \cup Previous
  \cup {CheckRuns(c) : c \in MCCommits}

(* The issue is in the milestone from the start; its timeline names the    *)
(* pull request from version 1 on.                                         *)
MCMentions(x, v) ==
  IF x.kind = "items" THEN {Timeline}
  ELSE IF x = Timeline /\ v > 0 THEN {Pull}
  ELSE {}

(* The check of the first commit is awaited and then succeeds; that of the *)
(* second has succeeded.                                                   *)
MCCheck(commit, conclusion) ==
  [run |-> IF commit = "c1" THEN 1 ELSE 2, name |-> "unit", sha |-> commit,
   status |-> IF conclusion = None THEN "in_progress" ELSE "completed",
   conclusion |-> conclusion, identified |-> TRUE, timed |-> TRUE]

MCChecksIn(commit, v) ==
  IF commit = "c1"
    THEN {MCCheck(commit, IF v = 0 THEN None ELSE "success")}
    ELSE {MCCheck(commit, "success")}

(* An issue without a pull request blocks the release.                     *)
MCRestOf(w) ==
  IF Pull \in DOMAIN w
    THEN {}
    ELSE {Finding("scope.code_change_requires_pr", "BLOCKING", Plain("issue"))}

MCRestCodesOf(w) == {}

(* A second policy version adds the previous release.                      *)
MCPolicyVersions ==
  <<[previous |-> FALSE, categories |-> "unit" :> "BLOCKING"],
    [previous |-> TRUE,  categories |-> "unit" :> "BLOCKING"]>>

(* The timeline changes, and the check runs of one commit.                 *)
MCMaxVersion ==
  [x \in MCResources |->
     IF x = Timeline \/ x = CheckRuns("c1") THEN 1 ELSE 0]
=============================================================================
