------------------------------ MODULE MCSeeder ------------------------------
(***************************************************************************)
(* The seeder with two of its issues, the one that is to be closed and the *)
(* one that is given the evidence, two milestones and one label.           *)
(***************************************************************************)
EXTENDS Seeder

MCMilestones == <<"previous", "current">>
MCLabels     == <<"code-change">>
MCIssues     == <<"release-operations", "resolved-blocker">>
MCClosed     == {"resolved-blocker"}

MCBounds ==
  {[stops |-> 0, edits |-> 2, lag |-> 0], [stops |-> 2, edits |-> 1, lag |-> 0],
   [stops |-> 2, edits |-> 0, lag |-> 1], [stops |-> 0, edits |-> 1, lag |-> 1]}
=============================================================================
