------------------------------ MODULE Evidence ------------------------------
(***************************************************************************)
(* What the release rules read: the records of a snapshot other than its   *)
(* check runs, and the verdict on one issue record (domain/models.py,      *)
(* ports/github.py, _analyze_issue_evidence of domain/rules/blockers.py).  *)
(*                                                                         *)
(* The evidence of a snapshot is a record e:                               *)
(*   e.items        what the two milestones list, issues and pull requests *)
(*     number, kind ("issue" or "pull"), source, state, milestone, labels, *)
(*     owners ("some", "none", "invalid"), body (module Operations)        *)
(*   e.links        the pull requests an issue's timeline names            *)
(*     issue, pull, source                                                 *)
(*   e.pulls        the pull requests                                      *)
(*     number, source, state, milestone, base, merged, merge               *)
(*   e.comparisons  merge commits compared with the candidate (Scope)      *)
(*   e.checks       the check runs of the candidate (Checks)               *)
(*   e.candidate    the candidate commit                                   *)
(* and two fields that stand for the format checks on an item, a link or a *)
(* pull request:                                                           *)
(*   url    the URL is that of this repository, this kind and this number  *)
(*   sound  every other field that is checked is well formed: ids, labels, *)
(*          branches, commits, and timestamps in order and not after the   *)
(*          snapshot was fetched                                           *)
(*                                                                         *)
(* The records are sets: the rules identify records by their canonical     *)
(* JSON, so an exact duplicate is no second record.  Two different records *)
(* of one number are in conflict, and no rule ever chooses between them.   *)
(***************************************************************************)
EXTENDS Assessment

(***************************************************************************)
(* The names of the policy.  The rules run only on a snapshot that agrees  *)
(* with the policy on them (_prerequisite_error_codes).                    *)
(***************************************************************************)
Main == "main"
CandidateBranch == "candidate"
PreviousBranch == "previous"

CurrentMilestone == "current"
PreviousMilestone == "previous"

Issues(e) == {x \in e.items : x.kind = "issue"}
PullItems(e) == {x \in e.items : x.kind = "pull"}

(* The only record of its number.                                          *)
Alone(records, x) == \A y \in records : y.number = x.number => y = x

Blocking(rule, numbers) == Finding(rule, "BLOCKING", [numbers |-> numbers])

CodesAt(code, numbers) == {Code(code, {n}) : n \in numbers}

-----------------------------------------------------------------------------
(***************************************************************************)
(* _analyze_issue_evidence.  One malformed record puts every record of its *)
(* number aside.  An invalid owner or an unreadable body does not: it is   *)
(* blanked, and reported.                                                  *)
(***************************************************************************)
Blank == [readable |-> TRUE, before |-> "absent", during |-> "absent",
          after |-> "absent", migration |-> [is |-> "absent", run |-> 0]]

WellFormed(x) == x.url /\ x.sound

Safe(x) ==
  [x EXCEPT !.owners = IF @ = "invalid" THEN "none" ELSE @,
            !.body = IF @.readable THEN @ ELSE Blank]

(* Numbers that are listed both as an issue and as a pull request.         *)
Ambiguous(e) ==
  {x.number : x \in Issues(e)} \cap {x.number : x \in PullItems(e)}

MalformedSpreads(e) ==
  {x.number : x \in {y \in Issues(e) : \E z \in Issues(e) : ~WellFormed(z)}}

Malformed(e) ==
  {x.number : x \in {y \in Issues(e) : ~WellFormed(y)}} \ Ambiguous(e)

Conflicting(e) ==
  Ambiguous(e)
  \cup {x.number : x \in {y \in Issues(e) :
          /\ y.number \notin Malformed(e)
          /\ \E z \in Issues(e) : z.number = y.number /\ Safe(z) # Safe(y)}}

ValidIssues(e) ==
  {Safe(x) : x \in {y \in Issues(e) :
     y.number \notin Malformed(e) \cup Conflicting(e)}}

InvalidOwners(e) ==
  {x.number : x \in ValidIssues(e)}
  \cap {x.number : x \in {y \in Issues(e) : y.owners = "invalid"}}

InvalidBodies(e) ==
  {x.number : x \in ValidIssues(e)}
  \cap {x.number : x \in {y \in Issues(e) : ~y.body.readable}}

IssueCodesMalformed(e) == CodesAt("issue.invalid", Malformed(e))

IssueCodes(e) ==
  CodesAt("issue.invalid", Malformed(e))
  \cup CodesAt("issue.conflicting_records", Conflicting(e))

InCurrentRelease(x) == x.state = "open" /\ x.milestone = CurrentMilestone

(***************************************************************************)
(* evaluate_blockers: an open blocker of the milestone blocks its release. *)
(***************************************************************************)
EvaluateBlockers(e) ==
  [findings |-> {Blocking("blockers.open_release_blocker", {x.number}) :
                   x \in {y \in ValidIssues(e) :
                            InCurrentRelease(y) /\ "blocker" \in y.labels}},
   codes    |-> IssueCodes(e)
                  \cup CodesAt("issue.invalid_assignees", InvalidOwners(e))
                  \cup CodesAt("issue.invalid_body", InvalidBodies(e))]
=============================================================================
