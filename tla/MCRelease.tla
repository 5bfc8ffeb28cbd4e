------------------------------ MODULE MCRelease ------------------------------
(***************************************************************************)
(* Small releases: which issues, pull requests and commits there may be,   *)
(* one family of rules at a time in the foreground.                        *)
(***************************************************************************)
EXTENDS Release, TLC, Sequences

MCRunOf ==
  [c \in CommitIds \cup {Root} |-> IF c = Root THEN 1 ELSE IF c = "c1" THEN 2 ELSE 3]

Body(section, is, run) ==
  [readable |-> TRUE, before |-> section, during |-> "filled",
   after |-> "filled", migration |-> [is |-> is, run |-> run]]

Shape(milestone, state, labels, owners, body) ==
  [milestone |-> milestone, state |-> state, labels |-> labels,
   owners |-> owners, body |-> body]

CodeChange(milestone, state) == Shape(milestone, state, {"code"}, "none", Blank)

Symmetric == Permutations(PullNumbers) \cup Permutations(IssueNumbers)

Pull(milestone, base) == [milestone |-> milestone, base |-> base, merge |-> Trial]

(***************************************************************************)
(* Scope: one issue and two pull requests, of which each may fall short at *)
(* another stage.                                                          *)
(***************************************************************************)
ScopeIssues ==
  {CodeChange(CurrentMilestone, "open"),
   CodeChange(CurrentMilestone, "closed"),
   Shape(CurrentMilestone, "open", {"code", "ops"}, "none", Blank)}

ScopePulls ==
  {Pull(CurrentMilestone, Main), Pull(None, Main),
   [Pull(CurrentMilestone, CandidateBranch) EXCEPT !.merge = None]}

(***************************************************************************)
(* Back-merge: two issues of the previous release and the pull requests    *)
(* that shipped them or brought them back to main.                         *)
(***************************************************************************)
BackmergeIssues ==
  {CodeChange(PreviousMilestone, "closed"), CodeChange(CurrentMilestone, "open")}

BackmergePulls ==
  {Pull(PreviousMilestone, PreviousBranch), Pull(None, Main)}

(* The rule does not read the candidate branch, which stays where it is,   *)
(* and two wrong records together are tried on releases of one issue.      *)
CandidateStays == tip[CandidateBranch] = Root

Filed == {n \in IssueNumbers : issues[n] # Absent}

BackmergeBound == CandidateStays /\ (faults = 2 => Cardinality(Filed) <= 1)

(***************************************************************************)
(* Operations: two issues about the migration and the blockers.            *)
(***************************************************************************)
Ops(labels, owners, body) ==
  Shape(CurrentMilestone, "open", labels, owners, body)

OperationsShapes ==
  {Ops({"ops"}, "some", Body("filled", is, 0)) : is \in {"absent", "prose", "conflict"}}
  \cup {Ops({"ops"}, "some", Body("filled", "check", run)) : run \in {1, 2}}
  \cup {Ops({"ops"}, "some", Body(section, "absent", 0)) :
          section \in {"absent", "hollow", "conflict"}}
  \cup {Ops({"ops"}, owners, Body("filled", "absent", 0)) :
          owners \in {"none", "invalid"}}
  \cup {Ops({"ops"}, "some", [Body("filled", "absent", 0) EXCEPT !.readable = FALSE]),
        Ops({"ops", "blocker"}, "some", Body("filled", "absent", 0))}

(***************************************************************************)
(* A milestone is about one or the other.                                  *)
(***************************************************************************)
MilestoneIssues == ScopeIssues \cup OperationsShapes

AboutScope ==
  /\ Cardinality(Filed) <= 1
  /\ \A n \in Filed : issues[n] \in ScopeIssues
  /\ \A c \in DOMAIN proof : proof[c] = None

AboutOperations ==
  /\ \A n \in Filed : issues[n] \in OperationsShapes
  /\ \A p \in PullNumbers : pulls[p] = Absent
  /\ Unmade # {}

ScopeOrOperations == AboutScope \/ AboutOperations

(* A migration, as the demo manifest labels it.                            *)
MigrationIssues ==
  {Shape(CurrentMilestone, "open", {"code", "migration"}, "none", Blank)}
=============================================================================
