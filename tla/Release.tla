------------------------------- MODULE Release -------------------------------
(***************************************************************************)
(* A release as it is made on GitHub, and what the application says of it: *)
(* the rules of modules Checks, Scope, Operations and Backmerge over the   *)
(* evidence that _collect_window of application/analyze_release.py reads.  *)
(*                                                                         *)
(* People file issues, open, link and merge pull requests, and cut the     *)
(* candidate branch from main.  At any time the evidence is collected, as  *)
(* of one instant (module AnalyzeRelease shows why that is sound).  A      *)
(* bounded number of its records may be wrong in ways the client and the   *)
(* mapper let pass: an item that two pages list differently, a URL that    *)
(* names the repository as it was called before, a time stamp after the    *)
(* local clock's, a comparison with a truncated list of commits.  The      *)
(* evidence is then assessed.                                              *)
(***************************************************************************)
EXTENDS Scope, Operations, Backmerge, FiniteSets

CONSTANTS
  IssueNumbers,   \* the numbers issues may have
  PullNumbers,    \* the numbers pull requests may have
  IssueShapes,    \* [milestone, state, labels, owners, body] of an issue
  PullShapes,     \* [milestone, base, merge] of an open pull request: the
                  \* commit is Trial, or None when GitHub has made none
  CommitIds,      \* the commits that may be made
  RunOf,          \* the check run of each commit
  Outcomes,       \* what the migration check may conclude
  HasPrevious,    \* the policy names a previous release
  MaxFaults       \* bound on the wrong records

Root == "root"    \* the first commit, of which every branch is made
Trial == "trial"  \* the test merge of a pull request that is not merged

Branches == {Main, CandidateBranch, PreviousBranch}
AllCommits == CommitIds \cup {Root, Trial}

(* What an issue and a pull request may say.                               *)
Sections == {"absent", "hollow", "filled", "conflict"}

Bodies ==
  [readable : BOOLEAN, before : Sections, during : Sections, after : Sections,
   migration : [is : {"absent", "conflict", "prose", "check"}, run : Nat]]

MilestoneNames == {CurrentMilestone, PreviousMilestone, None}
Labels == {"code", "ops", "blocker", "migration"}

ASSUME ReleaseAssumption ==
  /\ IssueNumbers \cap PullNumbers = {}
  /\ IssueShapes \subseteq
       [milestone : MilestoneNames, state : {"open", "closed"},
        labels : SUBSET Labels, owners : {"some", "none", "invalid"},
        body : Bodies]
  /\ PullShapes \subseteq
       [milestone : MilestoneNames, base : Branches, merge : {Trial, None}]
  /\ {Root, Trial, NoSha, None} \cap CommitIds = {}
  /\ Outcomes \subseteq Conclusions
  /\ RunOf \in [CommitIds \cup {Root} -> Nat \ {0}]
  /\ \A c, d \in CommitIds \cup {Root} : RunOf[c] = RunOf[d] => c = d
  /\ HasPrevious \in BOOLEAN
  /\ MaxFaults \in Nat

Absent == [state |-> "absent"]

VARIABLES
  issues,      \* every issue, or Absent
  pulls,       \* every pull request, or Absent
  links,       \* the pairs of an issue and a pull request naming it
  ancestry,    \* the commits each commit contains, none if it is not made
  tip,         \* the head of every branch
  proof,       \* the conclusion of each commit's migration check, or None
  evidence,    \* what was collected
  touched,     \* the numbers of the records that are wrong
  faults,      \* how many records are wrong
  phase,       \* working, collected or assessed
  verdict,     \* what the application said
  truth        \* history: the blockers on GitHub when it was collected

github == <<issues, pulls, links, ancestry, tip, proof>>
analysis == <<evidence, touched, faults, phase, verdict, truth>>
vars == <<github, analysis>>

-----------------------------------------------------------------------------
(***************************************************************************)
(* compare_commits, as GitHub answers it.                                  *)
(***************************************************************************)
Only(a, b) == ancestry[a] \ ancestry[b]

Comparison(p, base, head) ==
  LET ahead  == Cardinality(Only(head, base))
      behind == Cardinality(Only(base, head))
  IN  [pull |-> p, base |-> base, head |-> head, identified |-> TRUE,
       ahead |-> ahead, behind |-> behind, total |-> ahead, listed |-> ahead,
       headListed |-> ahead > 0,
       status    |-> IF base = head THEN "identical"
                     ELSE IF base \in ancestry[head] THEN "ahead"
                     ELSE IF head \in ancestry[base] THEN "behind"
                     ELSE "diverged",
       mergeBase |-> IF base \in ancestry[head] THEN base
                     ELSE IF head \in ancestry[base] THEN head
                     ELSE Root]

(***************************************************************************)
(* The records GitHub has of an issue, a link and a pull request.          *)
(***************************************************************************)
IssueItem(n) ==
  [number |-> n, kind |-> "issue", source |-> n, url |-> TRUE,
   sound |-> TRUE, state |-> issues[n].state,
   milestone |-> issues[n].milestone, labels |-> issues[n].labels,
   owners |-> issues[n].owners, body |-> issues[n].body]

StateOf(p) == IF pulls[p].state = "open" THEN "open" ELSE "closed"

PullItem(p) ==
  [number |-> p, kind |-> "pull", source |-> p, url |-> TRUE,
   sound |-> TRUE, state |-> StateOf(p), milestone |-> pulls[p].milestone,
   labels |-> {}, owners |-> "none", body |-> Blank]

PullRecord(p) ==
  [number |-> p, source |-> p, url |-> TRUE, sound |-> TRUE,
   state |-> StateOf(p), milestone |-> pulls[p].milestone,
   base |-> pulls[p].base, merged |-> pulls[p].state = "merged",
   merge |-> pulls[p].merge]

LinkRecord(l) ==
  [issue |-> l[1], pull |-> l[2], source |-> l, url |-> TRUE, sound |-> TRUE]

MigrationCheck(c) ==
  [run |-> RunOf[c], name |-> "migrate", sha |-> c,
   status |-> "completed", conclusion |-> proof[c],
   identified |-> TRUE, timed |-> TRUE]

(***************************************************************************)
(* _collect_window.  A timeline is read for the issues of the milestones,  *)
(* a pull request when a milestone or a timeline names it, a comparison    *)
(* when the current milestone or a timeline of its issues does.            *)
(***************************************************************************)
Milestones ==
  {CurrentMilestone} \cup (IF HasPrevious THEN {PreviousMilestone} ELSE {})

ListedIssues(milestones) ==
  {n \in IssueNumbers : issues[n] # Absent /\ issues[n].milestone \in milestones}

ListedPulls(milestones) ==
  {p \in PullNumbers : pulls[p] # Absent /\ pulls[p].milestone \in milestones}

ReadLinks(milestones) == {l \in links : l[1] \in ListedIssues(milestones)}

RelatedPulls(milestones) ==
  ListedPulls(milestones) \cup {l[2] : l \in ReadLinks(milestones)}

Window ==
  LET head == tip[CandidateBranch]
  IN  [items |-> {IssueItem(n) : n \in ListedIssues(Milestones)}
                   \cup {PullItem(p) : p \in ListedPulls(Milestones)},
       links |-> {LinkRecord(l) : l \in ReadLinks(Milestones)},
       pulls |-> {PullRecord(p) : p \in RelatedPulls(Milestones)},
       comparisons |->
         {Comparison(p, pulls[p].merge, head) :
            p \in {q \in RelatedPulls({CurrentMilestone}) :
                     pulls[q].merge # None}},
       checks |-> IF proof[head] = None THEN {} ELSE {MigrationCheck(head)},
       candidate |-> head]

(***************************************************************************)
(* assess: the five families, and the verdict.  The migration check itself *)
(* is not classified as blocking.                                          *)
(***************************************************************************)
CheckCategories == [name \in {"migrate"} |-> "IGNORED"]

Families(e) ==
  {EvaluateScope(e), EvaluateBlockers(e), EvaluateOperations(e)}
  \cup (IF HasPrevious THEN {EvaluateBackmerge(e)} ELSE {})

Snapshot(e) ==
  [version |-> "github_v1", fixture |-> FALSE, unlinked |-> FALSE,
   complete |-> TRUE, errors |-> {}, candidate |-> e.candidate,
   identity |-> TRUE, matchesPolicy |-> TRUE, started |-> 0, fetched |-> 0,
   checks |-> e.checks,
   rest |-> UNION {family.findings : family \in Families(e)},
   restCodes |-> UNION {family.codes : family \in Families(e)}]

Verdict(e) == Assess(Snapshot(e), CheckCategories, {}, 0)

-----------------------------------------------------------------------------
(***************************************************************************)
(* What people do.                                                         *)
(***************************************************************************)
Working == phase = "working"

(* An issue is filed, edited, closed, or moved to another milestone.       *)
EditIssue(n, shape) ==
  /\ Working
  /\ issues[n] # shape
  /\ issues' = [issues EXCEPT ![n] = shape]
  /\ UNCHANGED <<pulls, links, ancestry, tip, proof, analysis>>

OpenPull(p, shape) ==
  /\ Working
  /\ pulls[p] = Absent
  /\ pulls' = [pulls EXCEPT ![p] =
       [state |-> "open", milestone |-> shape.milestone,
        base |-> shape.base, merge |-> shape.merge]]
  /\ UNCHANGED <<issues, links, ancestry, tip, proof, analysis>>

ClosePull(p) ==
  /\ Working
  /\ pulls[p] # Absent /\ pulls[p].state = "open"
  /\ pulls' = [pulls EXCEPT ![p].state = "closed"]
  /\ UNCHANGED <<issues, links, ancestry, tip, proof, analysis>>

Link(n, p) ==
  /\ Working
  /\ issues[n] # Absent /\ pulls[p] # Absent
  /\ <<n, p>> \notin links
  /\ links' = links \cup {<<n, p>>}
  /\ UNCHANGED <<issues, pulls, ancestry, tip, proof, analysis>>

(* A branch gets a new commit on its tip.                                  *)
Made(c) == ancestry[c] # {}

Unmade == {c \in CommitIds : ~Made(c)}

NewCommit == CHOOSE c \in Unmade : TRUE

Commit(branch) ==
  /\ Unmade # {}
  /\ ancestry' = [ancestry EXCEPT ![NewCommit] =
                    ancestry[tip[branch]] \cup {NewCommit}]
  /\ tip' = [tip EXCEPT ![branch] = NewCommit]

Merge(p) ==
  /\ Working
  /\ pulls[p] # Absent /\ pulls[p].state = "open"
  /\ Commit(pulls[p].base)
  /\ pulls' = [pulls EXCEPT ![p].state = "merged", ![p].merge = NewCommit]
  /\ UNCHANGED <<issues, links, proof, analysis>>

(* A fix goes to the candidate branch directly.                            *)
Patch ==
  /\ Working
  /\ Commit(CandidateBranch)
  /\ UNCHANGED <<issues, pulls, links, proof, analysis>>

(* The candidate branch is cut, or cut again, from main.                   *)
Cut ==
  /\ Working
  /\ tip[CandidateBranch] # tip[Main]
  /\ tip' = [tip EXCEPT ![CandidateBranch] = tip[Main]]
  /\ UNCHANGED <<issues, pulls, links, ancestry, proof, analysis>>

(* The migration check of the candidate completes.                         *)
RunMigration(conclusion) ==
  /\ Working
  /\ proof[tip[CandidateBranch]] = None
  /\ proof' = [proof EXCEPT ![tip[CandidateBranch]] = conclusion]
  /\ UNCHANGED <<issues, pulls, links, ancestry, tip, analysis>>

-----------------------------------------------------------------------------
(***************************************************************************)
(* What the application does.                                              *)
(***************************************************************************)
Collect ==
  /\ Working
  /\ evidence' = Window
  /\ truth' = Snapshot(Window).rest
  /\ phase' = "collected"
  /\ UNCHANGED <<github, touched, faults, verdict>>

(* A wrong record: the evidence is not what GitHub holds.                  *)
Corrupt(e, numbers) ==
  /\ phase = "collected"
  /\ faults < MaxFaults
  /\ evidence' = e
  /\ evidence' # evidence
  /\ touched' = touched \cup numbers
  /\ faults' = faults + 1
  /\ UNCHANGED <<github, phase, verdict, truth>>

Instead(records, x, y) == (records \ {x}) \cup {y}

(* Two pages of a listing show an item before and after a change.          *)
ListTwice(x) ==
  \E y \in {[x EXCEPT !.state = "open"], [x EXCEPT !.state = "closed"],
            [x EXCEPT !.milestone = CurrentMilestone],
            [x EXCEPT !.milestone = PreviousMilestone],
            [x EXCEPT !.labels = {}]} :
    Corrupt([evidence EXCEPT !.items = @ \cup {y}], {x.number})

SpoilItem(x) ==
  \E y \in {[x EXCEPT !.url = FALSE], [x EXCEPT !.sound = FALSE]} :
    Corrupt([evidence EXCEPT !.items = Instead(@, x, y)], {x.number})

SpoilPull(r) ==
  \E y \in {[r EXCEPT !.url = FALSE], [r EXCEPT !.sound = FALSE]}
           \cup {[r EXCEPT !.source = p] : p \in PullNumbers} :
    Corrupt([evidence EXCEPT !.pulls = Instead(@, r, y)],
            {r.number} \cup ({y.source} \cap PullNumbers))

SpoilLink(l) ==
  \E y \in {[l EXCEPT !.url = FALSE], [l EXCEPT !.sound = FALSE]} :
    Corrupt([evidence EXCEPT !.links = Instead(@, l, y)], {l.issue, l.pull})

Truncate(c) ==
  Corrupt([evidence EXCEPT !.comparisons =
             Instead(@, c, [c EXCEPT !.listed = 0])], {c.pull})

(* And so may the check runs of the candidate.                             *)
ListCheckTwice(c) ==
  \E conclusion \in Outcomes :
    Corrupt([evidence EXCEPT !.checks =
               @ \cup {[c EXCEPT !.conclusion = conclusion]}],
            {x.number : x \in {y \in evidence.items :
                                 y.body.migration.run = c.run}})

JudgeEvidence ==
  /\ phase = "collected"
  /\ verdict' = Verdict(evidence)
  /\ phase' = "assessed"
  /\ UNCHANGED <<github, evidence, touched, faults, truth>>

Nothing == [items |-> {}, links |-> {}, pulls |-> {}, comparisons |-> {},
            checks |-> {}, candidate |-> Root]

Unjudged == [status |-> "none", findings |-> {}]

(* Work goes on; the verdict is history.                                   *)
Resume ==
  /\ phase = "assessed"
  /\ phase' = "working"
  /\ evidence' = Nothing
  /\ touched' = {}
  /\ faults' = 0
  /\ verdict' = Unjudged
  /\ truth' = {}
  /\ UNCHANGED github

Init ==
  /\ issues = [n \in IssueNumbers |-> Absent]
  /\ pulls = [p \in PullNumbers |-> Absent]
  /\ links = {}
  /\ ancestry = [c \in AllCommits |->
                   IF c = Root THEN {Root}
                   ELSE IF c = Trial THEN {Root, Trial} ELSE {}]
  /\ tip = [branch \in Branches |-> Root]
  /\ proof = [c \in CommitIds \cup {Root} |-> None]
  /\ evidence = Nothing
  /\ touched = {}
  /\ faults = 0
  /\ phase = "working"
  /\ verdict = Unjudged
  /\ truth = {}

People ==
  \/ \E n \in IssueNumbers, shape \in IssueShapes : EditIssue(n, shape)
  \/ \E p \in PullNumbers, shape \in PullShapes : OpenPull(p, shape)
  \/ \E p \in PullNumbers : ClosePull(p)
  \/ \E n \in IssueNumbers, p \in PullNumbers : Link(n, p)
  \/ \E p \in PullNumbers : Merge(p)
  \/ Patch
  \/ Cut
  \/ \E conclusion \in Outcomes : RunMigration(conclusion)

Faults ==
  \/ \E x \in evidence.items : ListTwice(x) \/ SpoilItem(x)
  \/ \E r \in evidence.pulls : SpoilPull(r)
  \/ \E l \in evidence.links : SpoilLink(l)
  \/ \E c \in evidence.comparisons : Truncate(c)
  \/ \E c \in evidence.checks : ListCheckTwice(c)

Next == People \/ Collect \/ Faults \/ JudgeEvidence \/ Resume

Spec == Init /\ [][Next]_vars

-----------------------------------------------------------------------------
(***************************************************************************)
(* What it means, on GitHub itself, that the release is in order.          *)
(***************************************************************************)
MergedTo(p, branch) == pulls[p].state = "merged" /\ pulls[p].base = branch

(* One and the same pull request is linked, in the milestone, merged into  *)
(* main, and contained in the candidate.                                   *)
Delivered(n) ==
  \E p \in PullNumbers :
    /\ <<n, p>> \in links
    /\ MergedTo(p, Main)
    /\ pulls[p].milestone = CurrentMilestone
    /\ pulls[p].merge \in ancestry[tip[CandidateBranch]]

MigrationProved(migration) ==
  LET head == tip[CandidateBranch]
  IN  migration.is = "check" =>
        migration.run = RunOf[head] /\ proof[head] = "success"

Prepared(issue) ==
  /\ issue.owners = "some"
  /\ {issue.body.before, issue.body.during, issue.body.after} = {"filled"}
  /\ MigrationProved(issue.body.migration)

Due(n) ==
  /\ issues[n] # Absent
  /\ issues[n].state = "open"
  /\ issues[n].milestone = CurrentMilestone

IssueInOrder(n) ==
  /\ "blocker" \notin issues[n].labels
  /\ \/ "code" \in issues[n].labels /\ "ops" \notin issues[n].labels /\ Delivered(n)
     \/ "ops" \in issues[n].labels /\ "code" \notin issues[n].labels
  /\ "ops" \in issues[n].labels => Prepared(issues[n])

ShippedBy(p, n) ==
  /\ <<n, p>> \in links
  /\ issues[n].milestone = PreviousMilestone

BackInMain(n) ==
  \E q \in PullNumbers : <<n, q>> \in links /\ MergedTo(q, Main)

BackmergeInOrder ==
  \A p \in PullNumbers :
    /\ pulls[p] # Absent
    /\ pulls[p].milestone = PreviousMilestone
    /\ MergedTo(p, PreviousBranch)
    => /\ \E n \in IssueNumbers : ShippedBy(p, n)
       /\ \A n \in IssueNumbers : ShippedBy(p, n) => BackInMain(n)

InOrder ==
  /\ \A n \in IssueNumbers : Due(n) => IssueInOrder(n)
  /\ HasPrevious => BackmergeInOrder

(* What the issues say can be made out.                                    *)
Legible ==
  /\ \A n \in ListedIssues(Milestones) :
       issues[n].owners # "invalid" /\ issues[n].body.readable
  /\ \A n \in IssueNumbers :
       Due(n) /\ "ops" \in issues[n].labels =>
         LET body == issues[n].body
         IN  /\ "conflict" \notin {body.before, body.during, body.after}
             /\ body.migration.is \notin {"conflict", "prose"}

(***************************************************************************)
(* The shape of the state.                                                 *)
(***************************************************************************)
PullStates == {"open", "closed", "merged"}

Pulls ==
  [state : PullStates, milestone : MilestoneNames, base : Branches,
   merge : CommitIds \cup {Trial, None}]

TypeOK ==
  /\ issues \in [IssueNumbers -> IssueShapes \cup {Absent}]
  /\ pulls \in [PullNumbers -> Pulls \cup {Absent}]
  /\ \A p \in PullNumbers : pulls[p] # Absent =>
       (pulls[p].state = "merged" <=> pulls[p].merge \in CommitIds)
  /\ links \subseteq IssueNumbers \X PullNumbers
  /\ \A l \in links : issues[l[1]] # Absent /\ pulls[l[2]] # Absent
  /\ ancestry \in [AllCommits -> SUBSET AllCommits]
  /\ tip \in [Branches -> CommitIds \cup {Root}]
  /\ \A branch \in Branches : Made(tip[branch])
  /\ proof \in [CommitIds \cup {Root} -> {None} \cup Outcomes]
  /\ \A l \in evidence.links :
       /\ \E x \in evidence.items : x.number = l.issue
       /\ \E r \in evidence.pulls : r.number = l.pull
  /\ faults \in 0..MaxFaults
  /\ phase \in {"working", "collected", "assessed"}
  /\ verdict.status \in ReleaseStatus \cup {"none"}

(***************************************************************************)
(* A release the application calls READY is in order on GitHub, even when  *)
(* some of the evidence it read was wrong: every rule refuses to choose a  *)
(* favourable record (evaluate_scope, evaluate_blockers,                   *)
(* evaluate_operations, evaluate_backmerge, composed by assess).           *)
(***************************************************************************)
ReadyMeansInOrder == verdict.status = "READY" => InOrder

(***************************************************************************)
(* When the evidence is what GitHub holds, the verdict is exact: READY if  *)
(* and only if the release is in order, and doubt only about what an issue *)
(* says.  The staged rules add up to one pull request per issue that       *)
(* passes every stage.                                                     *)
(***************************************************************************)
VerdictIsExact ==
  phase = "assessed" /\ faults = 0 =>
    verdict.status = IF ~Legible THEN "INSUFFICIENT_DATA"
                     ELSE IF InOrder THEN "READY" ELSE "NOT_READY"

(***************************************************************************)
(* "Invalid evidence quarantines only the entity chains that depend on it" *)
(* (evaluate_backmerge; ScopeEvidenceError says the same of its rules): a  *)
(* blocker appears or disappears because of a wrong record only when its   *)
(* issue or pull request is linked to that record's.                       *)
(***************************************************************************)
Business(findings) ==
  {f \in findings : f.severity # "INSUFFICIENT_DATA"}

Chain(numbers) ==
  numbers
  \cup {l[1] : l \in {k \in links : k[2] \in numbers}}
  \cup {l[2] : l \in {k \in links : k[1] \in numbers}}

QuarantineIsLocal ==
  phase = "assessed" =>
    LET said == Business(verdict.findings)
    IN  \A f \in (said \ truth) \cup (truth \ said) :
          Chain(f.subject.numbers) \cap touched # {}

(***************************************************************************)
(* What blocks the release on GitHub is withheld only together with a      *)
(* reason to doubt the evidence, never silently (the EvidenceErrors of the *)
(* rules carry findings and codes).  A wrong record may at most move an    *)
(* issue to another stage of the scope rules.                              *)
(***************************************************************************)
Accused(findings) == {f.subject : f \in Business(findings)}

NothingWithheldSilently ==
  /\ phase = "assessed"
  /\ ~(Accused(truth) \subseteq Accused(verdict.findings))
  =>
    verdict.status = "INSUFFICIENT_DATA"

(***************************************************************************)
(* No wrong record makes the blocker, operations and back-merge rules      *)
(* accuse an issue or a pull request that is in order: they report doubt.  *)
(***************************************************************************)
ScopeRules ==
  {"scope.exactly_one_type", "scope.code_change_requires_pr",
   "scope.pr_requires_milestone", "scope.pr_requires_main_merge",
   "scope.change_requires_candidate_inclusion"}

NoFalseBlame ==
  phase = "assessed" =>
    {f \in Business(verdict.findings) : f.rule \notin ScopeRules}
      \subseteq truth

(***************************************************************************)
(* The design says that an issue labelled migration-required needs a link  *)
(* to a successful check before the release is READY.                      *)
(***************************************************************************)
MigrationsAreEvidenced ==
  verdict.status = "READY" =>
    \A n \in IssueNumbers :
      Due(n) /\ "migration" \in issues[n].labels =>
        /\ issues[n].body.migration.is = "check"
        /\ MigrationProved(issues[n].body.migration)
=============================================================================
