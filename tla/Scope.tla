-------------------------------- MODULE Scope --------------------------------
(***************************************************************************)
(* The scope rules: evaluate_scope of domain/rules/scope.py.               *)
(*                                                                         *)
(* Every open issue of the milestone has exactly one type.  A code change  *)
(* has one pull request that passes all stages: linked, in the milestone,  *)
(* merged into main, and contained in the candidate branch.  An issue is   *)
(* reported at the first stage that no pull request passes.                *)
(*                                                                         *)
(* A comparison of a pull request's merge commit (base) with the candidate *)
(* (head), as GitHub answered it:                                          *)
(*   pull, base, head, mergeBase, status                                   *)
(*   ahead, behind, total   the counts                                     *)
(*   listed                 how many commits the answer lists              *)
(*   headListed             the head is one of them                        *)
(*   identified             the commits and URLs are well formed and name  *)
(*                          base and head in this repository               *)
(***************************************************************************)
EXTENDS Evidence

CurrentIssues(e) == {x \in Issues(e) : InCurrentRelease(x)}

(***************************************************************************)
(* _is_coherent_comparison_matrix: status, counts and commits agree.       *)
(***************************************************************************)
Coherent(c) ==
  \/ /\ c.status = "identical"
     /\ c.base = c.head /\ c.mergeBase = c.head
     /\ c.ahead = 0 /\ c.behind = 0 /\ c.total = 0 /\ c.listed = 0
  \/ /\ c.status = "behind"
     /\ c.base # c.head /\ c.mergeBase = c.head
     /\ c.ahead = 0 /\ c.behind > 0 /\ c.total = 0 /\ c.listed = 0
  \/ /\ c.status \in {"ahead", "diverged"}
     /\ c.base # c.head
     /\ c.ahead > 0 /\ c.total = c.ahead /\ c.listed = c.total /\ c.headListed
     /\ IF c.status = "ahead"
          THEN c.behind = 0 /\ c.mergeBase = c.base
          ELSE c.behind > 0 /\ c.mergeBase \notin {c.base, c.head}

-----------------------------------------------------------------------------
(***************************************************************************)
(* _analyze_evidence: which issues rest on evidence whose identity cannot  *)
(* be trusted, by the stage that would read it.                            *)
(***************************************************************************)
LinkedIssues(e, p) ==
  {l.issue : l \in {k \in e.links : k.pull = p}}
  \cap {x.number : x \in CurrentIssues(e)}

MisplacedIssues(e) == {x.number : x \in {y \in CurrentIssues(e) : ~y.url}}

Unlisted(e, l) == \A x \in Issues(e) : x.number # l.issue

BadLinks(e) == {l \in e.links : Unlisted(e, l) \/ ~l.url}

MisplacedPulls(e) ==
  {x.number : x \in {y \in PullItems(e) \cup e.pulls : ~y.url}}

OnlyComparison(e, c) == \A d \in e.comparisons : d.pull = c.pull => d = c

Identified(e, c) ==
  /\ c.identified
  /\ c.head = e.candidate
  /\ \E r \in e.pulls : r.number = c.pull
  /\ \A r \in e.pulls :
       r.number = c.pull /\ Alone(e.pulls, r) => c.base = r.merge

BadComparisons(e) ==
  {c \in e.comparisons :
     ~OnlyComparison(e, c) \/ ~Identified(e, c) \/ ~Coherent(c)}

BadLinkIssues(e) == {l.issue : l \in BadLinks(e)}
BadPullIssuesAll(e) ==
  {x.number : x \in {y \in CurrentIssues(e) : MisplacedPulls(e) # {}}}
BadPullIssues(e) == UNION {LinkedIssues(e, p) : p \in MisplacedPulls(e)}
BadComparisonIssues(e) ==
  UNION {LinkedIssues(e, c.pull) : c \in BadComparisons(e)}

ComparisonCode(e, c) ==
  Code(IF ~OnlyComparison(e, c) THEN "comparison.conflicting_records"
       ELSE IF ~Identified(e, c) THEN "comparison.invalid_identity"
       ELSE "comparison.invalid_matrix", {c.pull})

ScopeCodesNoComparison(e) ==
  CodesAt("issue.invalid_url", MisplacedIssues(e))
  \cup CodesAt("link.invalid", BadLinkIssues(e))
  \cup CodesAt("pull.invalid_url", MisplacedPulls(e))

ScopeCodes(e) ==
  CodesAt("issue.invalid_url", MisplacedIssues(e))
  \cup {Code("link.invalid_issue", {l.issue, l.pull}) :
          l \in {k \in e.links : Unlisted(e, k)}}
  \cup {Code("link.invalid_url", {l.issue, l.pull}) :
          l \in {k \in e.links : ~k.url}}
  \cup CodesAt("pull.invalid_url", MisplacedPulls(e))
  \cup {ComparisonCode(e, c) : c \in BadComparisons(e)}

-----------------------------------------------------------------------------
(***************************************************************************)
(* The issues: every trusted one must have one type, and those that are    *)
(* unambiguously code changes go through the stages.                       *)
(***************************************************************************)
ScopedIssues(e) ==
  {x \in CurrentIssues(e) : x.number \notin MisplacedIssues(e)}

OneType(x) == \E type \in {"code", "ops"} : x.labels \cap {"code", "ops"} = {type}

Typed(e, x) == Alone(CurrentIssues(e), x) /\ OneType(x)

CodeChanges(e) == {x \in ScopedIssues(e) : Typed(e, x) /\ "code" \in x.labels}

(***************************************************************************)
(* The stages, for the issue of number n: _linked_pull_numbers,            *)
(* _milestone_pulls, _main_merged_pulls, _is_in_candidate.                 *)
(***************************************************************************)
LinkedPulls(e, n) ==
  {l.pull : l \in {k \in e.links :
     /\ k.issue = n
     /\ k.url
     /\ \A j \in e.links : j.issue = n /\ j.pull = k.pull => j = k}}

ListedInMilestone(e, p) ==
  \E x \in PullItems(e) :
    /\ x.number = p
    /\ Alone(PullItems(e), x)
    /\ x.milestone = CurrentMilestone
    /\ x.url

MilestonePulls(e, n) ==
  {r \in e.pulls :
     /\ r.number \in LinkedPulls(e, n)
     /\ Alone(e.pulls, r)
     /\ r.milestone = CurrentMilestone
     /\ r.url
     /\ ListedInMilestone(e, r.number)}

MergedPullsAnyBase(e, n) ==
  {r \in MilestonePulls(e, n) :
     r.state = "closed" /\ r.merged /\ r.merge # None}

MergedPulls(e, n) ==
  {r \in MilestonePulls(e, n) :
     r.state = "closed" /\ r.base = Main /\ r.merged /\ r.merge # None}

InCandidateAnyStatus(e, r) ==
  \E c \in e.comparisons :
    /\ c.pull = r.number
    /\ OnlyComparison(e, c)
    /\ c.identified /\ c.base = r.merge /\ c.head = e.candidate
    /\ Coherent(c)

InCandidate(e, r) ==
  \E c \in e.comparisons :
    /\ c.pull = r.number
    /\ OnlyComparison(e, c)
    /\ c.identified /\ c.base = r.merge /\ c.head = e.candidate
    /\ Coherent(c)
    /\ c.status \in {"identical", "ahead"}

IncludedPulls(e, n) == {r \in MergedPulls(e, n) : InCandidate(e, r)}

(***************************************************************************)
(* An issue is left out of the stages that would read distrusted evidence. *)
(***************************************************************************)
LinkSafe(e) == {x.number : x \in CodeChanges(e)} \ BadLinkIssues(e)
PullSafe(e) == LinkSafe(e) \ BadPullIssues(e)
CandidateSafe(e) == PullSafe(e) \ BadComparisonIssues(e)

StuckAt(rule, numbers) == {Blocking(rule, {n}) : n \in numbers}

ScopeFindings(e) ==
  StuckAt("scope.exactly_one_type",
          {x.number : x \in {y \in ScopedIssues(e) : ~Typed(e, y)}})
  \cup StuckAt("scope.code_change_requires_pr",
               {n \in LinkSafe(e) : LinkedPulls(e, n) = {}})
  \cup StuckAt("scope.pr_requires_milestone",
               {n \in PullSafe(e) : /\ LinkedPulls(e, n) # {}
                                    /\ MilestonePulls(e, n) = {}})
  \cup StuckAt("scope.pr_requires_main_merge",
               {n \in PullSafe(e) : /\ MilestonePulls(e, n) # {}
                                    /\ MergedPulls(e, n) = {}})
  \cup StuckAt("scope.change_requires_candidate_inclusion",
               {n \in CandidateSafe(e) : /\ MergedPulls(e, n) # {}
                                         /\ IncludedPulls(e, n) = {}})

EvaluateScope(e) == [findings |-> ScopeFindings(e), codes |-> ScopeCodes(e)]
=============================================================================
