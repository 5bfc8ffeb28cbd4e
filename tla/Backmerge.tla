------------------------------ MODULE Backmerge ------------------------------
(***************************************************************************)
(* The back-merge rule: evaluate_backmerge of domain/rules/backmerge.py.   *)
(*                                                                         *)
(* A pull request that was merged into the previous release branch ships   *)
(* the previous-milestone issues it is linked to; each of them must have a *)
(* linked pull request that was merged into main.  Links connect the two   *)
(* pull requests, not commits.                                             *)
(*                                                                         *)
(* Evidence that cannot be trusted is put aside together with what hangs   *)
(* on it: where it might have held the missing issue or the missing pull   *)
(* request, the rule reports doubt instead of a blocker.                   *)
(***************************************************************************)
EXTENDS Evidence

(***************************************************************************)
(* _item_source_aliases, _pull_source_aliases, _link_source_aliases: one   *)
(* source id cannot belong to two coordinates.                             *)
(***************************************************************************)
Aliased(records) ==
  {x.number : x \in {y \in records :
     \E z \in records : z.source = y.source /\ z.number # y.number}}

Pair(l) == <<l.issue, l.pull>>

AliasedPairs(e) ==
  {Pair(l) : l \in {k \in e.links :
     \E j \in e.links : j.source = k.source /\ Pair(j) # Pair(k)}}

(***************************************************************************)
(* _analyze_pull_items and _analyze_pulls.  The milestone of a pull        *)
(* request's own record is irrelevant here: the milestone listing decides. *)
(***************************************************************************)
FitItems(e) == {x \in PullItems(e) : WellFormed(x)}

MergeIsCoherent(r) == r.merged => r.state = "closed" /\ r.merge # None

FitPulls(e) ==
  {[r EXCEPT !.milestone = None] :
     r \in {q \in e.pulls : WellFormed(q) /\ MergeIsCoherent(q)}}

UnfitItems(e) == {x.number : x \in PullItems(e) \ FitItems(e)}

UnfitPulls(e) ==
  {r.number : r \in {q \in e.pulls : ~WellFormed(q) \/ ~MergeIsCoherent(q)}}

TwiceIn(records) == {x.number : x \in {y \in records : ~Alone(records, y)}}

ItemsOf(e) == {x \in FitItems(e) : Alone(FitItems(e), x)}
PullsOf(e) == {r \in FitPulls(e) : Alone(FitPulls(e), r)}

Mismatched(e) ==
  {x.number : x \in {y \in ItemsOf(e) : \E r \in PullsOf(e) :
     r.number = y.number /\ (r.source # y.source \/ r.state # y.state)}}

DistrustedPullsSpread(e) ==
  {x.number : x \in {y \in e.items \cup e.pulls :
                       UnfitPulls(e) \cup Mismatched(e) # {}}}

DistrustedPulls(e) ==
  UnfitItems(e) \cup TwiceIn(FitItems(e))
  \cup UnfitPulls(e) \cup TwiceIn(FitPulls(e))
  \cup Aliased(e.items) \cup Aliased(e.pulls)
  \cup Mismatched(e)

(***************************************************************************)
(* The issues that count, and those that do not.                           *)
(***************************************************************************)
DistrustedIssues(e) ==
  Malformed(e) \cup Conflicting(e) \cup InvalidOwners(e) \cup InvalidBodies(e)
  \cup ({x.number : x \in ValidIssues(e)} \cap Aliased(e.items))

(***************************************************************************)
(* _analyze_links.  A link that is put aside makes both its ends uncertain.*)
(***************************************************************************)
ToValidIssue(e, l) == \E x \in ValidIssues(e) : x.number = l.issue

DistrustedPairs(e) ==
  AliasedPairs(e)
  \cup {Pair(l) : l \in {k \in e.links :
          ~WellFormed(k) \/ ~ToValidIssue(e, k)
          \/ \E j \in e.links : Pair(j) = Pair(k) /\ j # k}}

Links(e) == {l \in e.links : Pair(l) \notin DistrustedPairs(e)}

UncertainIssuesNone(e) == {}

UncertainIssues(e) ==
  {l.issue : l \in {k \in e.links : Pair(k) \in DistrustedPairs(e)}}

UncertainPullsNone(e) == {}

UncertainPulls(e) ==
  {l.pull : l \in {k \in e.links : Pair(k) \in DistrustedPairs(e)}}

-----------------------------------------------------------------------------
(***************************************************************************)
(* _evaluate: the pull requests of the previous release, and the issues    *)
(* they shipped.                                                           *)
(***************************************************************************)
MergedInto(r, branch) ==
  r.base = branch /\ r.state = "closed" /\ r.merged /\ r.merge # None

Recorded(e, p) == \E r \in PullsOf(e) : r.number = p

PreviousItems(e) ==
  {x \in ItemsOf(e) :
     x.milestone = PreviousMilestone /\ x.number \notin DistrustedPulls(e)}

BackmergeCandidates(e) ==
  {r \in PullsOf(e) :
     /\ MergedInto(r, PreviousBranch)
     /\ \E x \in PreviousItems(e) : x.number = r.number /\ x.state = "closed"}

IssuesOf(e, p) == {l.issue : l \in {k \in Links(e) : k.pull = p}}
PullsLinkedTo(e, n) == {l.pull : l \in {k \in Links(e) : k.issue = n}}

Shipped(e, p) ==
  {n \in IssuesOf(e, p) \ DistrustedIssues(e) :
     \E x \in ValidIssues(e) :
       x.number = n /\ x.milestone = PreviousMilestone}

ChainUncertain(e, p) ==
  \/ p \in UncertainPulls(e)
  \/ IssuesOf(e, p) \cap DistrustedIssues(e) # {}

TrustedPulls(e, n) ==
  {r \in PullsOf(e) :
     r.number \in PullsLinkedTo(e, n) \ DistrustedPulls(e)}

ReachedAnyBranch(e, n) ==
  \E r \in TrustedPulls(e, n) : MergedInto(r, r.base)

ReachedMain(e, n) == \E r \in TrustedPulls(e, n) : MergedInto(r, Main)

IssueUncertain(e, n) ==
  \/ n \in UncertainIssues(e)
  \/ \E p \in PullsLinkedTo(e, n) :
       p \in DistrustedPulls(e) \/ ~Recorded(e, p)

MissingMainOfAll(e, p) ==
  {n \in Shipped(e, p) : \A m \in Shipped(e, p) : ~ReachedMain(e, m)}

MissingMain(e, p) ==
  {n \in Shipped(e, p) : ~ReachedMain(e, n) /\ ~IssueUncertain(e, n)}

BackmergeRule == "backmerge.main_pr_required"

BackmergeFindings(e) ==
  {Blocking(BackmergeRule, {r.number}) :
     r \in {q \in BackmergeCandidates(e) :
              /\ Shipped(e, q.number) = {}
              /\ ~ChainUncertain(e, q.number)}}
  \cup UNION {{Blocking(BackmergeRule, {r.number, n}) :
                 n \in MissingMain(e, r.number)} : r \in BackmergeCandidates(e)}

BackmergeCodesOfIssues(e) ==
  IssueCodes(e)
  \cup CodesAt("issue.invalid_assignees", InvalidOwners(e))
  \cup CodesAt("issue.invalid_body", InvalidBodies(e))

BackmergeCodes(e) ==
  IssueCodes(e)
  \cup CodesAt("issue.invalid_assignees", InvalidOwners(e))
  \cup CodesAt("issue.invalid_body", InvalidBodies(e))
  \cup CodesAt("item.conflicting_source_id", Aliased(e.items))
  \cup CodesAt("pull.conflicting_source_id", Aliased(e.pulls))
  \cup {Code("link.invalid", {l.issue, l.pull}) :
          l \in {k \in e.links :
                   Pair(k) \in DistrustedPairs(e)
                   /\ (ToValidIssue(e, k) \/ ~WellFormed(k)
                       \/ \A x \in Issues(e) : x.number # k.issue)}}
  \cup CodesAt("pull_item.invalid", UnfitItems(e) \cup TwiceIn(FitItems(e)))
  \cup CodesAt("pull.invalid", UnfitPulls(e) \cup TwiceIn(FitPulls(e)))
  \cup CodesAt("pull.mismatch", Mismatched(e))
  \cup CodesAt("pull.missing_record",
         {x.number : x \in {y \in PreviousItems(e) : ~Recorded(e, y.number)}}
         \cup {p \in UNION {PullsLinkedTo(e, n) :
                              n \in UNION {Shipped(e, r.number) :
                                             r \in BackmergeCandidates(e)}} :
                 p \notin DistrustedPulls(e) /\ ~Recorded(e, p)})
  \cup CodesAt("pull_item.invalid_merge_state",
         {x.number : x \in {y \in PreviousItems(e) :
            y.state # "closed" /\ \E r \in PullsOf(e) :
              r.number = y.number /\ MergedInto(r, PreviousBranch)}})

EvaluateBackmerge(e) ==
  [findings |-> BackmergeFindings(e), codes |-> BackmergeCodes(e)]
=============================================================================
