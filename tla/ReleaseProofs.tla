---------------------------- MODULE ReleaseProofs ----------------------------
(***************************************************************************)
(* What the verdict on a release is worth: for any number of issues, pull  *)
(* requests and commits, and however many records of the evidence are      *)
(* wrong.                                                                  *)
(*                                                                         *)
(* A release that is called READY is in order on GitHub                    *)
(* (ReadyMeansInOrder).  The argument has three parts.  A READY verdict    *)
(* means that no rule reported a code, so no record was put aside, and     *)
(* that no rule reported a blocker (Clean).  What was collected stays      *)
(* faithful to GitHub in a weak sense that wrong records keep (Faithful):  *)
(* every record is there, or an ill-formed one of its number; and no       *)
(* record invents a link, a merge or a contained commit.  Faithful         *)
(* evidence that is clean shows each part of InOrder.                      *)
(*                                                                         *)
(* The other properties compare what is said of the evidence with what     *)
(* would have been said of the records as they were collected.  A second   *)
(* invariant, Kept, says how the two are related: the records that differ  *)
(* are of touched numbers (Traced), the verdict is on the evidence, and    *)
(* the commits have the order that comparisons rely on (Lineage).  On it   *)
(* rest NoFalseBlame, VerdictIsExact, QuarantineIsLocal and                *)
(* NothingWithheldSilently.                                                *)
(***************************************************************************)
EXTENDS Release, AssessmentProofs, FiniteSetTheorems

(***************************************************************************)
(* What the rules say of the evidence when the verdict is READY.           *)
(***************************************************************************)
CleanScope(e) == ScopeCodes(e) = {} /\ ScopeFindings(e) = {}

CleanBlockers(e) ==
  EvaluateBlockers(e).codes = {} /\ EvaluateBlockers(e).findings = {}

CleanOperations(e) == OperationsCodes(e) = {} /\ OperationsFindings(e) = {}

CleanBackmerge(e) == BackmergeCodes(e) = {} /\ BackmergeFindings(e) = {}

CleanChecks(e) ==
  /\ Usable(e.checks, e.candidate) = e.checks
  /\ \A c, d \in e.checks : c.run = d.run => c = d

Clean(e) ==
  /\ CleanScope(e)
  /\ CleanBlockers(e)
  /\ CleanOperations(e)
  /\ HasPrevious => CleanBackmerge(e)
  /\ CleanChecks(e)

(***************************************************************************)
(* The four rule families report blockers and nothing else.                *)
(***************************************************************************)
LEMMA OnlyBlockers ==
  ASSUME NEW e, NEW f,
         \/ f \in ScopeFindings(e) \/ f \in EvaluateBlockers(e).findings
         \/ f \in OperationsFindings(e) \/ f \in BackmergeFindings(e)
  PROVE  f.severity = "BLOCKING"
<1>1. CASE f \in ScopeFindings(e)
  <2>1. ASSUME NEW rule, NEW numbers, f \in StuckAt(rule, numbers)
        PROVE  f.severity = "BLOCKING"
    BY <2>1 DEF StuckAt, Blocking, Finding
  <2>. QED  BY <1>1, <2>1 DEF ScopeFindings
<1>2. CASE f \in EvaluateBlockers(e).findings
  BY <1>2 DEF EvaluateBlockers, Blocking, Finding
<1>3. CASE f \in OperationsFindings(e)
  BY <1>3 DEF OperationsFindings, Blocking, Finding
<1>4. CASE f \in BackmergeFindings(e)
  <2>1. CASE f \in {Blocking(BackmergeRule, {r.number}) :
                      r \in {q \in BackmergeCandidates(e) :
                               /\ Shipped(e, q.number) = {}
                               /\ ~ChainUncertain(e, q.number)}}
    BY <2>1 DEF Blocking, Finding
  <2>2. CASE f \in UNION {{Blocking(BackmergeRule, {r.number, n}) :
                             n \in MissingMain(e, r.number)} :
                          r \in BackmergeCandidates(e)}
    BY <2>2 DEF Blocking, Finding
  <2>. QED  BY <1>4, <2>1, <2>2 DEF BackmergeFindings
<1>. QED  BY <1>1, <1>2, <1>3, <1>4

(***************************************************************************)
(* A READY verdict: nothing was put aside and nothing blocks (assess).     *)
(***************************************************************************)
LEMMA ReadyMeansClean ==
  ASSUME NEW e, Verdict(e).status = "READY"
  PROVE  Clean(e)
<1> DEFINE s == Snapshot(e)
<1>1. FromGitHub(s) /\ s.checks = e.checks /\ s.candidate = e.candidate
  BY DEF Snapshot, FromGitHub
<1>2. Assess(s, CheckCategories, {}, 0).status = "READY"
  BY DEF Verdict
<1>3. EarnedBy(s, CheckCategories, {})
  BY <1>1, <1>2, ReadyMeansEarned
<1>4. EvidenceCodes(s.checks, s.candidate) = {}
  BY <1>1, <1>2, SufficientMeansClean
<1>5. CleanChecks(e)
  <2>1. Usable(s.checks, s.candidate) = s.checks
    BY <1>4, CleanMeansUsable
  <2>2. \A c \in s.checks : Single(s, c)
    BY <1>4, CleanMeansUsable
  <2>. QED  BY <1>1, <2>1, <2>2 DEF CleanChecks, Single
<1>6. /\ UNION {family.codes : family \in Families(e)} = {}
      /\ \A f \in UNION {family.findings : family \in Families(e)} :
           f.severity # "BLOCKING"
  BY <1>3 DEF EarnedBy, Snapshot
<1>7. \A family \in Families(e) :
        /\ family.codes = {}
        /\ \A f \in family.findings : f.severity # "BLOCKING"
  BY <1>6
<1>8. CleanScope(e)
  <2>1. EvaluateScope(e) \in Families(e)
    BY DEF Families
  <2>. QED  BY <1>7, <2>1, OnlyBlockers DEF CleanScope, EvaluateScope
<1>9. CleanBlockers(e)
  <2>1. EvaluateBlockers(e) \in Families(e)
    BY DEF Families
  <2>. QED  BY <1>7, <2>1, OnlyBlockers DEF CleanBlockers
<1>10. CleanOperations(e)
  <2>1. EvaluateOperations(e) \in Families(e)
    BY DEF Families
  <2>. QED  BY <1>7, <2>1, OnlyBlockers DEF CleanOperations, EvaluateOperations
<1>11. HasPrevious => CleanBackmerge(e)
  <2>1. HasPrevious => EvaluateBackmerge(e) \in Families(e)
    BY DEF Families
  <2>. QED  BY <1>7, <2>1, OnlyBlockers DEF CleanBackmerge, EvaluateBackmerge
<1>. QED  BY <1>5, <1>8, <1>9, <1>10, <1>11 DEF Clean

-----------------------------------------------------------------------------
(***************************************************************************)
(* The shape of the evidence.                                              *)
(***************************************************************************)
Numbers == IssueNumbers \cup PullNumbers

ItemRecords ==
  [number : Numbers, kind : {"issue", "pull"}, source : Numbers,
   url : BOOLEAN, sound : BOOLEAN, state : {"open", "closed"},
   milestone : MilestoneNames, labels : SUBSET Labels,
   owners : {"some", "none", "invalid"}, body : Bodies]

PullRecords ==
  [number : PullNumbers, source : Numbers, url : BOOLEAN, sound : BOOLEAN,
   state : {"open", "closed"}, milestone : MilestoneNames, base : Branches,
   merged : BOOLEAN, merge : CommitIds \cup {Trial, None}]

LinkRecords ==
  [issue : IssueNumbers, pull : PullNumbers,
   source : IssueNumbers \X PullNumbers, url : BOOLEAN, sound : BOOLEAN]

EvidenceOK(e) ==
  /\ DOMAIN e = {"items", "links", "pulls", "comparisons", "checks", "candidate"}
  /\ e.items \subseteq ItemRecords
  /\ e.pulls \subseteq PullRecords
  /\ e.links \subseteq LinkRecords

(***************************************************************************)
(* Evidence that no longer tells the truth but still cannot lie in favour  *)
(* of the release.                                                         *)
(***************************************************************************)
FaithfulItems(e) ==
  /\ \A x \in e.items :
       \/ x.kind = "issue" /\ x.number \in ListedIssues(Milestones)
       \/ x.kind = "pull" /\ x.number \in ListedPulls(Milestones)
  /\ \A n \in ListedIssues(Milestones) :
       \E x \in Issues(e) : x.number = n /\ (x = IssueItem(n) \/ ~WellFormed(x))
  /\ \A p \in ListedPulls(Milestones) :
       \E x \in PullItems(e) : x.number = p /\ (x = PullItem(p) \/ ~WellFormed(x))

FaithfulLinks(e) ==
  /\ \A l \in e.links : <<l.issue, l.pull>> \in links
  /\ \A k \in ReadLinks(Milestones) :
       \E l \in e.links : l.issue = k[1] /\ l.pull = k[2]

SamePull(r) ==
  LET q == PullRecord(r.number)
  IN  /\ r.state = q.state /\ r.milestone = q.milestone /\ r.base = q.base
      /\ r.merged = q.merged /\ r.merge = q.merge

FaithfulPulls(e) ==
  /\ \A r \in e.pulls : pulls[r.number] # Absent /\ SamePull(r)
  /\ \A p \in RelatedPulls(Milestones) : \E r \in e.pulls : r.number = p

FaithfulComparisons(e) ==
  \A c \in e.comparisons :
    /\ {"pull", "base", "head", "status", "listed"} \subseteq DOMAIN c
    /\ c.status = "identical" => c.base = c.head
    /\ c.status = "ahead" => c.base \in ancestry[c.head]

FaithfulChecks(e) ==
  LET head == tip[CandidateBranch]
  IN  /\ \A c \in e.checks : {"run", "conclusion"} \subseteq DOMAIN c /\ c.run = RunOf[head]
      /\ e.checks # {} => MigrationCheck(head) \in e.checks

Faithful(e) ==
  /\ e.candidate = tip[CandidateBranch]
  /\ FaithfulItems(e)
  /\ FaithfulLinks(e)
  /\ FaithfulPulls(e)
  /\ FaithfulComparisons(e)
  /\ FaithfulChecks(e)

-----------------------------------------------------------------------------
(***************************************************************************)
(* No code, no record put aside.                                           *)
(***************************************************************************)
LEMMA NoCodes ==
  ASSUME NEW code, NEW numbers, CodesAt(code, numbers) = {}
  PROVE  numbers = {}
BY DEF CodesAt

LEMMA NoFindings ==
  ASSUME NEW rule, NEW numbers, StuckAt(rule, numbers) = {}
  PROVE  numbers = {}
BY DEF StuckAt

(***************************************************************************)
(* With no code of the blocker rule every issue record is valid, and the   *)
(* only one of its number.                                                 *)
(***************************************************************************)
IssuesAreValid(e) ==
  /\ ValidIssues(e) = Issues(e)
  /\ \A x \in Issues(e) :
       WellFormed(x) /\ x.owners # "invalid" /\ x.body.readable /\ Alone(Issues(e), x)
  /\ Malformed(e) = {} /\ Conflicting(e) = {}
  /\ InvalidOwners(e) = {} /\ InvalidBodies(e) = {}

LEMMA IssuesValid ==
  ASSUME NEW e, EvidenceOK(e), EvaluateBlockers(e).codes = {}
  PROVE  IssuesAreValid(e)
<1>1. /\ IssueCodes(e) = {}
      /\ CodesAt("issue.invalid_assignees", InvalidOwners(e)) = {}
      /\ CodesAt("issue.invalid_body", InvalidBodies(e)) = {}
  BY DEF EvaluateBlockers
<1>2. /\ CodesAt("issue.invalid", Malformed(e)) = {}
      /\ CodesAt("issue.conflicting_records", Conflicting(e)) = {}
  BY <1>1 DEF IssueCodes
<1>3. /\ InvalidOwners(e) = {} /\ InvalidBodies(e) = {}
      /\ Malformed(e) = {} /\ Conflicting(e) = {}
  BY <1>1, <1>2, NoCodes
<1>4. Ambiguous(e) = {}
  BY <1>3 DEF Conflicting
<1>5. \A x \in Issues(e) : WellFormed(x)
  BY <1>3, <1>4 DEF Malformed
<1>6. ValidIssues(e) = {Safe(x) : x \in Issues(e)}
  BY <1>3 DEF ValidIssues
<1>7. \A x \in Issues(e) : Safe(x).number = x.number
  BY DEF EvidenceOK, Issues, Safe, ItemRecords
<1>8. \A x \in Issues(e) : x.number \in {y.number : y \in ValidIssues(e)}
  BY <1>6, <1>7
<1>9. \A x \in Issues(e) : x.owners # "invalid" /\ x.body.readable
  BY <1>3, <1>8 DEF InvalidOwners, InvalidBodies
<1>10. \A x \in Issues(e) : Safe(x) = x
  <2>. SUFFICES ASSUME NEW x \in Issues(e)
                PROVE  Safe(x) = x
    OBVIOUS
  <2>1. x \in ItemRecords
    BY DEF EvidenceOK, Issues
  <2>2. Safe(x) = [x EXCEPT !.owners = x.owners, !.body = x.body]
    BY <1>9 DEF Safe
  <2>. QED  BY <2>1, <2>2 DEF ItemRecords
<1>11. ValidIssues(e) = Issues(e)
  BY <1>6, <1>10
<1>12. \A x \in Issues(e) : Alone(Issues(e), x)
  <2>. SUFFICES ASSUME NEW x \in Issues(e), NEW y \in Issues(e), y.number = x.number
                PROVE  y = x
    BY DEF Alone
  <2>1. x.number \notin Conflicting(e)
    BY <1>3
  <2>2. Safe(y) = Safe(x)
    BY <1>3, <2>1 DEF Conflicting
  <2>. QED  BY <1>10, <2>2
<1>. QED  BY <1>3, <1>5, <1>9, <1>11, <1>12 DEF IssuesAreValid

(***************************************************************************)
(* Then the record of an issue is what GitHub holds.                       *)
(***************************************************************************)
LEMMA IssueIsRead ==
  ASSUME NEW e, IssuesAreValid(e), FaithfulItems(e),
         NEW n \in ListedIssues(Milestones)
  PROVE  /\ IssueItem(n) \in Issues(e)
         /\ \A x \in Issues(e) : x.number = n => x = IssueItem(n)
<1>1. PICK x \in Issues(e) : x.number = n /\ (x = IssueItem(n) \/ ~WellFormed(x))
  BY DEF FaithfulItems
<1>. QED  BY <1>1 DEF IssuesAreValid, Alone, IssueItem

-----------------------------------------------------------------------------
(***************************************************************************)
(* Without codes of the scope rules no issue is left out of a stage, and   *)
(* without findings each code change has a pull request through all of     *)
(* them (evaluate_scope).                                                  *)
(***************************************************************************)
LEMMA ScopeIsTrusted ==
  ASSUME NEW e, ScopeCodes(e) = {}
  PROVE  /\ MisplacedIssues(e) = {}
         /\ BadLinkIssues(e) = {} /\ BadPullIssues(e) = {}
         /\ BadComparisonIssues(e) = {}
<1>1. /\ CodesAt("issue.invalid_url", MisplacedIssues(e)) = {}
      /\ CodesAt("pull.invalid_url", MisplacedPulls(e)) = {}
  BY DEF ScopeCodes
<1>2. MisplacedIssues(e) = {} /\ MisplacedPulls(e) = {}
  BY <1>1, NoCodes
<1>3. BadLinks(e) = {}
  <2>1. {k \in e.links : Unlisted(e, k)} = {}
    BY DEF ScopeCodes
  <2>2. {k \in e.links : ~k.url} = {}
    BY DEF ScopeCodes
  <2>. QED  BY <2>1, <2>2 DEF BadLinks
<1>4. BadComparisons(e) = {}
  BY DEF ScopeCodes
<1>. QED  BY <1>2, <1>3, <1>4 DEF BadLinkIssues, BadPullIssues, BadComparisonIssues

LEMMA ScopeStages ==
  ASSUME NEW e, CleanScope(e), NEW x \in CurrentIssues(e)
  PROVE  /\ OneType(x)
         /\ "code" \in x.labels => IncludedPulls(e, x.number) # {}
<1>1. /\ MisplacedIssues(e) = {}
      /\ BadLinkIssues(e) = {} /\ BadPullIssues(e) = {}
      /\ BadComparisonIssues(e) = {}
  BY ScopeIsTrusted DEF CleanScope
<1>2. x \in ScopedIssues(e)
  BY <1>1 DEF ScopedIssues
<1>3. Typed(e, x)
  <2>1. StuckAt("scope.exactly_one_type",
                {y.number : y \in {z \in ScopedIssues(e) : ~Typed(e, z)}}) = {}
    BY DEF CleanScope, ScopeFindings
  <2>2. {y.number : y \in {z \in ScopedIssues(e) : ~Typed(e, z)}} = {}
    BY <2>1, NoFindings
  <2>. QED  BY <1>2, <2>2
<1>4. OneType(x)
  BY <1>3 DEF Typed
<1>5. ASSUME "code" \in x.labels
      PROVE  IncludedPulls(e, x.number) # {}
  <2> DEFINE n == x.number
  <2>1. n \in LinkSafe(e) /\ n \in PullSafe(e) /\ n \in CandidateSafe(e)
    BY <1>1, <1>2, <1>3, <1>5 DEF CodeChanges, LinkSafe, PullSafe, CandidateSafe
  <2>2. LinkedPulls(e, n) # {}
    <3>1. StuckAt("scope.code_change_requires_pr",
                  {m \in LinkSafe(e) : LinkedPulls(e, m) = {}}) = {}
      BY DEF CleanScope, ScopeFindings
    <3>. QED  BY <2>1, <3>1, NoFindings
  <2>3. MilestonePulls(e, n) # {}
    <3>1. StuckAt("scope.pr_requires_milestone",
                  {m \in PullSafe(e) : /\ LinkedPulls(e, m) # {}
                                       /\ MilestonePulls(e, m) = {}}) = {}
      BY DEF CleanScope, ScopeFindings
    <3>. QED  BY <2>1, <2>2, <3>1, NoFindings
  <2>4. MergedPulls(e, n) # {}
    <3>1. StuckAt("scope.pr_requires_main_merge",
                  {m \in PullSafe(e) : /\ MilestonePulls(e, m) # {}
                                       /\ MergedPulls(e, m) = {}}) = {}
      BY DEF CleanScope, ScopeFindings
    <3>. QED  BY <2>1, <2>3, <3>1, NoFindings
  <2>5. StuckAt("scope.change_requires_candidate_inclusion",
                {m \in CandidateSafe(e) : /\ MergedPulls(e, m) # {}
                                          /\ IncludedPulls(e, m) = {}}) = {}
    BY DEF CleanScope, ScopeFindings
  <2>. QED  BY <2>1, <2>4, <2>5, NoFindings
<1>. QED  BY <1>4, <1>5

(***************************************************************************)
(* A pull request that passes every stage in the evidence does so on       *)
(* GitHub, because no record invents a link, a merge or a commit.          *)
(***************************************************************************)
ContainsItself == \A c \in CommitIds \cup {Root} : Made(c) => c \in ancestry[c]

LEMMA IncludedIsDelivered ==
  ASSUME TypeOK, ContainsItself, NEW e, EvidenceOK(e), Faithful(e),
         NEW n, IncludedPulls(e, n) # {}
  PROVE  Delivered(n)
<1>1. PICK r \in e.pulls :
        /\ r.number \in LinkedPulls(e, n)
        /\ r.milestone = CurrentMilestone
        /\ r.state = "closed" /\ r.base = Main /\ r.merged
        /\ InCandidate(e, r)
  BY DEF IncludedPulls, MergedPulls, MilestonePulls
<1> DEFINE p == r.number
<1>2. p \in PullNumbers /\ pulls[p] # Absent /\ SamePull(r)
  BY DEF EvidenceOK, PullRecords, Faithful, FaithfulPulls
<1>3. <<n, p>> \in links
  BY <1>1 DEF LinkedPulls, Faithful, FaithfulLinks
<1>4. /\ pulls[p].state = "merged" /\ pulls[p].base = Main
      /\ pulls[p].milestone = CurrentMilestone /\ pulls[p].merge = r.merge
  BY <1>1, <1>2 DEF SamePull, PullRecord
<1>5. r.merge \in ancestry[tip[CandidateBranch]]
  <2>1. PICK c \in e.comparisons :
          /\ c.base = r.merge /\ c.head = e.candidate
          /\ c.status \in {"identical", "ahead"}
    BY <1>1 DEF InCandidate
  <2>2. e.candidate = tip[CandidateBranch]
    BY DEF Faithful
  <2>3. tip[CandidateBranch] \in ancestry[tip[CandidateBranch]]
    BY DEF ContainsItself, TypeOK, Branches
  <2>. QED  BY <2>1, <2>2, <2>3 DEF Faithful, FaithfulComparisons
<1>. QED  BY <1>2, <1>3, <1>4, <1>5 DEF Delivered, MergedTo

-----------------------------------------------------------------------------
(***************************************************************************)
(* Without findings of the blocker and operations rules an issue is no     *)
(* blocker and, when it is about operations, prepared.                     *)
(***************************************************************************)
LEMMA NoBlockerIsOpen ==
  ASSUME NEW e, CleanBlockers(e), IssuesAreValid(e), NEW x \in CurrentIssues(e)
  PROVE  "blocker" \notin x.labels
<1>1. x \in ValidIssues(e) /\ InCurrentRelease(x)
  BY DEF IssuesAreValid, CurrentIssues
<1>2. {y \in ValidIssues(e) : InCurrentRelease(y) /\ "blocker" \in y.labels} = {}
  BY DEF CleanBlockers, EvaluateBlockers
<1>. QED  BY <1>1, <1>2

(* A check that proves a migration is the one GitHub has of the candidate. *)
LEMMA ProofIsGenuine ==
  ASSUME NEW e, CleanChecks(e), FaithfulChecks(e), NEW c \in e.checks
  PROVE  c = MigrationCheck(tip[CandidateBranch])
BY DEF CleanChecks, FaithfulChecks, MigrationCheck

LEMMA MigrationIsProved ==
  ASSUME NEW e, CleanOperations(e), CleanChecks(e), FaithfulChecks(e),
         NEW x \in ReadableOperations(e)
  PROVE  MigrationProved(x.body.migration)
<1>. SUFFICES ASSUME x.body.migration.is = "check"
              PROVE  LET head == tip[CandidateBranch]
                     IN  /\ x.body.migration.run = RunOf[head]
                         /\ proof[head] = "success"
  BY DEF MigrationProved
<1>1. ~Undecided(e, x)
  BY DEF Undecided, CleanChecks
<1>2. Proved(e, x)
  <2>1. x \in Migrations(e, "check")
    BY DEF Migrations
  <2>2. UnprovedMigrations(e) = {}
    BY DEF CleanOperations, OperationsFindings
  <2>. QED  BY <1>1, <2>1, <2>2 DEF UnprovedMigrations
<1>3. PICK c \in e.checks : c.run = x.body.migration.run /\ Success(c)
  BY <1>2 DEF Proved, Usable
<1>4. c = MigrationCheck(tip[CandidateBranch])
  BY ProofIsGenuine
<1>. QED  BY <1>3, <1>4 DEF Success, MigrationCheck

LEMMA OperationsArePrepared ==
  ASSUME NEW e, EvidenceOK(e), CleanOperations(e), CleanChecks(e),
         FaithfulChecks(e), IssuesAreValid(e),
         NEW x \in CurrentIssues(e), "ops" \in x.labels
  PROVE  Prepared(x)
<1>1. x \in OperationsIssues(e) /\ x \in ReadableOperations(e)
  BY DEF IssuesAreValid, CurrentIssues, OperationsIssues, ReadableOperations
<1>2. x \in ItemRecords /\ x.body \in Bodies
  BY DEF EvidenceOK, CurrentIssues, Issues, ItemRecords
<1>3. x.owners = "some"
  <2>1. {y \in OperationsIssues(e) :
           y.owners = "none" /\ y.number \notin InvalidOwners(e)} = {}
    BY DEF CleanOperations, OperationsFindings
  <2>2. x.owners # "none"
    BY <1>1, <2>1 DEF IssuesAreValid
  <2>3. x.owners # "invalid"
    BY DEF IssuesAreValid, CurrentIssues
  <2>. QED  BY <1>2, <2>2, <2>3 DEF ItemRecords
<1>4. SectionTexts(x) \cap {"absent", "hollow", "conflict"} = {}
  <2>1. {y \in ReadableOperations(e) :
           SectionTexts(y) \cap {"absent", "hollow"} # {}} = {}
    BY DEF CleanOperations, OperationsFindings
  <2>2. CodesAt("operations.conflicting_fields",
          {y.number : y \in {z \in ReadableOperations(e) :
             \/ "conflict" \in SectionTexts(z)
             \/ z.body.migration.is = "conflict"}}) = {}
    BY DEF CleanOperations, OperationsCodes
  <2>3. "conflict" \notin SectionTexts(x)
    BY <1>1, <2>2, NoCodes
  <2>. QED  BY <1>1, <2>1, <2>3
<1>5. {x.body.before, x.body.during, x.body.after} = {"filled"}
  BY <1>2, <1>4 DEF SectionTexts, Bodies, Sections
<1>6. MigrationProved(x.body.migration)
  BY <1>1, MigrationIsProved
<1>. QED  BY <1>3, <1>5, <1>6 DEF Prepared

(***************************************************************************)
(* Every due issue of a READY release is in order.                         *)
(***************************************************************************)
LEMMA IssuesInOrder ==
  ASSUME TypeOK, ContainsItself, NEW e, EvidenceOK(e), Faithful(e), Clean(e),
         NEW n \in IssueNumbers, Due(n)
  PROVE  IssueInOrder(n)
<1> DEFINE x == IssueItem(n)
<1>1. IssuesAreValid(e)
  BY IssuesValid DEF Clean, CleanBlockers
<1>2. n \in ListedIssues(Milestones)
  BY DEF Due, ListedIssues, Milestones
<1>3. x \in CurrentIssues(e)
  <2>1. x \in Issues(e)
    BY <1>1, <1>2, IssueIsRead DEF Faithful
  <2>. QED  BY <2>1 DEF CurrentIssues, InCurrentRelease, IssueItem, Due
<1>4. /\ x.number = n /\ x.labels = issues[n].labels
      /\ x.owners = issues[n].owners /\ x.body = issues[n].body
  BY DEF IssueItem
<1>5. OneType(x) /\ ("code" \in x.labels => Delivered(n))
  BY <1>3, <1>4, ScopeStages, IncludedIsDelivered DEF Clean
<1>6. "blocker" \notin x.labels
  BY <1>1, <1>3, NoBlockerIsOpen DEF Clean
<1>7. "ops" \in x.labels => Prepared(x)
  BY <1>1, <1>3, OperationsArePrepared DEF Clean, Faithful
<1>8. Prepared(x) => Prepared(issues[n])
  BY <1>4 DEF Prepared
<1>9. \/ "code" \in x.labels /\ "ops" \notin x.labels
      \/ "ops" \in x.labels /\ "code" \notin x.labels
  BY <1>5 DEF OneType
<1>. QED  BY <1>4, <1>5, <1>6, <1>7, <1>8, <1>9 DEF IssueInOrder

-----------------------------------------------------------------------------
(***************************************************************************)
(* Without codes of the back-merge rule no issue, pull request or link is  *)
(* put aside.                                                              *)
(***************************************************************************)
Unmilestoned(r) == [r EXCEPT !.milestone = None]

NothingDistrusted(e) ==
  /\ ItemsOf(e) = PullItems(e)
  /\ \A r \in e.pulls : Unmilestoned(r) \in PullsOf(e)
  /\ \A q \in PullsOf(e) : \E r \in e.pulls : q = Unmilestoned(r)
  /\ DistrustedPulls(e) = {} /\ DistrustedIssues(e) = {} /\ DistrustedPairs(e) = {}

LEMMA BackmergeIsTrusted ==
  ASSUME NEW e, BackmergeCodes(e) = {}, IssuesAreValid(e)
  PROVE  NothingDistrusted(e)
<1>1. /\ CodesAt("item.conflicting_source_id", Aliased(e.items)) = {}
      /\ CodesAt("pull.conflicting_source_id", Aliased(e.pulls)) = {}
      /\ CodesAt("pull_item.invalid", UnfitItems(e) \cup TwiceIn(FitItems(e))) = {}
      /\ CodesAt("pull.invalid", UnfitPulls(e) \cup TwiceIn(FitPulls(e))) = {}
      /\ CodesAt("pull.mismatch", Mismatched(e)) = {}
  BY DEF BackmergeCodes
<1>2. /\ Aliased(e.items) = {} /\ Aliased(e.pulls) = {}
      /\ UnfitItems(e) \cup TwiceIn(FitItems(e)) = {}
      /\ UnfitPulls(e) \cup TwiceIn(FitPulls(e)) = {}
      /\ Mismatched(e) = {}
  BY <1>1, NoCodes
<1>3. DistrustedPulls(e) = {}
  BY <1>2 DEF DistrustedPulls
<1>4. DistrustedIssues(e) = {}
  BY <1>2 DEF DistrustedIssues, IssuesAreValid
<1>5. DistrustedPairs(e) = {}
  <2>1. \A k \in e.links :
          Pair(k) \in DistrustedPairs(e) =>
            ~ToValidIssue(e, k) /\ WellFormed(k) /\ \E x \in Issues(e) : x.number = k.issue
    <3>1. {k \in e.links :
             Pair(k) \in DistrustedPairs(e)
             /\ (ToValidIssue(e, k) \/ ~WellFormed(k)
                 \/ \A x \in Issues(e) : x.number # k.issue)} = {}
      BY DEF BackmergeCodes
    <3>. QED  BY <3>1
  <2>2. \A k \in e.links : (\E x \in Issues(e) : x.number = k.issue) => ToValidIssue(e, k)
    BY DEF ToValidIssue, IssuesAreValid
  <2>3. \A k \in e.links : Pair(k) \notin DistrustedPairs(e)
    BY <2>1, <2>2
  <2>4. \A d \in DistrustedPairs(e) : \E k \in e.links : d = Pair(k)
    BY DEF DistrustedPairs, AliasedPairs
  <2>. QED  BY <2>3, <2>4
<1>6. ItemsOf(e) = PullItems(e)
  <2>1. FitItems(e) = PullItems(e)
    BY <1>2 DEF UnfitItems, FitItems
  <2>. QED  BY <1>2, <2>1 DEF ItemsOf, TwiceIn
<1>7. PullsOf(e) = FitPulls(e)
  BY <1>2 DEF PullsOf, TwiceIn
<1>8. \A r \in e.pulls : WellFormed(r) /\ MergeIsCoherent(r)
  BY <1>2 DEF UnfitPulls
<1>9. FitPulls(e) = {Unmilestoned(r) : r \in e.pulls}
  BY <1>8 DEF FitPulls, Unmilestoned
<1>. QED  BY <1>3, <1>4, <1>5, <1>6, <1>7, <1>9 DEF NothingDistrusted

(***************************************************************************)
(* Then the rule reads the links and the merges that GitHub holds.         *)
(***************************************************************************)
LEMMA LinksAreRead ==
  ASSUME NEW e, NothingDistrusted(e), FaithfulLinks(e),
         NEW n, NEW p
  PROVE  /\ n \in IssuesOf(e, p) => <<n, p>> \in links
         /\ <<n, p>> \in ReadLinks(Milestones) =>
              n \in IssuesOf(e, p) /\ p \in PullsLinkedTo(e, n)
<1>1. Links(e) = e.links
  BY DEF Links, NothingDistrusted
<1>2. n \in IssuesOf(e, p) => <<n, p>> \in links
  BY <1>1 DEF IssuesOf, FaithfulLinks
<1>3. ASSUME <<n, p>> \in ReadLinks(Milestones)
      PROVE  n \in IssuesOf(e, p) /\ p \in PullsLinkedTo(e, n)
  <2>1. PICK l \in e.links : l.issue = n /\ l.pull = p
    BY <1>3 DEF FaithfulLinks
  <2>. QED  BY <1>1, <2>1 DEF IssuesOf, PullsLinkedTo
<1>. QED  BY <1>2, <1>3

LEMMA MergesAreRead ==
  ASSUME TypeOK, NEW e, EvidenceOK(e), NothingDistrusted(e), FaithfulPulls(e),
         NEW branch
  PROVE  /\ \A q \in PullsOf(e) : q.number \in PullNumbers
         /\ \A q \in PullsOf(e) :
              MergedInto(q, branch) => MergedTo(q.number, branch)
         /\ \A r \in e.pulls :
              MergedTo(r.number, branch) => MergedInto(Unmilestoned(r), branch)
         /\ \A r \in e.pulls : Unmilestoned(r).number = r.number
<1>1. \A r \in e.pulls :
        /\ Unmilestoned(r).number = r.number /\ Unmilestoned(r).base = r.base
        /\ Unmilestoned(r).state = r.state /\ Unmilestoned(r).merged = r.merged
        /\ Unmilestoned(r).merge = r.merge
  BY DEF Unmilestoned, EvidenceOK, PullRecords
<1>2. \A r \in e.pulls : r.number \in PullNumbers
  BY DEF EvidenceOK, PullRecords
<1>3. \A r \in e.pulls :
        /\ r.state = StateOf(r.number) /\ r.base = pulls[r.number].base
        /\ r.merged = (pulls[r.number].state = "merged")
        /\ r.merge = pulls[r.number].merge
        /\ pulls[r.number] # Absent
  BY DEF FaithfulPulls, SamePull, PullRecord
<1>4. \A r \in e.pulls : MergedInto(Unmilestoned(r), branch) => MergedTo(r.number, branch)
  BY <1>1, <1>3 DEF MergedInto, MergedTo
<1>5. \A r \in e.pulls : MergedTo(r.number, branch) => MergedInto(Unmilestoned(r), branch)
  <2>. SUFFICES ASSUME NEW r \in e.pulls, MergedTo(r.number, branch)
                PROVE  MergedInto(Unmilestoned(r), branch)
    OBVIOUS
  <2>1. r.merge \in CommitIds
    BY <1>2, <1>3 DEF MergedTo, TypeOK
  <2>2. r.merge # None
    BY <2>1, ReleaseAssumption
  <2>3. r.state = "closed"
    BY <1>3 DEF MergedTo, StateOf
  <2>. QED  BY <1>1, <1>3, <2>2, <2>3 DEF MergedInto, MergedTo
<1>. QED  BY <1>1, <1>2, <1>4, <1>5 DEF NothingDistrusted

(***************************************************************************)
(* A pull request that the previous release shipped is one the rule looks  *)
(* at, and the issues it shipped are those the rule finds.                 *)
(***************************************************************************)
ShippedPull(p) ==
  /\ pulls[p] # Absent
  /\ pulls[p].milestone = PreviousMilestone
  /\ MergedTo(p, PreviousBranch)

LEMMA ShippedIsCandidate ==
  ASSUME TypeOK, HasPrevious, NEW e, EvidenceOK(e), Faithful(e),
         NothingDistrusted(e), NEW p \in PullNumbers, ShippedPull(p)
  PROVE  \E q \in BackmergeCandidates(e) : q.number = p
<1>1. p \in ListedPulls(Milestones) /\ p \in RelatedPulls(Milestones)
  BY DEF ShippedPull, ListedPulls, RelatedPulls, Milestones
<1>2. PullItem(p) \in PreviousItems(e)
  <2>1. PICK x \in PullItems(e) : x.number = p /\ (x = PullItem(p) \/ ~WellFormed(x))
    BY <1>1 DEF Faithful, FaithfulItems
  <2>2. x \in ItemsOf(e) /\ WellFormed(x)
    BY DEF NothingDistrusted, ItemsOf, FitItems
  <2>3. x = PullItem(p) /\ x.milestone = PreviousMilestone
    BY <2>1, <2>2 DEF PullItem, ShippedPull
  <2>. QED  BY <2>1, <2>2, <2>3 DEF PreviousItems, NothingDistrusted
<1>3. PullItem(p).number = p /\ PullItem(p).state = "closed"
  BY DEF PullItem, StateOf, ShippedPull, MergedTo
<1>4. PICK r \in e.pulls : r.number = p
  BY <1>1 DEF Faithful, FaithfulPulls
<1>5. /\ Unmilestoned(r) \in PullsOf(e)
      /\ MergedInto(Unmilestoned(r), PreviousBranch)
      /\ Unmilestoned(r).number = p
  <2>1. FaithfulPulls(e)
    BY DEF Faithful
  <2>. QED  BY <1>4, <2>1, MergesAreRead DEF ShippedPull, NothingDistrusted
<1>. QED  BY <1>2, <1>3, <1>5 DEF BackmergeCandidates

LEMMA ShippedIsFound ==
  ASSUME TypeOK, HasPrevious, NEW e, Faithful(e),
         IssuesAreValid(e), NothingDistrusted(e), NEW p \in PullNumbers, NEW n
  PROVE  /\ n \in Shipped(e, p) => n \in IssueNumbers /\ ShippedBy(p, n)
         /\ n \in IssueNumbers /\ ShippedBy(p, n) => n \in Shipped(e, p)
<1>a. FaithfulItems(e) /\ FaithfulLinks(e)
  BY DEF Faithful
<1>1. ASSUME n \in Shipped(e, p)
      PROVE  n \in IssueNumbers /\ ShippedBy(p, n)
  <2>1. <<n, p>> \in links
    BY <1>1, <1>a, LinksAreRead DEF Shipped
  <2>2. PICK x \in Issues(e) : x.number = n /\ x.milestone = PreviousMilestone
    BY <1>1 DEF Shipped, IssuesAreValid
  <2>3. n \in ListedIssues(Milestones)
    BY <1>a, <2>2 DEF FaithfulItems, Issues
  <2>4. x = IssueItem(n)
    BY <1>a, <2>2, <2>3, IssueIsRead
  <2>. QED  BY <2>1, <2>2, <2>3, <2>4 DEF ShippedBy, IssueItem, ListedIssues
<1>2. ASSUME n \in IssueNumbers, ShippedBy(p, n)
      PROVE  n \in Shipped(e, p)
  <2>1. issues[n] # Absent
    BY <1>2 DEF ShippedBy, TypeOK
  <2>2. n \in ListedIssues(Milestones)
    BY <1>2, <2>1 DEF ShippedBy, ListedIssues, Milestones
  <2>3. <<n, p>> \in ReadLinks(Milestones)
    BY <1>2, <2>2 DEF ReadLinks, ShippedBy
  <2>4. n \in IssuesOf(e, p)
    BY <1>a, <2>3, LinksAreRead
  <2>5. IssueItem(n) \in ValidIssues(e)
    BY <1>a, <2>2, IssueIsRead DEF IssuesAreValid
  <2>6. IssueItem(n).number = n /\ IssueItem(n).milestone = PreviousMilestone
    BY <1>2 DEF IssueItem, ShippedBy
  <2>. QED  BY <2>4, <2>5, <2>6 DEF Shipped, NothingDistrusted
<1>. QED  BY <1>1, <1>2

(***************************************************************************)
(* The back-merge of a READY release is in order.                          *)
(***************************************************************************)
LEMMA BackmergeIsInOrder ==
  ASSUME TypeOK, HasPrevious, NEW e, EvidenceOK(e), Faithful(e), Clean(e)
  PROVE  BackmergeInOrder
<1>1. IssuesAreValid(e)
  BY IssuesValid DEF Clean, CleanBlockers
<1>2. BackmergeCodes(e) = {} /\ BackmergeFindings(e) = {}
  BY DEF Clean, CleanBackmerge
<1>3. NothingDistrusted(e)
  BY <1>1, <1>2, BackmergeIsTrusted
<1>. SUFFICES ASSUME NEW p \in PullNumbers, ShippedPull(p)
              PROVE  /\ \E n \in IssueNumbers : ShippedBy(p, n)
                     /\ \A n \in IssueNumbers : ShippedBy(p, n) => BackInMain(n)
  BY DEF BackmergeInOrder, ShippedPull
<1>4. PICK q \in BackmergeCandidates(e) : q.number = p
  BY <1>3, ShippedIsCandidate
<1>5. ~ChainUncertain(e, p)
  BY <1>3 DEF ChainUncertain, UncertainPulls, NothingDistrusted
<1>6. Shipped(e, p) # {} /\ MissingMain(e, p) = {}
  <2>1. {r \in BackmergeCandidates(e) :
           /\ Shipped(e, r.number) = {}
           /\ ~ChainUncertain(e, r.number)} = {}
    BY <1>2 DEF BackmergeFindings
  <2>2. ASSUME NEW r \in BackmergeCandidates(e), NEW n \in MissingMain(e, r.number)
        PROVE  FALSE
    <3> DEFINE blamed(k) == {Blocking(BackmergeRule, {k.number, m}) :
                               m \in MissingMain(e, k.number)}
               all == {blamed(k) : k \in BackmergeCandidates(e)}
    <3>1. blamed(r) # {}
      OBVIOUS
    <3>2. blamed(r) \in all
      OBVIOUS
    <3>3. UNION all = {}
      BY <1>2 DEF BackmergeFindings
    <3>. HIDE DEF blamed, all
    <3>. QED  BY <3>1, <3>2, <3>3
  <2>. QED  BY <1>4, <1>5, <2>1, <2>2
<1>7. \E n \in IssueNumbers : ShippedBy(p, n)
  <2>1. PICK n \in Shipped(e, p) : TRUE
    BY <1>6
  <2>. QED  BY <1>1, <1>3, <2>1, ShippedIsFound
<1>8. ASSUME NEW n \in IssueNumbers, ShippedBy(p, n)
      PROVE  BackInMain(n)
  <2>1. n \in Shipped(e, p)
    BY <1>1, <1>3, <1>8, ShippedIsFound
  <2>2. \A m \in PullsLinkedTo(e, n) : Recorded(e, m)
    <3>1. CodesAt("pull.missing_record",
            {x.number : x \in {y \in PreviousItems(e) : ~Recorded(e, y.number)}}
            \cup {m \in UNION {PullsLinkedTo(e, k) :
                                 k \in UNION {Shipped(e, r.number) :
                                                r \in BackmergeCandidates(e)}} :
                    m \notin DistrustedPulls(e) /\ ~Recorded(e, m)}) = {}
      BY <1>2 DEF BackmergeCodes
    <3>2. {m \in UNION {PullsLinkedTo(e, k) :
                          k \in UNION {Shipped(e, r.number) :
                                         r \in BackmergeCandidates(e)}} :
             m \notin DistrustedPulls(e) /\ ~Recorded(e, m)} = {}
      BY <3>1, NoCodes
    <3>3. n \in UNION {Shipped(e, r.number) : r \in BackmergeCandidates(e)}
      BY <1>4, <2>1
    <3>. QED  BY <1>3, <3>2, <3>3 DEF NothingDistrusted
  <2>3. ~IssueUncertain(e, n)
    BY <1>3, <2>2 DEF IssueUncertain, UncertainIssues, NothingDistrusted
  <2>4. PICK r \in TrustedPulls(e, n) : MergedInto(r, Main)
    BY <1>6, <2>1, <2>3 DEF MissingMain, ReachedMain
  <2>5. r \in PullsOf(e) /\ r.number \in PullsLinkedTo(e, n)
    BY DEF TrustedPulls
  <2>6. r.number \in PullNumbers /\ MergedTo(r.number, Main)
    BY <1>3, <2>4, <2>5, MergesAreRead DEF Faithful
  <2>7. <<n, r.number>> \in links
    <3>1. n \in IssuesOf(e, r.number)
      BY <2>5 DEF PullsLinkedTo, IssuesOf
    <3>. QED  BY <1>3, <3>1, LinksAreRead DEF Faithful
  <2>. QED  BY <2>6, <2>7 DEF BackInMain
<1>. QED  BY <1>7, <1>8

(***************************************************************************)
(* READY is true of GitHub.                                                *)
(***************************************************************************)
LEMMA ReadyIsInOrder ==
  ASSUME TypeOK, ContainsItself, NEW e, EvidenceOK(e), Faithful(e),
         Verdict(e).status = "READY"
  PROVE  InOrder
BY ReadyMeansClean, IssuesInOrder, BackmergeIsInOrder DEF InOrder

-----------------------------------------------------------------------------
(***************************************************************************)
(* What is collected is faithful to GitHub.                                *)
(***************************************************************************)
LEMMA WindowIsTyped ==
  ASSUME TypeOK
  PROVE  EvidenceOK(Window)
<1>1. \A n \in ListedIssues(Milestones) : IssueItem(n) \in ItemRecords
  <2>. SUFFICES ASSUME NEW n \in ListedIssues(Milestones)
                PROVE  IssueItem(n) \in ItemRecords
    OBVIOUS
  <2>1. n \in IssueNumbers /\ issues[n] \in IssueShapes
    BY DEF ListedIssues, TypeOK
  <2>2. /\ issues[n].milestone \in MilestoneNames /\ issues[n].state \in {"open", "closed"}
        /\ issues[n].labels \in SUBSET Labels
        /\ issues[n].owners \in {"some", "none", "invalid"} /\ issues[n].body \in Bodies
    BY <2>1, ReleaseAssumption
  <2>. QED  BY <2>1, <2>2 DEF IssueItem, ItemRecords, Numbers
<1>2. \A p \in PullNumbers : pulls[p] # Absent => pulls[p] \in Pulls
  BY DEF TypeOK
<1>3. \A p \in ListedPulls(Milestones) : PullItem(p) \in ItemRecords
  <2>1. Blank \in Bodies
    BY DEF Blank, Bodies, Sections
  <2>2. \A p : StateOf(p) \in {"open", "closed"}
    BY DEF StateOf
  <2>. QED  BY <1>2, <2>1, <2>2 DEF ListedPulls, PullItem, ItemRecords, Numbers, Pulls, Labels
<1>4. \A l \in ReadLinks(Milestones) :
        /\ l \in IssueNumbers \X PullNumbers
        /\ pulls[l[2]] # Absent /\ LinkRecord(l) \in LinkRecords
  BY DEF ReadLinks, TypeOK, LinkRecord, LinkRecords
<1>5. \A p \in RelatedPulls(Milestones) : PullRecord(p) \in PullRecords
  <2>. SUFFICES ASSUME NEW p \in RelatedPulls(Milestones)
                PROVE  PullRecord(p) \in PullRecords
    OBVIOUS
  <2>1. p \in PullNumbers /\ pulls[p] \in Pulls
    BY <1>2, <1>4 DEF RelatedPulls, ListedPulls
  <2>. QED  BY <2>1 DEF PullRecord, PullRecords, Pulls, Numbers, StateOf
<1>6. /\ Window.items = {IssueItem(n) : n \in ListedIssues(Milestones)}
                          \cup {PullItem(p) : p \in ListedPulls(Milestones)}
      /\ Window.links = {LinkRecord(l) : l \in ReadLinks(Milestones)}
      /\ Window.pulls = {PullRecord(p) : p \in RelatedPulls(Milestones)}
      /\ DOMAIN Window = {"items", "links", "pulls", "comparisons", "checks", "candidate"}
  BY DEF Window
<1>. QED  BY <1>1, <1>3, <1>4, <1>5, <1>6 DEF EvidenceOK

LEMMA WindowIsFaithful ==
  ASSUME TypeOK
  PROVE  Faithful(Window)
<1>1. /\ Window.items = {IssueItem(n) : n \in ListedIssues(Milestones)}
                          \cup {PullItem(p) : p \in ListedPulls(Milestones)}
      /\ Window.links = {LinkRecord(l) : l \in ReadLinks(Milestones)}
      /\ Window.pulls = {PullRecord(p) : p \in RelatedPulls(Milestones)}
      /\ Window.candidate = tip[CandidateBranch]
  BY DEF Window
<1>2. \A n : IssueItem(n).kind = "issue" /\ IssueItem(n).number = n
  BY DEF IssueItem
<1>3. \A p : PullItem(p).kind = "pull" /\ PullItem(p).number = p
  BY DEF PullItem
<1>4. FaithfulItems(Window)
  BY <1>1, <1>2, <1>3 DEF FaithfulItems, Issues, PullItems
<1>5. \A l \in ReadLinks(Milestones) :
        /\ l \in links /\ l = <<l[1], l[2]>>
        /\ LinkRecord(l).issue = l[1] /\ LinkRecord(l).pull = l[2]
  BY DEF ReadLinks, TypeOK, LinkRecord
<1>6. FaithfulLinks(Window)
  BY <1>1, <1>5 DEF FaithfulLinks
<1>7. FaithfulPulls(Window)
  <2>1. \A p : PullRecord(p).number = p
    BY DEF PullRecord
  <2>2. \A p \in RelatedPulls(Milestones) : pulls[p] # Absent
    BY DEF RelatedPulls, ListedPulls, ReadLinks, TypeOK
  <2>3. \A p : SamePull(PullRecord(p))
    BY <2>1 DEF SamePull
  <2>. QED  BY <1>1, <2>1, <2>2, <2>3 DEF FaithfulPulls
<1>8. FaithfulComparisons(Window)
  <2>. SUFFICES ASSUME NEW c \in Window.comparisons
                PROVE  /\ {"pull", "base", "head", "status", "listed"} \subseteq DOMAIN c
                       /\ c.status = "identical" => c.base = c.head
                       /\ c.status = "ahead" => c.base \in ancestry[c.head]
    BY DEF FaithfulComparisons
  <2>1. \E p, base, head : c = Comparison(p, base, head)
    BY DEF Window
  <2>. QED  BY <2>1 DEF Comparison
<1>9. FaithfulChecks(Window)
  BY DEF Window, FaithfulChecks, MigrationCheck
<1>. QED  BY <1>1, <1>4, <1>6, <1>7, <1>8, <1>9 DEF Faithful

(***************************************************************************)
(* A wrong record leaves it so.                                            *)
(***************************************************************************)
Sane(e) == EvidenceOK(e) /\ Faithful(e)

LEMMA ListedTwice ==
  ASSUME NEW e, Sane(e), NEW x \in e.items, NEW y \in ItemRecords,
         y.number = x.number, y.kind = x.kind
  PROVE  Sane([e EXCEPT !.items = @ \cup {y}])
<1> DEFINE d == [e EXCEPT !.items = @ \cup {y}]
<1>1. /\ d.items = e.items \cup {y} /\ d.links = e.links /\ d.pulls = e.pulls
      /\ d.comparisons = e.comparisons /\ d.checks = e.checks
      /\ d.candidate = e.candidate /\ DOMAIN d = DOMAIN e
  BY DEF Sane, EvidenceOK
<1>. HIDE DEF d
<1>2. EvidenceOK(d)
  BY <1>1 DEF Sane, EvidenceOK
<1>3. FaithfulItems(d)
  BY <1>1 DEF Sane, Faithful, FaithfulItems, Issues, PullItems
<1>4. FaithfulLinks(d) /\ FaithfulPulls(d) /\ FaithfulComparisons(d) /\ FaithfulChecks(d)
  BY <1>1 DEF Sane, Faithful, FaithfulLinks, FaithfulPulls, FaithfulComparisons,
              FaithfulChecks
<1>5. Sane(d)
  BY <1>1, <1>2, <1>3, <1>4 DEF Sane, Faithful
<1>. QED  BY <1>5 DEF d

LEMMA ItemSpoiled ==
  ASSUME NEW e, Sane(e), NEW x \in e.items, NEW y \in ItemRecords,
         y.number = x.number, y.kind = x.kind, ~WellFormed(y)
  PROVE  Sane([e EXCEPT !.items = Instead(@, x, y)])
<1> DEFINE d == [e EXCEPT !.items = Instead(@, x, y)]
<1>1. /\ d.items = (e.items \ {x}) \cup {y} /\ d.links = e.links /\ d.pulls = e.pulls
      /\ d.comparisons = e.comparisons /\ d.checks = e.checks
      /\ d.candidate = e.candidate /\ DOMAIN d = DOMAIN e
  BY DEF Sane, EvidenceOK, Instead
<1>. HIDE DEF d
<1>2. EvidenceOK(d)
  BY <1>1 DEF Sane, EvidenceOK
<1>3. FaithfulItems(d)
  <2>1. FaithfulItems(e)
    BY DEF Sane, Faithful
  <2>2. \A z \in d.items :
          \/ z.kind = "issue" /\ z.number \in ListedIssues(Milestones)
          \/ z.kind = "pull" /\ z.number \in ListedPulls(Milestones)
    BY <1>1, <2>1 DEF FaithfulItems
  <2>3. \A n \in ListedIssues(Milestones) :
          \E z \in Issues(d) : z.number = n /\ (z = IssueItem(n) \/ ~WellFormed(z))
    BY <1>1, <2>1 DEF FaithfulItems, Issues
  <2>4. \A p \in ListedPulls(Milestones) :
          \E z \in PullItems(d) : z.number = p /\ (z = PullItem(p) \/ ~WellFormed(z))
    BY <1>1, <2>1 DEF FaithfulItems, PullItems
  <2>. QED  BY <2>2, <2>3, <2>4 DEF FaithfulItems
<1>4. FaithfulLinks(d) /\ FaithfulPulls(d) /\ FaithfulComparisons(d) /\ FaithfulChecks(d)
  BY <1>1 DEF Sane, Faithful, FaithfulLinks, FaithfulPulls, FaithfulComparisons,
              FaithfulChecks
<1>5. Sane(d)
  BY <1>1, <1>2, <1>3, <1>4 DEF Sane, Faithful
<1>. QED  BY <1>5 DEF d

LEMMA PullSpoiled ==
  ASSUME NEW e, Sane(e), NEW r \in e.pulls, NEW y \in PullRecords,
         y.number = r.number, y.state = r.state, y.milestone = r.milestone,
         y.base = r.base, y.merged = r.merged, y.merge = r.merge
  PROVE  Sane([e EXCEPT !.pulls = Instead(@, r, y)])
<1> DEFINE d == [e EXCEPT !.pulls = Instead(@, r, y)]
<1>1. /\ d.pulls = (e.pulls \ {r}) \cup {y} /\ d.links = e.links /\ d.items = e.items
      /\ d.comparisons = e.comparisons /\ d.checks = e.checks
      /\ d.candidate = e.candidate /\ DOMAIN d = DOMAIN e
  BY DEF Sane, EvidenceOK, Instead
<1>. HIDE DEF d
<1>2. EvidenceOK(d)
  BY <1>1 DEF Sane, EvidenceOK
<1>3. FaithfulPulls(d)
  <2>1. FaithfulPulls(e)
    BY DEF Sane, Faithful
  <2>2. SamePull(r) => SamePull(y)
    BY DEF SamePull
  <2>3. \A q \in d.pulls : pulls[q.number] # Absent /\ SamePull(q)
    BY <1>1, <2>1, <2>2 DEF FaithfulPulls
  <2>. QED  BY <1>1, <2>1, <2>3 DEF FaithfulPulls
<1>4. FaithfulItems(d) /\ FaithfulLinks(d) /\ FaithfulComparisons(d) /\ FaithfulChecks(d)
  BY <1>1 DEF Sane, Faithful, FaithfulItems, FaithfulLinks, FaithfulComparisons,
              FaithfulChecks, Issues, PullItems
<1>5. Sane(d)
  BY <1>1, <1>2, <1>3, <1>4 DEF Sane, Faithful
<1>. QED  BY <1>5 DEF d

LEMMA LinkSpoiled ==
  ASSUME NEW e, Sane(e), NEW l \in e.links, NEW y \in LinkRecords,
         y.issue = l.issue, y.pull = l.pull
  PROVE  Sane([e EXCEPT !.links = Instead(@, l, y)])
<1> DEFINE d == [e EXCEPT !.links = Instead(@, l, y)]
<1>1. /\ d.links = (e.links \ {l}) \cup {y} /\ d.pulls = e.pulls /\ d.items = e.items
      /\ d.comparisons = e.comparisons /\ d.checks = e.checks
      /\ d.candidate = e.candidate /\ DOMAIN d = DOMAIN e
  BY DEF Sane, EvidenceOK, Instead
<1>. HIDE DEF d
<1>2. EvidenceOK(d)
  BY <1>1 DEF Sane, EvidenceOK
<1>3. FaithfulLinks(d)
  BY <1>1 DEF Sane, Faithful, FaithfulLinks
<1>4. FaithfulItems(d) /\ FaithfulPulls(d) /\ FaithfulComparisons(d) /\ FaithfulChecks(d)
  BY <1>1 DEF Sane, Faithful, FaithfulItems, FaithfulPulls, FaithfulComparisons,
              FaithfulChecks, Issues, PullItems
<1>5. Sane(d)
  BY <1>1, <1>2, <1>3, <1>4 DEF Sane, Faithful
<1>. QED  BY <1>5 DEF d

LEMMA ComparisonTruncated ==
  ASSUME NEW e, Sane(e), NEW c \in e.comparisons
  PROVE  Sane([e EXCEPT !.comparisons = Instead(@, c, [c EXCEPT !.listed = 0])])
<1> DEFINE y == [c EXCEPT !.listed = 0]
           d == [e EXCEPT !.comparisons = Instead(@, c, y)]
<1>1. /\ d.comparisons = (e.comparisons \ {c}) \cup {y} /\ d.pulls = e.pulls
      /\ d.items = e.items /\ d.links = e.links /\ d.checks = e.checks
      /\ d.candidate = e.candidate /\ DOMAIN d = DOMAIN e
  BY DEF Sane, EvidenceOK, Instead
<1>2. FaithfulComparisons(e)
  BY DEF Sane, Faithful
<1>3. /\ DOMAIN y = DOMAIN c
      /\ y.base = c.base /\ y.head = c.head /\ y.status = c.status
  BY <1>2 DEF FaithfulComparisons
<1>. HIDE DEF d, y
<1>4. EvidenceOK(d)
  BY <1>1 DEF Sane, EvidenceOK
<1>5. FaithfulComparisons(d)
  BY <1>1, <1>2, <1>3 DEF FaithfulComparisons
<1>6. FaithfulItems(d) /\ FaithfulPulls(d) /\ FaithfulLinks(d) /\ FaithfulChecks(d)
  BY <1>1 DEF Sane, Faithful, FaithfulItems, FaithfulPulls, FaithfulLinks,
              FaithfulChecks, Issues, PullItems
<1>7. Sane(d)
  BY <1>1, <1>4, <1>5, <1>6 DEF Sane, Faithful
<1>. QED  BY <1>7 DEF d, y

LEMMA CheckListedTwice ==
  ASSUME NEW e, Sane(e), NEW c \in e.checks, NEW conclusion
  PROVE  Sane([e EXCEPT !.checks = @ \cup {[c EXCEPT !.conclusion = conclusion]}])
<1> DEFINE y == [c EXCEPT !.conclusion = conclusion]
           d == [e EXCEPT !.checks = @ \cup {y}]
<1>1. /\ d.checks = e.checks \cup {y} /\ d.pulls = e.pulls
      /\ d.items = e.items /\ d.links = e.links /\ d.comparisons = e.comparisons
      /\ d.candidate = e.candidate /\ DOMAIN d = DOMAIN e
  BY DEF Sane, EvidenceOK
<1>2. FaithfulChecks(e)
  BY DEF Sane, Faithful
<1>3. DOMAIN y = DOMAIN c /\ y.run = c.run
  BY <1>2 DEF FaithfulChecks
<1>. HIDE DEF d, y
<1>4. EvidenceOK(d)
  BY <1>1 DEF Sane, EvidenceOK
<1>5. FaithfulChecks(d)
  BY <1>1, <1>2, <1>3 DEF FaithfulChecks
<1>6. FaithfulItems(d) /\ FaithfulPulls(d) /\ FaithfulLinks(d) /\ FaithfulComparisons(d)
  BY <1>1 DEF Sane, Faithful, FaithfulItems, FaithfulPulls, FaithfulLinks,
              FaithfulComparisons, Issues, PullItems
<1>7. Sane(d)
  BY <1>1, <1>4, <1>5, <1>6 DEF Sane, Faithful
<1>. QED  BY <1>7 DEF d, y

-----------------------------------------------------------------------------
(***************************************************************************)
(* The inductive invariant.                                                *)
(***************************************************************************)
IInv ==
  /\ TypeOK
  /\ ContainsItself
  /\ phase # "assessed" => verdict = Unjudged
  /\ phase # "working" => Sane(evidence)
  /\ ReadyMeansInOrder

(* While GitHub stands still, what is said of it stays true.               *)
LEMMA GitHubStands ==
  ASSUME UNCHANGED github
  PROVE  /\ \A d : evidence' = d /\ Sane(d) => Sane(evidence)'
         /\ InOrder => InOrder'
         /\ ContainsItself => ContainsItself'
<1>. USE DEF github
<1>1. ASSUME NEW d, evidence' = d, Sane(d)
      PROVE  Sane(evidence)'
  <2>1. EvidenceOK(evidence)'
    BY <1>1 DEF Sane, EvidenceOK
  <2>2. FaithfulItems(evidence)'
    BY <1>1 DEF Sane, Faithful, FaithfulItems, Issues, PullItems, ListedIssues,
                ListedPulls, IssueItem, PullItem, StateOf
  <2>3. FaithfulLinks(evidence)'
    BY <1>1 DEF Sane, Faithful, FaithfulLinks, ReadLinks, ListedIssues
  <2>4. FaithfulPulls(evidence)'
    BY <1>1 DEF Sane, Faithful, FaithfulPulls, SamePull, PullRecord, StateOf,
                RelatedPulls, ListedPulls, ReadLinks, ListedIssues
  <2>5. FaithfulComparisons(evidence)' /\ FaithfulChecks(evidence)'
    BY <1>1 DEF Sane, Faithful, FaithfulComparisons, FaithfulChecks, MigrationCheck
  <2>6. evidence'.candidate = tip[CandidateBranch]'
    BY <1>1 DEF Sane, Faithful
  <2>. QED  BY <2>1, <2>2, <2>3, <2>4, <2>5, <2>6 DEF Sane, Faithful
<1>2. InOrder => InOrder'
  BY DEF InOrder, Due, IssueInOrder, Delivered, MergedTo, Prepared, MigrationProved,
         BackmergeInOrder, ShippedBy, BackInMain
<1>3. ContainsItself => ContainsItself'
  BY DEF ContainsItself, Made
<1>. QED  BY <1>1, <1>2, <1>3

LEMMA Initially == Init => IInv
<1>. SUFFICES ASSUME Init
              PROVE  IInv
  OBVIOUS
<1>1. TypeOK
  BY ReleaseAssumption DEF Init, TypeOK, Nothing, Unjudged, ReleaseStatus, Made, AllCommits,
     Branches, Absent
<1>2. ContainsItself
  BY ReleaseAssumption DEF Init, ContainsItself, Made, Root, Trial, AllCommits
<1>. QED  BY <1>1, <1>2 DEF Init, IInv, ReadyMeansInOrder, Unjudged

(***************************************************************************)
(* People work while nothing is collected.                                 *)
(***************************************************************************)
LEMMA CommitMade ==
  ASSUME TypeOK, ContainsItself, NEW branch \in Branches, Commit(branch)
  PROVE  /\ NewCommit \in CommitIds /\ NewCommit \notin {Root, Trial, None}
         /\ ancestry' \in [AllCommits -> SUBSET AllCommits]
         /\ tip' \in [Branches -> CommitIds \cup {Root}]
         /\ \A b \in Branches : Made(tip[b])'
         /\ ContainsItself'
<1>1. NewCommit \in Unmade
  BY DEF Commit, NewCommit
<1>2. NewCommit \in CommitIds /\ NewCommit \notin {Root, Trial, None}
  BY <1>1, ReleaseAssumption DEF Unmade
<1>. HIDE DEF NewCommit
<1>3. ancestry' = [ancestry EXCEPT ![NewCommit] = ancestry[tip[branch]] \cup {NewCommit}]
  BY DEF Commit
<1>4. tip' = [tip EXCEPT ![branch] = NewCommit]
  BY DEF Commit
<1>5. ancestry' \in [AllCommits -> SUBSET AllCommits]
  BY <1>2, <1>3 DEF TypeOK, AllCommits
<1>6. tip' \in [Branches -> CommitIds \cup {Root}]
  BY <1>2, <1>4 DEF TypeOK
<1>7. \A c \in AllCommits : Made(c) => Made(c)'
  BY <1>2, <1>3 DEF TypeOK, Made, AllCommits
<1>8. ancestry'[NewCommit] # {}
  BY <1>2, <1>3 DEF TypeOK, AllCommits
<1>9. \A b \in Branches : Made(tip[b])'
  <2>. SUFFICES ASSUME NEW b \in Branches
                PROVE  ancestry'[tip'[b]] # {}
    BY DEF Made
  <2>1. CASE b = branch
    BY <1>4, <1>8, <2>1 DEF TypeOK
  <2>2. CASE b # branch
    <3>1. tip'[b] = tip[b] /\ tip[b] \in AllCommits /\ Made(tip[b])
      BY <1>4, <2>2 DEF TypeOK, AllCommits
    <3>. QED  BY <1>7, <3>1 DEF Made
  <2>. QED  BY <2>1, <2>2
<1>10. ContainsItself'
  BY <1>2, <1>3 DEF ContainsItself, Made, TypeOK, AllCommits
<1>. QED  BY <1>2, <1>5, <1>6, <1>9, <1>10

LEMMA PeopleStep ==
  ASSUME IInv, People
  PROVE  IInv'
<1>1. phase = "working" /\ UNCHANGED analysis
  BY DEF People, EditIssue, OpenPull, ClosePull, Link, Merge, Patch, Cut, RunMigration, Working
<1>2. verdict' = Unjudged /\ phase' = "working"
  BY <1>1 DEF IInv, analysis
<1>3. /\ \A l \in evidence.links :
           /\ \E x \in evidence.items : x.number = l.issue
           /\ \E r \in evidence.pulls : r.number = l.pull
      /\ faults \in 0..MaxFaults
      /\ phase \in {"working", "collected", "assessed"}
      /\ verdict.status \in ReleaseStatus \cup {"none"}
  BY DEF IInv, TypeOK
<1>4. TypeOK' /\ ContainsItself'
  <2>. USE <1>1, <1>3 DEF analysis
  <2>0. TypeOK /\ ContainsItself
    BY DEF IInv
  <2>1. ASSUME NEW n \in IssueNumbers, NEW shape \in IssueShapes, EditIssue(n, shape)
        PROVE  TypeOK' /\ ContainsItself'
    <3>1. shape # Absent
      BY ReleaseAssumption DEF Absent
    <3>. QED  BY <2>0, <2>1, <3>1 DEF EditIssue, TypeOK, ContainsItself, Made
  <2>2. ASSUME NEW p \in PullNumbers, NEW shape \in PullShapes, OpenPull(p, shape)
        PROVE  TypeOK' /\ ContainsItself'
    <3> DEFINE opened == [state |-> "open", milestone |-> shape.milestone,
                          base |-> shape.base, merge |-> shape.merge]
    <3>1. opened \in Pulls /\ opened # Absent /\ opened.state # "merged"
          /\ opened.merge \notin CommitIds
      BY ReleaseAssumption DEF Pulls, PullStates, Absent
    <3>2. pulls' = [pulls EXCEPT ![p] = opened]
      BY <2>2 DEF OpenPull
    <3>. HIDE DEF opened
    <3>. QED  BY <2>0, <2>2, <3>1, <3>2 DEF OpenPull, TypeOK, ContainsItself, Made
  <2>3. ASSUME NEW p \in PullNumbers, ClosePull(p)
        PROVE  TypeOK' /\ ContainsItself'
    <3> DEFINE closed == [pulls[p] EXCEPT !.state = "closed"]
    <3>1. pulls[p] \in Pulls /\ pulls[p].merge \notin CommitIds
      BY <2>0, <2>3 DEF ClosePull, TypeOK
    <3>2. closed \in Pulls /\ closed # Absent /\ closed.state # "merged"
          /\ closed.merge \notin CommitIds
      BY <3>1 DEF Pulls, PullStates, Absent
    <3>3. pulls' = [pulls EXCEPT ![p] = closed]
      BY <2>3 DEF ClosePull
    <3>. HIDE DEF closed
    <3>. QED  BY <2>0, <2>3, <3>2, <3>3 DEF ClosePull, TypeOK, ContainsItself, Made
  <2>4. ASSUME NEW n \in IssueNumbers, NEW p \in PullNumbers, Link(n, p)
        PROVE  TypeOK' /\ ContainsItself'
    BY <2>0, <2>4 DEF Link, TypeOK, ContainsItself, Made
  <2>5. ASSUME NEW p \in PullNumbers, Merge(p)
        PROVE  TypeOK' /\ ContainsItself'
    <3> DEFINE merged == [pulls[p] EXCEPT !.state = "merged", !.merge = NewCommit]
    <3>1. pulls[p] \in Pulls /\ pulls[p].base \in Branches
      BY <2>0, <2>5 DEF Merge, TypeOK, Pulls
    <3>2. /\ NewCommit \in CommitIds
          /\ ancestry' \in [AllCommits -> SUBSET AllCommits]
          /\ tip' \in [Branches -> CommitIds \cup {Root}]
          /\ \A b \in Branches : Made(tip[b])'
          /\ ContainsItself'
      BY <2>0, <2>5, <3>1, CommitMade DEF Merge
    <3>. HIDE DEF NewCommit
    <3>3. merged \in Pulls /\ merged # Absent /\ merged.state = "merged"
          /\ merged.merge \in CommitIds
      BY <3>1, <3>2 DEF Pulls, PullStates, Absent
    <3>4. pulls' = [pulls EXCEPT ![p] = merged]
      BY <2>0, <2>5, <3>1 DEF Merge, TypeOK, Pulls
    <3>. HIDE DEF merged
    <3>5. UNCHANGED <<issues, links, proof>>
      BY <2>5 DEF Merge
    <3>. QED  BY <2>0, <3>2, <3>3, <3>4, <3>5 DEF TypeOK
  <2>6. ASSUME Patch
        PROVE  TypeOK' /\ ContainsItself'
    <3>1. /\ ancestry' \in [AllCommits -> SUBSET AllCommits]
          /\ tip' \in [Branches -> CommitIds \cup {Root}]
          /\ \A b \in Branches : Made(tip[b])'
          /\ ContainsItself'
      BY <2>0, <2>6, CommitMade DEF Patch, Branches
    <3>2. UNCHANGED <<issues, pulls, links, proof>>
      BY <2>6 DEF Patch
    <3>. QED  BY <2>0, <3>1, <3>2 DEF TypeOK
  <2>7. ASSUME Cut
        PROVE  TypeOK' /\ ContainsItself'
    <3>1. tip' \in [Branches -> CommitIds \cup {Root}]
      BY <2>0, <2>7 DEF Cut, TypeOK, Branches
    <3>2. \A b \in Branches : Made(tip[b])'
      BY <2>0, <2>7 DEF Cut, TypeOK, Branches, Made
    <3>3. ContainsItself'
      BY <2>0, <2>7 DEF Cut, ContainsItself, Made
    <3>. QED  BY <2>0, <2>7, <3>1, <3>2, <3>3 DEF Cut, TypeOK
  <2>8. ASSUME NEW conclusion \in Outcomes, RunMigration(conclusion)
        PROVE  TypeOK' /\ ContainsItself'
    BY <2>0, <2>8 DEF RunMigration, TypeOK, ContainsItself, Made
  <2>. QED  BY <2>1, <2>2, <2>3, <2>4, <2>5, <2>6, <2>7, <2>8 DEF People
<1>. QED  BY <1>2, <1>4 DEF IInv, ReadyMeansInOrder, Unjudged

(***************************************************************************)
(* Collecting: the evidence is faithful (_collect_window).                 *)
(***************************************************************************)
LEMMA CollectStep ==
  ASSUME IInv, Collect
  PROVE  IInv'
<1>. USE DEF IInv
<1>1. evidence' = Window /\ phase' = "collected" /\ UNCHANGED <<github, faults, verdict>>
  BY DEF Collect
<1>2. verdict = Unjudged
  BY DEF Collect, Working
<1>3. Sane(Window)
  BY WindowIsTyped, WindowIsFaithful DEF Sane
<1>4. Sane(evidence)' /\ ContainsItself'
  BY <1>1, <1>3, GitHubStands
<1>5. \A l \in Window.links :
        /\ \E x \in Window.items : x.number = l.issue
        /\ \E r \in Window.pulls : r.number = l.pull
  <2>. SUFFICES ASSUME NEW k \in ReadLinks(Milestones)
                PROVE  /\ \E x \in Window.items : x.number = k[1]
                       /\ \E r \in Window.pulls : r.number = k[2]
    BY DEF Window, LinkRecord
  <2>1. IssueItem(k[1]) \in Window.items /\ IssueItem(k[1]).number = k[1]
    BY DEF ReadLinks, Window, IssueItem
  <2>2. PullRecord(k[2]) \in Window.pulls /\ PullRecord(k[2]).number = k[2]
    BY DEF RelatedPulls, Window, PullRecord
  <2>. QED  BY <2>1, <2>2
<1>6. TypeOK'
  BY <1>1, <1>5 DEF TypeOK, github, Made
<1>. QED  BY <1>1, <1>2, <1>4, <1>6 DEF ReadyMeansInOrder, Unjudged

(***************************************************************************)
(* A wrong record leaves the evidence faithful.                            *)
(***************************************************************************)
Anchored(e) ==
  \A l \in e.links :
    /\ \E x \in e.items : x.number = l.issue
    /\ \E r \in e.pulls : r.number = l.pull

LEMMA CorruptStep ==
  ASSUME IInv, NEW e, NEW numbers, Corrupt(e, numbers), Sane(e), Anchored(e)
  PROVE  IInv'
<1>. USE DEF IInv
<1>1. /\ evidence' = e /\ faults' = faults + 1 /\ faults < MaxFaults
      /\ phase = "collected" /\ UNCHANGED <<github, phase, verdict>>
  BY DEF Corrupt
<1>2. Sane(evidence)' /\ ContainsItself'
  BY <1>1, GitHubStands
<1>3. faults' \in 0..MaxFaults
  BY <1>1, ReleaseAssumption DEF TypeOK
<1>4. TypeOK'
  BY <1>1, <1>3 DEF TypeOK, Anchored, github, Made
<1>. QED  BY <1>1, <1>2, <1>4 DEF ReadyMeansInOrder, Unjudged

LEMMA FaultsStep ==
  ASSUME IInv, Faults
  PROVE  IInv'
<1>1. phase = "collected"
  BY DEF Faults, ListTwice, SpoilItem, SpoilPull, SpoilLink, Truncate, ListCheckTwice, Corrupt
<1>2. Sane(evidence)
  BY <1>1 DEF IInv
<1>3. Anchored(evidence)
  BY DEF IInv, TypeOK, Anchored
<1>4. /\ evidence.items \subseteq ItemRecords /\ evidence.pulls \subseteq PullRecords
      /\ evidence.links \subseteq LinkRecords
      /\ DOMAIN evidence = {"items", "links", "pulls", "comparisons", "checks", "candidate"}
  BY <1>2 DEF Sane, EvidenceOK
<1>5. ASSUME NEW x \in evidence.items, ListTwice(x)
      PROVE  IInv'
  <2>1. PICK y \in {[x EXCEPT !.state = "open"], [x EXCEPT !.state = "closed"],
                    [x EXCEPT !.milestone = CurrentMilestone],
                    [x EXCEPT !.milestone = PreviousMilestone],
                    [x EXCEPT !.labels = {}]} :
          Corrupt([evidence EXCEPT !.items = @ \cup {y}], {x.number})
    BY <1>5 DEF ListTwice
  <2>2. y \in ItemRecords /\ y.number = x.number /\ y.kind = x.kind
    BY <1>4, <2>1 DEF ItemRecords, MilestoneNames, Labels
  <2>3. Sane([evidence EXCEPT !.items = @ \cup {y}])
    BY <1>2, <2>2, ListedTwice
  <2>4. Anchored([evidence EXCEPT !.items = @ \cup {y}])
    BY <1>3, <1>4 DEF Anchored
  <2>. QED  BY <2>1, <2>3, <2>4, CorruptStep
<1>6. ASSUME NEW x \in evidence.items, SpoilItem(x)
      PROVE  IInv'
  <2>1. PICK y \in {[x EXCEPT !.url = FALSE], [x EXCEPT !.sound = FALSE]} :
          Corrupt([evidence EXCEPT !.items = Instead(@, x, y)], {x.number})
    BY <1>6 DEF SpoilItem
  <2>2. y \in ItemRecords /\ y.number = x.number /\ y.kind = x.kind /\ ~WellFormed(y)
    BY <1>4, <2>1 DEF ItemRecords, WellFormed
  <2>3. Sane([evidence EXCEPT !.items = Instead(@, x, y)])
    BY <1>2, <2>2, ItemSpoiled
  <2>4. Anchored([evidence EXCEPT !.items = Instead(@, x, y)])
    BY <1>3, <1>4, <2>2 DEF Anchored, Instead
  <2>. QED  BY <2>1, <2>3, <2>4, CorruptStep
<1>7. ASSUME NEW r \in evidence.pulls, SpoilPull(r)
      PROVE  IInv'
  <2>1. PICK y \in {[r EXCEPT !.url = FALSE], [r EXCEPT !.sound = FALSE]}
                     \cup {[r EXCEPT !.source = p] : p \in PullNumbers} :
          Corrupt([evidence EXCEPT !.pulls = Instead(@, r, y)],
                  {r.number} \cup ({y.source} \cap PullNumbers))
    BY <1>7 DEF SpoilPull
  <2>2. /\ y \in PullRecords /\ y.number = r.number /\ y.state = r.state
        /\ y.milestone = r.milestone /\ y.base = r.base /\ y.merged = r.merged
        /\ y.merge = r.merge
    BY <1>4, <2>1 DEF PullRecords, Numbers
  <2>3. Sane([evidence EXCEPT !.pulls = Instead(@, r, y)])
    BY <1>2, <2>2, PullSpoiled
  <2>4. Anchored([evidence EXCEPT !.pulls = Instead(@, r, y)])
    BY <1>3, <1>4, <2>2 DEF Anchored, Instead
  <2>. QED  BY <2>1, <2>3, <2>4, CorruptStep
<1>8. ASSUME NEW l \in evidence.links, SpoilLink(l)
      PROVE  IInv'
  <2>1. PICK y \in {[l EXCEPT !.url = FALSE], [l EXCEPT !.sound = FALSE]} :
          Corrupt([evidence EXCEPT !.links = Instead(@, l, y)], {l.issue, l.pull})
    BY <1>8 DEF SpoilLink
  <2>2. y \in LinkRecords /\ y.issue = l.issue /\ y.pull = l.pull
    BY <1>4, <2>1 DEF LinkRecords
  <2>3. Sane([evidence EXCEPT !.links = Instead(@, l, y)])
    BY <1>2, <2>2, LinkSpoiled
  <2>4. Anchored([evidence EXCEPT !.links = Instead(@, l, y)])
    BY <1>3, <1>4, <2>2 DEF Anchored, Instead
  <2>. QED  BY <2>1, <2>3, <2>4, CorruptStep
<1>9. ASSUME NEW c \in evidence.comparisons, Truncate(c)
      PROVE  IInv'
  <2>1. Sane([evidence EXCEPT !.comparisons = Instead(@, c, [c EXCEPT !.listed = 0])])
    BY <1>2, ComparisonTruncated
  <2>2. Anchored([evidence EXCEPT !.comparisons = Instead(@, c, [c EXCEPT !.listed = 0])])
    BY <1>3, <1>4 DEF Anchored
  <2>. QED  BY <1>9, <2>1, <2>2, CorruptStep DEF Truncate
<1>10. ASSUME NEW c \in evidence.checks, ListCheckTwice(c)
       PROVE  IInv'
  <2>1. PICK conclusion \in Outcomes :
          Corrupt([evidence EXCEPT !.checks =
                     @ \cup {[c EXCEPT !.conclusion = conclusion]}],
                  {x.number : x \in {y \in evidence.items :
                                       y.body.migration.run = c.run}})
    BY <1>10 DEF ListCheckTwice
  <2>2. Sane([evidence EXCEPT !.checks = @ \cup {[c EXCEPT !.conclusion = conclusion]}])
    BY <1>2, CheckListedTwice
  <2>3. Anchored([evidence EXCEPT !.checks = @ \cup {[c EXCEPT !.conclusion = conclusion]}])
    BY <1>3, <1>4 DEF Anchored
  <2>. QED  BY <2>1, <2>2, <2>3, CorruptStep
<1>. QED  BY <1>5, <1>6, <1>7, <1>8, <1>9, <1>10 DEF Faults

(***************************************************************************)
(* The verdict (assess) and the return to work.                            *)
(***************************************************************************)
LEMMA JudgeStep ==
  ASSUME IInv, JudgeEvidence
  PROVE  IInv'
<1>. USE DEF IInv
<1>1. /\ phase = "collected" /\ phase' = "assessed"
      /\ verdict' = Verdict(evidence) /\ UNCHANGED <<github, evidence, faults>>
  BY DEF JudgeEvidence
<1>2. Sane(evidence)' /\ ContainsItself'
  BY <1>1, GitHubStands
<1>3. verdict'.status \in ReleaseStatus
  <2>1. FromGitHub(Snapshot(evidence))
    BY DEF Snapshot, FromGitHub
  <2>. QED  BY <1>1, <2>1, AssessUnfolded, StatusIsReleaseStatus DEF Verdict
<1>4. TypeOK'
  BY <1>1, <1>3 DEF TypeOK, github, Made
<1>5. ReadyMeansInOrder'
  <2>1. verdict'.status = "READY" => InOrder
    BY <1>1, ReadyIsInOrder DEF Sane
  <2>. QED  BY <1>1, <2>1, GitHubStands DEF ReadyMeansInOrder
<1>. QED  BY <1>1, <1>2, <1>4, <1>5

LEMMA ResumeStep ==
  ASSUME IInv, Resume
  PROVE  IInv'
<1>. USE DEF IInv
<1>1. /\ phase' = "working" /\ evidence' = Nothing /\ faults' = 0
      /\ verdict' = Unjudged /\ UNCHANGED github
  BY DEF Resume
<1>2. ContainsItself'
  BY <1>1, GitHubStands
<1>3. TypeOK'
  BY <1>1, ReleaseAssumption DEF TypeOK, github, Made, Nothing, Unjudged
<1>. QED  BY <1>1, <1>2, <1>3 DEF ReadyMeansInOrder, Unjudged

LEMMA Stutter ==
  ASSUME IInv, UNCHANGED vars
  PROVE  IInv'
<1>. USE DEF IInv
<1>1. UNCHANGED github /\ UNCHANGED analysis
  BY DEF vars
<1>2. (phase # "working" => Sane(evidence)) => (phase # "working" => Sane(evidence))'
  BY <1>1, GitHubStands DEF analysis
<1>3. ContainsItself' /\ TypeOK'
  BY <1>1, GitHubStands DEF TypeOK, github, analysis, Made
<1>4. ReadyMeansInOrder'
  BY <1>1, GitHubStands DEF ReadyMeansInOrder, analysis
<1>. QED  BY <1>1, <1>2, <1>3, <1>4 DEF analysis

(***************************************************************************)
(* In every reachable state the evidence is faithful to GitHub, however    *)
(* many of its records are wrong, and a READY verdict speaks the truth.    *)
(***************************************************************************)
THEOREM Invariance == Spec => []IInv
<1>1. Init => IInv
  BY Initially
<1>2. IInv /\ [Next]_vars => IInv'
  BY PeopleStep, CollectStep, FaultsStep, JudgeStep, ResumeStep, Stutter DEF Next
<1>. QED  BY <1>1, <1>2, PTL DEF Spec

(***************************************************************************)
(* The state always has its shape: what is collected about a link always   *)
(* comes with its issue and its pull request (_collect_window).            *)
(***************************************************************************)
THEOREM TypeCorrect == Spec => []TypeOK
<1>1. IInv => TypeOK
  BY DEF IInv
<1>. QED  BY <1>1, Invariance, PTL

(***************************************************************************)
(* A release the application calls READY is in order on GitHub, whatever   *)
(* the size of the release and however many records were wrong.            *)
(***************************************************************************)
THEOREM ReadyMeansInOrderHolds == Spec => []ReadyMeansInOrder
<1>1. IInv => ReadyMeansInOrder
  BY DEF IInv
<1>. QED  BY <1>1, Invariance, PTL
-----------------------------------------------------------------------------
(***************************************************************************)
(* What is said of evidence that is not clean.  The findings of a verdict  *)
(* other than its doubts are those of the four families, because the       *)
(* migration check is not classified as blocking; its codes are those of   *)
(* the families and of the check records.                                  *)
(***************************************************************************)
Said(e) == Snapshot(e).rest

(* What is said is what the four families say.                             *)
LEMMA SaidUnfolded ==
  ASSUME NEW e, NEW f
  PROVE  f \in Said(e) <=>
           \/ f \in ScopeFindings(e)
           \/ f \in EvaluateBlockers(e).findings
           \/ f \in OperationsFindings(e)
           \/ HasPrevious /\ f \in BackmergeFindings(e)
<1>1. /\ EvaluateScope(e).findings = ScopeFindings(e)
      /\ EvaluateOperations(e).findings = OperationsFindings(e)
      /\ EvaluateBackmerge(e).findings = BackmergeFindings(e)
  BY DEF EvaluateScope, EvaluateOperations, EvaluateBackmerge
<1>2. Said(e) = UNION {family.findings : family \in Families(e)}
  BY DEF Said, Snapshot
<1>3. f \in Said(e) <=> \E family \in Families(e) : f \in family.findings
  BY <1>2
<1>. QED  BY <1>1, <1>3 DEF Families

(* Nothing is doubted when no family doubts anything.                      *)
LEMMA CodesUnfolded ==
  ASSUME NEW e
  PROVE  Snapshot(e).restCodes = {} <=>
           /\ ScopeCodes(e) = {}
           /\ EvaluateBlockers(e).codes = {}
           /\ OperationsCodes(e) = {}
           /\ HasPrevious => BackmergeCodes(e) = {}
<1>1. /\ EvaluateScope(e).codes = ScopeCodes(e)
      /\ EvaluateOperations(e).codes = OperationsCodes(e)
      /\ EvaluateBackmerge(e).codes = BackmergeCodes(e)
  BY DEF EvaluateScope, EvaluateOperations, EvaluateBackmerge
<1>2. Snapshot(e).restCodes = UNION {family.codes : family \in Families(e)}
  BY DEF Snapshot
<1>3. Snapshot(e).restCodes = {} <=> \A family \in Families(e) : family.codes = {}
  BY <1>2
<1>. QED  BY <1>1, <1>3 DEF Families

(* The check rule blocks on no check that is not classified.               *)
LEMMA ChecksSayNothing ==
  ASSUME NEW e, \A c \in e.checks : c.name = "migrate"
  PROVE  /\ CheckFindings(e.checks, e.candidate, CheckCategories, {}) = {}
         /\ DecisionCodes(e.checks, e.candidate, CheckCategories, {}) = {}
<1>1. \A c \in e.checks, category \in {"BLOCKING", "ADVISORY"} :
        ~Classified(CheckCategories, c, category)
  BY DEF Classified, CheckCategories
<1>2. Usable(e.checks, e.candidate) \subseteq e.checks
  BY DEF Usable
<1>3. /\ Failing(e.checks, e.candidate, CheckCategories, "BLOCKING") = {}
      /\ Failing(e.checks, e.candidate, CheckCategories, "ADVISORY") = {}
  BY <1>1, <1>2 DEF Failing
<1>4. MissingNames(e.checks, e.candidate, CheckCategories) = {}
  BY DEF MissingNames, CheckCategories
<1>5. \A c \in e.checks : c.name \in DOMAIN CheckCategories
  BY DEF CheckCategories
<1>. QED  BY <1>2, <1>3, <1>4, <1>5 DEF CheckFindings, DecisionCodes

(* The blockers of a verdict are what the families say.                    *)
LEMMA VerdictSays ==
  ASSUME NEW e, \A c \in e.checks : c.name = "migrate"
  PROVE  Business(Verdict(e).findings) = Said(e)
<1> DEFINE s == Snapshot(e)
           doubts == InsufficiencyFindings(AllCodes(s, CheckCategories, {}, 0))
<1>1. FromGitHub(s) /\ s.checks = e.checks /\ s.candidate = e.candidate
  BY DEF Snapshot, FromGitHub
<1>2. Verdict(e).findings = AllFindings(s, CheckCategories, {}) \cup doubts
  BY <1>1, AssessUnfolded DEF Verdict
<1>3. CheckRule(s, CheckCategories, {}).findings = {}
  BY <1>1, ChecksSayNothing DEF CheckRule, EvaluateChecks
<1>4. AllFindings(s, CheckCategories, {}) = Said(e)
  BY <1>3 DEF AllFindings, Said
<1>5. \A f \in doubts : f.severity = "INSUFFICIENT_DATA"
  BY DEF InsufficiencyFindings, Finding
<1>6. \A f \in Said(e) : f.severity = "BLOCKING"
  BY SaidUnfolded, OnlyBlockers
<1>. HIDE DEF s, doubts
<1>. QED  BY <1>2, <1>4, <1>5, <1>6 DEF Business

(* Without a code the verdict is READY or NOT_READY.                       *)
LEMMA VerdictSettles ==
  ASSUME NEW e, \A c \in e.checks : c.name = "migrate", e.candidate # NoSha,
         Snapshot(e).restCodes = {}, EvidenceCodes(e.checks, e.candidate) = {}
  PROVE  Verdict(e).status = IF Said(e) = {} THEN "READY" ELSE "NOT_READY"
<1> DEFINE s == Snapshot(e)
<1>1. /\ FromGitHub(s) /\ s.checks = e.checks /\ s.candidate = e.candidate
      /\ s.version = "github_v1" /\ s.complete /\ s.errors = {} /\ s.identity
      /\ s.matchesPolicy /\ s.started = 0 /\ s.fetched = 0
  BY DEF Snapshot, FromGitHub
<1>2. SnapshotCodes(s, 0) = {} /\ CheckPrerequisites(s) = {}
  <2>1. ~(0 - 0 > MaxAge) /\ NoTime # 0
    BY MaxAgeAssumption DEF NoTime
  <2>. QED  BY <1>1, <2>1 DEF SnapshotCodes, CheckPrerequisites, TimeCodes, If
<1>3. AllCodes(s, CheckCategories, {}, 0) = {}
  BY <1>1, <1>2, ChecksSayNothing DEF AllCodes, CheckRule, EvaluateChecks
<1>4. AllFindings(s, CheckCategories, {}) = Said(e)
  BY <1>1, <1>2, ChecksSayNothing DEF AllFindings, CheckRule, EvaluateChecks, Said
<1>5. Verdict(e).status = StatusOf({}, Said(e))
  BY <1>1, <1>3, <1>4, AssessUnfolded DEF Verdict
<1>6. \A f \in Said(e) : f.severity = "BLOCKING"
  BY SaidUnfolded, OnlyBlockers
<1>. QED  BY <1>5, <1>6 DEF StatusOf

-----------------------------------------------------------------------------
(***************************************************************************)
(* What wrong records leave traceable: evidence e was collected as w, and  *)
(* the records that differ are of the numbers t.  No wrong record changes  *)
(* the source of an item or a link, or the name of a check.                *)
(***************************************************************************)
Differing(a, b) == (a \ b) \cup (b \ a)

Traced(e, w, t) ==
  /\ e.candidate = w.candidate
  /\ \A x \in Differing(e.items, w.items) : x.number \in t
  /\ \A r \in Differing(e.pulls, w.pulls) : r.number \in t /\ r.source \in t
  /\ \A l \in Differing(e.links, w.links) : l.issue \in t /\ l.pull \in t
  /\ \A c \in Differing(e.comparisons, w.comparisons) : c.pull \in t
  /\ e.checks # w.checks =>
       \A x \in w.items, c \in e.checks :
         x.body.migration.run = c.run => x.number \in t
  /\ \A x \in e.items : x.source = x.number
  /\ \A l \in e.links : l.source = Pair(l)
  /\ \A r \in w.pulls : r.source = r.number
  /\ w.checks \subseteq e.checks /\ (w.checks = {} => e.checks = {})
  /\ \A c \in e.checks : "name" \in DOMAIN c /\ c.name = "migrate"

(* What is collected is traced to itself.                                  *)
LEMMA WindowIsTraced ==
  ASSUME TypeOK, NEW t
  PROVE  Traced(Window, Window, t)
<1>1. /\ Window.items = {IssueItem(n) : n \in ListedIssues(Milestones)}
                          \cup {PullItem(p) : p \in ListedPulls(Milestones)}
      /\ Window.links = {LinkRecord(l) : l \in ReadLinks(Milestones)}
      /\ Window.pulls = {PullRecord(p) : p \in RelatedPulls(Milestones)}
  BY DEF Window
<1>2. \A s : Differing(s, s) = {}
  BY DEF Differing
<1>3. \A x \in Window.items : x.source = x.number
  BY <1>1 DEF IssueItem, PullItem
<1>4. \A l \in Window.links : l.source = Pair(l)
  BY <1>1 DEF LinkRecord, ReadLinks, TypeOK, Pair
<1>5. \A r \in Window.pulls : r.source = r.number
  BY <1>1 DEF PullRecord
<1>6. \A c \in Window.checks : "name" \in DOMAIN c /\ c.name = "migrate"
  BY DEF Window, MigrationCheck
<1>. QED  BY <1>2, <1>3, <1>4, <1>5, <1>6 DEF Traced

(* An item listed twice, or spoiled, is of a touched number.               *)
LEMMA TracedItems ==
  ASSUME NEW e, NEW w, NEW t, Traced(e, w, t), EvidenceOK(e),
         NEW x \in e.items, NEW y \in ItemRecords,
         y.number = x.number, y.source = x.source,
         NEW records \in {e.items \cup {y}, (e.items \ {x}) \cup {y}}
  PROVE  Traced([e EXCEPT !.items = records], w, t \cup {x.number})
<1> DEFINE d == [e EXCEPT !.items = records]
<1>1. /\ d.items = records /\ d.links = e.links /\ d.pulls = e.pulls
      /\ d.comparisons = e.comparisons /\ d.checks = e.checks
      /\ d.candidate = e.candidate
  BY DEF EvidenceOK
<1>. HIDE DEF d
<1>2. \A z \in Differing(d.items, w.items) : z.number \in t \cup {x.number}
  BY <1>1 DEF Traced, Differing
<1>3. \A z \in d.items : z.source = z.number
  BY <1>1 DEF Traced
<1>4. Traced(d, w, t \cup {x.number})
  BY <1>1, <1>2, <1>3 DEF Traced
<1>. QED  BY <1>4 DEF d

(* So is a spoiled pull request, and so is the source it claims.           *)
LEMMA TracedPulls ==
  ASSUME NEW e, NEW w, NEW t, Traced(e, w, t), EvidenceOK(e),
         NEW r \in e.pulls, NEW y, y.number = r.number,
         y.source = r.source \/ y.source \in PullNumbers
  PROVE  Traced([e EXCEPT !.pulls = (e.pulls \ {r}) \cup {y}], w,
                t \cup ({r.number} \cup ({y.source} \cap PullNumbers)))
<1> DEFINE d == [e EXCEPT !.pulls = (e.pulls \ {r}) \cup {y}]
           u == t \cup ({r.number} \cup ({y.source} \cap PullNumbers))
<1>1. /\ d.pulls = (e.pulls \ {r}) \cup {y} /\ d.links = e.links /\ d.items = e.items
      /\ d.comparisons = e.comparisons /\ d.checks = e.checks
      /\ d.candidate = e.candidate
  BY DEF EvidenceOK
<1>2. r.number \in u /\ t \subseteq u
  OBVIOUS
<1>3. r.source \in u
  <2>1. CASE r \in w.pulls
    BY <1>2, <2>1 DEF Traced
  <2>2. CASE r \notin w.pulls
    BY <2>2 DEF Traced, Differing
  <2>. QED  BY <2>1, <2>2
<1>4. y.source \in u
  BY <1>3
<1>. HIDE DEF d, u
<1>5. \A q \in Differing(d.pulls, w.pulls) : q.number \in u /\ q.source \in u
  <2>. SUFFICES ASSUME NEW q \in Differing(d.pulls, w.pulls)
                PROVE  q.number \in u /\ q.source \in u
    OBVIOUS
  <2>1. q \in {y, r} \/ q \in Differing(e.pulls, w.pulls)
    BY <1>1 DEF Differing
  <2>. QED  BY <1>2, <1>3, <1>4, <2>1 DEF Traced
<1>6. Traced(d, w, u)
  BY <1>1, <1>2, <1>5 DEF Traced
<1>. QED  BY <1>6 DEF d, u

(* So are both ends of a spoiled link.                                     *)
LEMMA TracedLinks ==
  ASSUME NEW e, NEW w, NEW t, Traced(e, w, t), EvidenceOK(e),
         NEW l \in e.links, NEW y,
         y.issue = l.issue, y.pull = l.pull, y.source = l.source
  PROVE  Traced([e EXCEPT !.links = (e.links \ {l}) \cup {y}], w,
                t \cup {l.issue, l.pull})
<1> DEFINE d == [e EXCEPT !.links = (e.links \ {l}) \cup {y}]
<1>1. /\ d.links = (e.links \ {l}) \cup {y} /\ d.pulls = e.pulls /\ d.items = e.items
      /\ d.comparisons = e.comparisons /\ d.checks = e.checks
      /\ d.candidate = e.candidate
  BY DEF EvidenceOK
<1>. HIDE DEF d
<1>2. \A k \in Differing(d.links, w.links) :
        k.issue \in t \cup {l.issue, l.pull} /\ k.pull \in t \cup {l.issue, l.pull}
  BY <1>1 DEF Traced, Differing
<1>3. \A k \in d.links : k.source = Pair(k)
  BY <1>1 DEF Traced, Pair
<1>4. Traced(d, w, t \cup {l.issue, l.pull})
  BY <1>1, <1>2, <1>3 DEF Traced
<1>. QED  BY <1>4 DEF d

(* So is the pull request of a truncated comparison.                       *)
LEMMA TracedComparisons ==
  ASSUME NEW e, NEW w, NEW t, Traced(e, w, t), EvidenceOK(e),
         NEW c \in e.comparisons, NEW y, y.pull = c.pull
  PROVE  Traced([e EXCEPT !.comparisons = (e.comparisons \ {c}) \cup {y}], w,
                t \cup {c.pull})
<1> DEFINE d == [e EXCEPT !.comparisons = (e.comparisons \ {c}) \cup {y}]
<1>1. /\ d.comparisons = (e.comparisons \ {c}) \cup {y} /\ d.pulls = e.pulls
      /\ d.items = e.items /\ d.links = e.links /\ d.checks = e.checks
      /\ d.candidate = e.candidate
  BY DEF EvidenceOK
<1>. HIDE DEF d
<1>2. \A k \in Differing(d.comparisons, w.comparisons) : k.pull \in t \cup {c.pull}
  BY <1>1 DEF Traced, Differing
<1>3. Traced(d, w, t \cup {c.pull})
  BY <1>1, <1>2 DEF Traced
<1>. QED  BY <1>3 DEF d

(* So are the issues that cite a check listed twice.                       *)
LEMMA TracedChecks ==
  ASSUME NEW e, NEW w, NEW t, Traced(e, w, t), EvidenceOK(e),
         \A c, d \in e.checks : c.run = d.run,
         NEW c \in e.checks, NEW y, y.run = c.run, y.name = c.name,
         DOMAIN y = DOMAIN c
  PROVE  Traced([e EXCEPT !.checks = e.checks \cup {y}], w,
                t \cup {x.number : x \in {z \in e.items : z.body.migration.run = c.run}})
<1> DEFINE d == [e EXCEPT !.checks = e.checks \cup {y}]
           u == t \cup {x.number : x \in {z \in e.items : z.body.migration.run = c.run}}
<1>1. /\ d.checks = e.checks \cup {y} /\ d.pulls = e.pulls
      /\ d.items = e.items /\ d.links = e.links /\ d.comparisons = e.comparisons
      /\ d.candidate = e.candidate
  BY DEF EvidenceOK
<1>2. ASSUME NEW x \in w.items, NEW b \in d.checks, x.body.migration.run = b.run
      PROVE  x.number \in u
  <2>1. b.run = c.run
    BY <1>1
  <2>2. CASE x \in e.items
    BY <1>2, <2>1, <2>2
  <2>3. CASE x \notin e.items
    BY <2>3 DEF Traced, Differing
  <2>. QED  BY <2>2, <2>3
<1>3. t \subseteq u
  OBVIOUS
<1>. HIDE DEF d, u
<1>4. Traced(d, w, u)
  BY <1>1, <1>2, <1>3 DEF Traced
<1>. QED  BY <1>4 DEF d, u

-----------------------------------------------------------------------------
(***************************************************************************)
(* The commits of GitHub: a made commit contains the first one, itself and *)
(* what its ancestors contain, no two contain each other, and what a pull  *)
(* request was merged as is made.                                          *)
(***************************************************************************)
Lineage ==
  /\ \A c \in AllCommits : ancestry[c] # {} =>
       /\ c \in ancestry[c] /\ Root \in ancestry[c] /\ IsFiniteSet(ancestry[c])
       /\ \A d \in ancestry[c] : ancestry[d] # {} /\ ancestry[d] \subseteq ancestry[c]
  /\ \A c \in AllCommits : \A d \in ancestry[c] : c \in ancestry[d] => c = d
  /\ ancestry[Trial] # {}
  /\ \A p \in PullNumbers :
       pulls[p] # Absent /\ pulls[p].merge # None => ancestry[pulls[p].merge] # {}

(***************************************************************************)
(* What the application keeps of GitHub: the evidence can be traced to     *)
(* what was collected, and the verdict is on that evidence.                *)
(***************************************************************************)
Gathered(e, w, t) ==
  /\ evidence = e /\ Window = w /\ touched = t
  /\ truth = Said(w)
  /\ Traced(e, w, t)
  /\ faults = 0 => e = w

Kept ==
  /\ Lineage
  /\ phase # "working" => \E e, w, t : Gathered(e, w, t)
  /\ phase = "assessed" => \E e : evidence = e /\ verdict = Verdict(e)

(* What would be collected depends on GitHub alone.                        *)
LEMMA WindowStands ==
  ASSUME UNCHANGED github
  PROVE  Window' = Window
BY DEF github, Window, ListedIssues, ListedPulls, ReadLinks, RelatedPulls, IssueItem,
       PullItem, LinkRecord, PullRecord, StateOf, Comparison, Only, MigrationCheck

(* The lineage depends on the commits and the merges alone.                *)
LEMMA LineageStands ==
  ASSUME UNCHANGED ancestry, Lineage,
         \A p \in PullNumbers :
           pulls'[p] # Absent /\ pulls'[p].merge # None => ancestry[pulls'[p].merge] # {}
  PROVE  Lineage'
BY DEF Lineage, Made

(* Nothing is collected at first, and only two commits are made.           *)
LEMMA InitiallyKept == Init => Kept
<1>. SUFFICES ASSUME Init
              PROVE  Kept
  OBVIOUS
<1>1. /\ ancestry[Root] = {Root} /\ ancestry[Trial] = {Root, Trial}
      /\ \A c \in CommitIds : ancestry[c] = {}
      /\ Root # Trial
  BY ReleaseAssumption DEF Init, AllCommits, Root, Trial
<1>2. IsFiniteSet({Root}) /\ IsFiniteSet({Root, Trial})
  <2>1. IsFiniteSet({Root})
    BY FS_Singleton
  <2>2. IsFiniteSet({Root} \cup {Trial})
    BY <2>1, FS_AddElement
  <2>3. {Root} \cup {Trial} = {Root, Trial}
    OBVIOUS
  <2>. QED  BY <2>1, <2>2, <2>3
<1>3. Lineage
  <2>1. \A p \in PullNumbers : pulls[p] = Absent
    BY DEF Init
  <2>2. \A c \in AllCommits : ancestry[c] # {} => c = Root \/ c = Trial
    BY <1>1 DEF Made, AllCommits
  <2>3. \A c \in AllCommits : ~ancestry[c] # {} => ancestry[c] = {}
    BY DEF Made
  <2>. QED  BY <1>1, <1>2, <2>1, <2>2, <2>3 DEF Lineage, Made
<1>. QED  BY <1>3 DEF Kept, Init

(* A commit on a branch keeps the lineage.                                 *)
LEMMA CommitKeepsLineage ==
  ASSUME TypeOK, Lineage, NEW branch \in Branches, Commit(branch)
  PROVE  /\ NewCommit \in CommitIds
         /\ \A c \in AllCommits : c # NewCommit => ancestry'[c] = ancestry[c]
         /\ \A c \in AllCommits : ancestry'[c] # {} =>
              /\ c \in ancestry'[c] /\ Root \in ancestry'[c] /\ IsFiniteSet(ancestry'[c])
              /\ \A d \in ancestry'[c] : ancestry'[d] # {} /\ ancestry'[d] \subseteq ancestry'[c]
         /\ \A c \in AllCommits : \A d \in ancestry'[c] : c \in ancestry'[d] => c = d
         /\ \A c \in AllCommits : ancestry[c] # {} => ancestry'[c] # {}
         /\ ancestry'[NewCommit] # {}
<1>1. NewCommit \in Unmade
  BY DEF Commit, NewCommit
<1>2. NewCommit \in CommitIds /\ NewCommit \in AllCommits
  BY <1>1 DEF Unmade, AllCommits
<1>3. ancestry[NewCommit] = {}
  BY <1>1 DEF Unmade, Made
<1>4. ancestry' = [ancestry EXCEPT ![NewCommit] = ancestry[tip[branch]] \cup {NewCommit}]
  BY DEF Commit
<1>. HIDE DEF NewCommit
<1> DEFINE t == tip[branch]
<1>5. t \in AllCommits /\ ancestry[t] # {}
  BY DEF TypeOK, AllCommits, Made
<1>. HIDE DEF t
<1>6. /\ ancestry'[NewCommit] = ancestry[t] \cup {NewCommit}
      /\ \A c \in AllCommits : c # NewCommit => ancestry'[c] = ancestry[c]
  BY <1>2, <1>4 DEF TypeOK, t
<1>7. \A c \in AllCommits : ancestry[c] \subseteq AllCommits
  BY DEF TypeOK
<1>8. \A c \in AllCommits : NewCommit \notin ancestry[c]
  BY <1>3, <1>7 DEF Lineage, Made
<1>9. \A c \in AllCommits : ancestry'[c] # {} <=> c = NewCommit \/ ancestry[c] # {}
  BY <1>3, <1>6 DEF Made
<1>10. \A c \in AllCommits : ancestry'[c] # {} =>
         /\ c \in ancestry'[c] /\ Root \in ancestry'[c] /\ IsFiniteSet(ancestry'[c])
         /\ \A d \in ancestry'[c] : ancestry'[d] # {} /\ ancestry'[d] \subseteq ancestry'[c]
  <2>. SUFFICES ASSUME NEW c \in AllCommits, ancestry'[c] # {}
                PROVE  /\ c \in ancestry'[c] /\ Root \in ancestry'[c] /\ IsFiniteSet(ancestry'[c])
                       /\ \A d \in ancestry'[c] : ancestry'[d] # {} /\ ancestry'[d] \subseteq ancestry'[c]
    OBVIOUS
  <2>1. CASE c = NewCommit
    <3>1. IsFiniteSet(ancestry[t] \cup {NewCommit})
      BY <1>5, FS_AddElement DEF Lineage
    <3>2. \A d \in ancestry[t] : d \in AllCommits /\ d # NewCommit /\ ancestry[d] # {}
                                 /\ ancestry'[d] \subseteq ancestry[t]
      BY <1>5, <1>6, <1>7, <1>8 DEF Lineage
    <3>3. Root \in ancestry[t]
      BY <1>5 DEF Lineage
    <3>. QED  BY <1>2, <1>6, <1>9, <2>1, <3>1, <3>2, <3>3
  <2>2. CASE c # NewCommit
    <3>1. ancestry[c] # {} /\ ancestry'[c] = ancestry[c]
      BY <1>6, <1>9, <2>2
    <3>2. \A d \in ancestry[c] : d \in AllCommits /\ d # NewCommit /\ ancestry[d] # {}
                                 /\ ancestry'[d] \subseteq ancestry[c]
      BY <1>6, <1>7, <1>8, <3>1 DEF Lineage
    <3>3. c \in ancestry[c] /\ Root \in ancestry[c] /\ IsFiniteSet(ancestry[c])
      BY <3>1 DEF Lineage
    <3>. QED  BY <1>9, <3>1, <3>2, <3>3
  <2>. QED  BY <2>1, <2>2
<1>11. ASSUME NEW c \in AllCommits, NEW d \in ancestry'[c], c \in ancestry'[d]
       PROVE  c = d
  <2>1. d \in AllCommits
    BY <1>2, <1>5, <1>6, <1>7, <1>11
  <2>2. CASE c = NewCommit /\ d # NewCommit
    BY <1>6, <1>8, <1>11, <2>1, <2>2
  <2>3. CASE c # NewCommit /\ d = NewCommit
    BY <1>6, <1>8, <1>11, <2>1, <2>3
  <2>4. CASE c # NewCommit /\ d # NewCommit
    BY <1>6, <1>11, <2>1, <2>4 DEF Lineage
  <2>. QED  BY <2>2, <2>3, <2>4
<1>. QED  BY <1>2, <1>6, <1>9, <1>10, <1>11

(* People work only while nothing is collected.                            *)
LEMMA PeopleKeep ==
  ASSUME TypeOK, Kept, People
  PROVE  Kept'
<1>1. phase = "working" /\ UNCHANGED analysis
  BY DEF People, EditIssue, OpenPull, ClosePull, Link, Merge, Patch, Cut, RunMigration, Working
<1>2. phase' = "working"
  BY <1>1 DEF analysis
<1>3. Lineage
  BY DEF Kept
<1>4. Lineage'
  <2>1. ASSUME NEW n \in IssueNumbers, NEW shape \in IssueShapes, EditIssue(n, shape)
        PROVE  Lineage'
    BY <1>3, <2>1, LineageStands DEF EditIssue, Lineage
  <2>2. ASSUME NEW p \in PullNumbers, NEW shape \in PullShapes, OpenPull(p, shape)
        PROVE  Lineage'
    <3> DEFINE opened == [state |-> "open", milestone |-> shape.milestone,
                          base |-> shape.base, merge |-> shape.merge]
    <3>1. opened.merge \in {Trial, None}
      BY ReleaseAssumption
    <3>2. pulls' = [pulls EXCEPT ![p] = opened] /\ UNCHANGED ancestry
      BY <2>2 DEF OpenPull
    <3>. HIDE DEF opened
    <3>3. ancestry[Trial] # {}
      BY <1>3 DEF Lineage
    <3>4. \A q \in PullNumbers :
            pulls'[q] # Absent /\ pulls'[q].merge # None => ancestry[pulls'[q].merge] # {}
      <4>. SUFFICES ASSUME NEW q \in PullNumbers, pulls'[q] # Absent, pulls'[q].merge # None
                    PROVE  ancestry[pulls'[q].merge] # {}
        OBVIOUS
      <4>1. CASE q = p
        BY <3>1, <3>2, <3>3, <4>1 DEF TypeOK
      <4>2. CASE q # p
        BY <1>3, <3>2, <4>2 DEF TypeOK, Lineage
      <4>. QED  BY <4>1, <4>2
    <3>. QED  BY <1>3, <3>2, <3>4, LineageStands
  <2>3. ASSUME NEW p \in PullNumbers, ClosePull(p)
        PROVE  Lineage'
    <3> DEFINE closed == [pulls[p] EXCEPT !.state = "closed"]
    <3>1. pulls[p] # Absent /\ pulls[p] \in Pulls
      BY <2>3 DEF ClosePull, TypeOK
    <3>2. closed.merge = pulls[p].merge
      BY <3>1 DEF Pulls
    <3>3. pulls' = [pulls EXCEPT ![p] = closed] /\ UNCHANGED ancestry
      BY <2>3 DEF ClosePull
    <3>. HIDE DEF closed
    <3>4. \A q \in PullNumbers :
            pulls'[q] # Absent => pulls[q] # Absent /\ pulls'[q].merge = pulls[q].merge
      BY <3>1, <3>2, <3>3 DEF TypeOK
    <3>. QED  BY <1>3, <3>3, <3>4, LineageStands DEF Lineage
  <2>4. ASSUME NEW n \in IssueNumbers, NEW p \in PullNumbers, Link(n, p)
        PROVE  Lineage'
    BY <1>3, <2>4, LineageStands DEF Link, Lineage
  <2>5. ASSUME NEW p \in PullNumbers, Merge(p)
        PROVE  Lineage'
    <3> DEFINE merged == [pulls[p] EXCEPT !.state = "merged", !.merge = NewCommit]
    <3>1. pulls[p] \in Pulls /\ pulls[p].base \in Branches
      BY <2>5 DEF Merge, TypeOK, Pulls
    <3>2. /\ \A c \in AllCommits : ancestry'[c] # {} =>
               /\ c \in ancestry'[c] /\ Root \in ancestry'[c] /\ IsFiniteSet(ancestry'[c])
               /\ \A d \in ancestry'[c] : ancestry'[d] # {} /\ ancestry'[d] \subseteq ancestry'[c]
          /\ \A c \in AllCommits : \A d \in ancestry'[c] : c \in ancestry'[d] => c = d
          /\ \A c \in AllCommits : ancestry[c] # {} => ancestry'[c] # {}
          /\ ancestry'[NewCommit] # {}
      BY <1>3, <2>5, <3>1, CommitKeepsLineage DEF Merge
    <3>. HIDE DEF NewCommit
    <3>3. merged.merge = NewCommit
      BY <3>1 DEF Pulls
    <3>4. pulls' = [pulls EXCEPT ![p] = merged]
      BY <2>5, <3>1 DEF Merge, TypeOK, Pulls
    <3>. HIDE DEF merged
    <3>5. \A q \in PullNumbers :
            pulls'[q] # Absent /\ pulls'[q].merge # None => ancestry'[pulls'[q].merge] # {}
      <4>. SUFFICES ASSUME NEW q \in PullNumbers, pulls'[q] # Absent, pulls'[q].merge # None
                    PROVE  ancestry'[pulls'[q].merge] # {}
        OBVIOUS
      <4>1. CASE q = p
        BY <3>2, <3>3, <3>4, <4>1 DEF TypeOK, Made
      <4>2. CASE q # p
        <5>1. pulls'[q] = pulls[q] /\ pulls[q] # Absent /\ pulls[q].merge # None
          BY <3>4, <4>2 DEF TypeOK
        <5>2. pulls[q].merge \in AllCommits /\ ancestry[pulls[q].merge] # {}
          BY <1>3, <5>1 DEF Lineage, TypeOK, Pulls, AllCommits
        <5>. QED  BY <3>2, <5>1, <5>2 DEF Made
      <4>. QED  BY <4>1, <4>2
    <3>6. ancestry'[Trial] # {}
      BY <1>3, <3>2 DEF Lineage, AllCommits
    <3>. QED  BY <3>2, <3>5, <3>6 DEF Lineage, Made
  <2>6. ASSUME Patch
        PROVE  Lineage'
    <3>1. /\ \A c \in AllCommits : ancestry'[c] # {} =>
               /\ c \in ancestry'[c] /\ Root \in ancestry'[c] /\ IsFiniteSet(ancestry'[c])
               /\ \A d \in ancestry'[c] : ancestry'[d] # {} /\ ancestry'[d] \subseteq ancestry'[c]
          /\ \A c \in AllCommits : \A d \in ancestry'[c] : c \in ancestry'[d] => c = d
          /\ \A c \in AllCommits : ancestry[c] # {} => ancestry'[c] # {}
      BY <1>3, <2>6, CommitKeepsLineage DEF Patch, Branches
    <3>2. pulls' = pulls
      BY <2>6 DEF Patch
    <3>3. \A q \in PullNumbers :
            pulls[q] # Absent /\ pulls[q].merge # None =>
              pulls[q].merge \in AllCommits /\ ancestry[pulls[q].merge] # {}
      BY <1>3 DEF Lineage, TypeOK, Pulls, AllCommits
    <3>4. ancestry'[Trial] # {}
      BY <1>3, <3>1 DEF Lineage, AllCommits
    <3>. QED  BY <3>1, <3>2, <3>3, <3>4 DEF Lineage, Made
  <2>7. ASSUME Cut
        PROVE  Lineage'
    BY <1>3, <2>7, LineageStands DEF Cut, Lineage
  <2>8. ASSUME NEW conclusion \in Outcomes, RunMigration(conclusion)
        PROVE  Lineage'
    BY <1>3, <2>8, LineageStands DEF RunMigration, Lineage
  <2>. QED  BY <2>1, <2>2, <2>3, <2>4, <2>5, <2>6, <2>7, <2>8 DEF People
<1>. QED  BY <1>2, <1>4 DEF Kept

(***************************************************************************)
(* Collecting, a wrong record, the verdict, and the return to work.        *)
(***************************************************************************)
LEMMA CollectKeeps ==
  ASSUME TypeOK, Kept, Collect
  PROVE  Kept'
<1>1. /\ evidence' = Window /\ truth' = Said(Window) /\ phase' = "collected"
      /\ UNCHANGED <<github, touched>>
  BY DEF Collect, Said
<1>2. Lineage'
  BY <1>1, LineageStands DEF Kept, github, Lineage
<1>3. PICK w : w = Window
  OBVIOUS
<1>4. PICK t : t = touched
  OBVIOUS
<1>5. Window' = w
  BY <1>1, <1>3, WindowStands
<1>6. Traced(w, w, t)
  BY <1>3, WindowIsTraced
<1>7. truth' = Said(w)
  BY <1>1, <1>3
<1>8. Gathered(w, w, t)'
  BY <1>1, <1>3, <1>4, <1>5, <1>6, <1>7 DEF Gathered
<1>. QED  BY <1>1, <1>2, <1>8 DEF Kept

(* A wrong record is traced when its number is touched.                    *)
LEMMA CorruptKeeps ==
  ASSUME Kept, NEW d, NEW numbers, Corrupt(d, numbers), faults \in Nat,
         \A e, w, t : Gathered(e, w, t) => Traced(d, w, t \cup numbers)
  PROVE  Kept'
<1>1. /\ phase = "collected" /\ phase' = "collected" /\ evidence' = d
      /\ touched' = touched \cup numbers /\ faults' = faults + 1
      /\ UNCHANGED <<github, truth>>
  BY DEF Corrupt
<1>2. Lineage'
  BY <1>1, LineageStands DEF Kept, github, Lineage
<1>3. PICK e, w, t : Gathered(e, w, t)
  BY <1>1 DEF Kept
<1>4. Window' = w
  BY <1>1, <1>3, WindowStands DEF Gathered
<1>5. PICK u : u = t \cup numbers
  OBVIOUS
<1>6. Traced(d, w, u)
  BY <1>3, <1>5
<1>7. truth' = Said(w)
  BY <1>1, <1>3 DEF Gathered
<1>8. faults' # 0
  BY <1>1
<1>9. Gathered(d, w, u)'
  BY <1>1, <1>3, <1>4, <1>5, <1>6, <1>7, <1>8 DEF Gathered
<1>. QED  BY <1>1, <1>2, <1>9 DEF Kept

(* Every kind of wrong record touches the numbers it is of.                *)
LEMMA FaultsKeep ==
  ASSUME IInv, Kept, Faults
  PROVE  Kept'
<1>1. phase = "collected"
  BY DEF Faults, ListTwice, SpoilItem, SpoilPull, SpoilLink, Truncate, ListCheckTwice, Corrupt
<1>2. Sane(evidence) /\ EvidenceOK(evidence)
  BY <1>1 DEF IInv, Sane
<1>3. faults \in Nat
  BY ReleaseAssumption DEF IInv, TypeOK
<1>4. /\ evidence.items \subseteq ItemRecords /\ evidence.pulls \subseteq PullRecords
      /\ evidence.links \subseteq LinkRecords
  BY <1>2 DEF EvidenceOK
<1>5. ASSUME NEW x \in evidence.items, ListTwice(x)
      PROVE  Kept'
  <2>1. PICK y \in {[x EXCEPT !.state = "open"], [x EXCEPT !.state = "closed"],
                    [x EXCEPT !.milestone = CurrentMilestone],
                    [x EXCEPT !.milestone = PreviousMilestone],
                    [x EXCEPT !.labels = {}]} :
          Corrupt([evidence EXCEPT !.items = @ \cup {y}], {x.number})
    BY <1>5 DEF ListTwice
  <2>2. y \in ItemRecords /\ y.number = x.number /\ y.source = x.source
    BY <1>4, <2>1 DEF ItemRecords, MilestoneNames, Labels
  <2>3. ASSUME NEW e, NEW w, NEW t, Gathered(e, w, t)
        PROVE  Traced([evidence EXCEPT !.items = @ \cup {y}], w, t \cup {x.number})
    BY <1>2, <2>2, <2>3, TracedItems DEF Gathered
  <2>. QED  BY <1>3, <2>1, <2>3, CorruptKeeps
<1>6. ASSUME NEW x \in evidence.items, SpoilItem(x)
      PROVE  Kept'
  <2>1. PICK y \in {[x EXCEPT !.url = FALSE], [x EXCEPT !.sound = FALSE]} :
          Corrupt([evidence EXCEPT !.items = Instead(@, x, y)], {x.number})
    BY <1>6 DEF SpoilItem
  <2>2. y \in ItemRecords /\ y.number = x.number /\ y.source = x.source
    BY <1>4, <2>1 DEF ItemRecords
  <2>3. ASSUME NEW e, NEW w, NEW t, Gathered(e, w, t)
        PROVE  Traced([evidence EXCEPT !.items = Instead(@, x, y)], w, t \cup {x.number})
    BY <1>2, <2>2, <2>3, TracedItems DEF Gathered, Instead
  <2>. QED  BY <1>3, <2>1, <2>3, CorruptKeeps
<1>7. ASSUME NEW r \in evidence.pulls, SpoilPull(r)
      PROVE  Kept'
  <2>1. PICK y \in {[r EXCEPT !.url = FALSE], [r EXCEPT !.sound = FALSE]}
                     \cup {[r EXCEPT !.source = p] : p \in PullNumbers} :
          Corrupt([evidence EXCEPT !.pulls = Instead(@, r, y)],
                  {r.number} \cup ({y.source} \cap PullNumbers))
    BY <1>7 DEF SpoilPull
  <2>2. y.number = r.number /\ (y.source = r.source \/ y.source \in PullNumbers)
    BY <1>4, <2>1 DEF PullRecords
  <2>3. ASSUME NEW e, NEW w, NEW t, Gathered(e, w, t)
        PROVE  Traced([evidence EXCEPT !.pulls = Instead(@, r, y)], w,
                      t \cup ({r.number} \cup ({y.source} \cap PullNumbers)))
    BY <1>2, <2>2, <2>3, TracedPulls DEF Gathered, Instead
  <2>. QED  BY <1>3, <2>1, <2>3, CorruptKeeps
<1>8. ASSUME NEW l \in evidence.links, SpoilLink(l)
      PROVE  Kept'
  <2>1. PICK y \in {[l EXCEPT !.url = FALSE], [l EXCEPT !.sound = FALSE]} :
          Corrupt([evidence EXCEPT !.links = Instead(@, l, y)], {l.issue, l.pull})
    BY <1>8 DEF SpoilLink
  <2>2. y.issue = l.issue /\ y.pull = l.pull /\ y.source = l.source
    BY <1>4, <2>1 DEF LinkRecords
  <2>3. ASSUME NEW e, NEW w, NEW t, Gathered(e, w, t)
        PROVE  Traced([evidence EXCEPT !.links = Instead(@, l, y)], w, t \cup {l.issue, l.pull})
    BY <1>2, <2>2, <2>3, TracedLinks DEF Gathered, Instead
  <2>. QED  BY <1>3, <2>1, <2>3, CorruptKeeps
<1>9. ASSUME NEW c \in evidence.comparisons, Truncate(c)
      PROVE  Kept'
  <2>1. PICK y : y = [c EXCEPT !.listed = 0]
    OBVIOUS
  <2>2. y.pull = c.pull
    BY <1>2, <2>1 DEF Sane, Faithful, FaithfulComparisons
  <2>3. Corrupt([evidence EXCEPT !.comparisons = Instead(@, c, y)], {c.pull})
    BY <1>9, <2>1 DEF Truncate
  <2>4. ASSUME NEW e, NEW w, NEW t, Gathered(e, w, t)
        PROVE  Traced([evidence EXCEPT !.comparisons = Instead(@, c, y)], w, t \cup {c.pull})
    BY <1>2, <2>2, <2>4, TracedComparisons DEF Gathered, Instead
  <2>. QED  BY <1>3, <2>3, <2>4, CorruptKeeps
<1>10. ASSUME NEW c \in evidence.checks, ListCheckTwice(c)
       PROVE  Kept'
  <2>1. PICK conclusion \in Outcomes :
          Corrupt([evidence EXCEPT !.checks =
                     @ \cup {[c EXCEPT !.conclusion = conclusion]}],
                  {x.number : x \in {z \in evidence.items :
                                       z.body.migration.run = c.run}})
    BY <1>10 DEF ListCheckTwice
  <2>2. PICK y : y = [c EXCEPT !.conclusion = conclusion]
    OBVIOUS
  <2>3. \A b \in evidence.checks : "run" \in DOMAIN b /\ b.run = RunOf[tip[CandidateBranch]]
    BY <1>2 DEF Sane, Faithful, FaithfulChecks
  <2>4. PICK e, w, t : Gathered(e, w, t)
    BY <1>1 DEF Kept
  <2>5. "name" \in DOMAIN c
    BY <2>4 DEF Gathered, Traced
  <2>6. y.run = c.run /\ y.name = c.name /\ DOMAIN y = DOMAIN c
    BY <2>2, <2>3, <2>5
  <2>7. \A a, b \in evidence.checks : a.run = b.run
    BY <2>3
  <2>8. PICK numbers : numbers = {x.number : x \in {z \in evidence.items :
                                                      z.body.migration.run = c.run}}
    OBVIOUS
  <2>9. Corrupt([evidence EXCEPT !.checks = @ \cup {y}], numbers)
    BY <2>1, <2>2, <2>8
  <2>10. ASSUME NEW d, NEW v, NEW u, Gathered(d, v, u)
         PROVE  Traced([evidence EXCEPT !.checks = @ \cup {y}], v, u \cup numbers)
    <3>1. evidence = d /\ Traced(d, v, u)
      BY <2>10 DEF Gathered
    <3>. QED  BY <1>2, <2>6, <2>7, <2>8, <3>1, TracedChecks
  <2>. QED  BY <1>3, <2>9, <2>10, CorruptKeeps
<1>. QED  BY <1>5, <1>6, <1>7, <1>8, <1>9, <1>10 DEF Faults

(* The verdict is on the evidence as it stands.                            *)
LEMMA JudgeKeeps ==
  ASSUME Kept, JudgeEvidence
  PROVE  Kept'
<1>1. /\ phase = "collected" /\ phase' = "assessed" /\ verdict' = Verdict(evidence)
      /\ UNCHANGED <<github, evidence, touched, faults, truth>>
  BY DEF JudgeEvidence
<1>2. Lineage'
  BY <1>1, LineageStands DEF Kept, github, Lineage
<1>3. PICK e, w, t : Gathered(e, w, t)
  BY <1>1 DEF Kept
<1>4. Window' = w
  BY <1>1, <1>3, WindowStands DEF Gathered
<1>5. Gathered(e, w, t)'
  BY <1>1, <1>3, <1>4 DEF Gathered
<1>6. evidence' = e /\ verdict' = Verdict(e)
  BY <1>1, <1>3 DEF Gathered
<1>. QED  BY <1>2, <1>5, <1>6 DEF Kept

(* Work resumes with nothing collected.                                    *)
LEMMA ResumeKeeps ==
  ASSUME Kept, Resume
  PROVE  Kept'
<1>1. phase' = "working" /\ UNCHANGED github
  BY DEF Resume
<1>2. Lineage'
  BY <1>1, LineageStands DEF Kept, github, Lineage
<1>. QED  BY <1>1, <1>2 DEF Kept

(* A stuttering step keeps everything.                                     *)
LEMMA StutterKeeps ==
  ASSUME Kept, UNCHANGED vars
  PROVE  Kept'
<1>1. /\ UNCHANGED github
      /\ UNCHANGED <<evidence, touched, faults, phase, verdict, truth>>
  BY DEF vars, analysis
<1>2. Lineage'
  BY <1>1, LineageStands DEF Kept, github, Lineage
<1>3. ASSUME NEW e, NEW w, NEW t, Gathered(e, w, t)
      PROVE  Gathered(e, w, t)'
  <2>1. Window' = w
    BY <1>1, <1>3, WindowStands DEF Gathered
  <2>. QED  BY <1>1, <1>3, <2>1 DEF Gathered
<1>4. phase' # "working" => \E e, w, t : Gathered(e, w, t)'
  <2>. SUFFICES ASSUME phase' # "working"
                PROVE  \E e, w, t : Gathered(e, w, t)'
    OBVIOUS
  <2>1. PICK e, w, t : Gathered(e, w, t)
    BY <1>1 DEF Kept
  <2>. QED  BY <1>3, <2>1
<1>5. phase' = "assessed" => \E e : evidence' = e /\ verdict' = Verdict(e)
  BY <1>1 DEF Kept
<1>. QED  BY <1>2, <1>4, <1>5 DEF Kept

(***************************************************************************)
(* In every reachable state the evidence can be traced to what GitHub      *)
(* held, and a verdict is the one on the evidence (assess).                *)
(***************************************************************************)
THEOREM Bookkeeping == Spec => [](IInv /\ Kept)
<1>1. Init => Kept
  BY InitiallyKept
<1>2. IInv /\ Kept /\ [Next]_vars => Kept'
  <2>1. IInv => TypeOK
    BY DEF IInv
  <2>. QED  BY <2>1, PeopleKeep, CollectKeeps, FaultsKeep, JudgeKeeps, ResumeKeeps,
               StutterKeeps DEF Next
<1>. QED  BY <1>1, <1>2, Invariance, PTL DEF Spec

-----------------------------------------------------------------------------
(***************************************************************************)
(* What was collected, before any record was wrong.                        *)
(***************************************************************************)
LEMMA WindowRecords ==
  /\ Issues(Window) = {IssueItem(n) : n \in ListedIssues(Milestones)}
  /\ PullItems(Window) = {PullItem(p) : p \in ListedPulls(Milestones)}
  /\ Window.links = {LinkRecord(l) : l \in ReadLinks(Milestones)}
  /\ Window.pulls = {PullRecord(p) : p \in RelatedPulls(Milestones)}
  /\ Window.items = Issues(Window) \cup PullItems(Window)
  /\ \A n : /\ IssueItem(n).number = n /\ IssueItem(n).source = n
            /\ WellFormed(IssueItem(n))
  /\ \A p : /\ PullItem(p).number = p /\ PullItem(p).source = p
            /\ WellFormed(PullItem(p))
            /\ PullItem(p).state = StateOf(p)
            /\ PullItem(p).milestone = pulls[p].milestone
  /\ \A p : /\ PullRecord(p).number = p /\ PullRecord(p).source = p
            /\ WellFormed(PullRecord(p))
            /\ PullRecord(p).state = StateOf(p)
<1>1. \A n : IssueItem(n).kind = "issue" /\ PullItem(n).kind = "pull"
  BY DEF IssueItem, PullItem
<1>2. Window.items = {IssueItem(n) : n \in ListedIssues(Milestones)}
                       \cup {PullItem(p) : p \in ListedPulls(Milestones)}
  BY DEF Window
<1>3. /\ Issues(Window) = {IssueItem(n) : n \in ListedIssues(Milestones)}
      /\ PullItems(Window) = {PullItem(p) : p \in ListedPulls(Milestones)}
  BY <1>1, <1>2 DEF Issues, PullItems
<1>. QED  BY <1>2, <1>3 DEF Window, IssueItem, PullItem, PullRecord, WellFormed

(* No number is both an issue's and a pull request's.                      *)
LEMMA NoneAmbiguous ==
  ASSUME NEW e, EvidenceOK(e), FaithfulItems(e)
  PROVE  /\ Ambiguous(e) = {}
         /\ \A x \in Issues(e) : x.number \in ListedIssues(Milestones)
         /\ \A x \in PullItems(e) : x.number \in ListedPulls(Milestones)
<1>1. \A x \in Issues(e) : x.number \in ListedIssues(Milestones)
  BY DEF FaithfulItems, Issues
<1>2. \A x \in PullItems(e) : x.number \in ListedPulls(Milestones)
  BY DEF FaithfulItems, PullItems
<1>3. ListedIssues(Milestones) \cap ListedPulls(Milestones) = {}
  BY ReleaseAssumption DEF ListedIssues, ListedPulls
<1>. QED  BY <1>1, <1>2, <1>3 DEF Ambiguous

(* What blanking an issue record leaves alone (Safe).                      *)
LEMMA SafeKeeps ==
  ASSUME NEW x \in ItemRecords
  PROVE  /\ Safe(x).number = x.number /\ Safe(x).kind = x.kind
         /\ Safe(x).state = x.state /\ Safe(x).milestone = x.milestone
         /\ Safe(x).labels = x.labels
         /\ Safe(x).owners = IF x.owners = "invalid" THEN "none" ELSE x.owners
         /\ Safe(x).body = IF x.body.readable THEN x.body ELSE Blank
BY DEF Safe, ItemRecords

(***************************************************************************)
(* A record that is valid, however many others are wrong, is of an issue   *)
(* as GitHub holds it: _analyze_issue_evidence puts all records of a       *)
(* number aside when one of them is malformed or two differ.               *)
(***************************************************************************)
LEMMA ValidIsRead ==
  ASSUME NEW e, EvidenceOK(e), FaithfulItems(e), NEW x \in ValidIssues(e)
  PROVE  /\ x.number \in ListedIssues(Milestones)
         /\ IssueItem(x.number) \in Issues(e)
         /\ x = Safe(IssueItem(x.number))
<1>1. PICK y \in Issues(e) :
        x = Safe(y) /\ y.number \notin Malformed(e) /\ y.number \notin Conflicting(e)
  BY DEF ValidIssues
<1>2. x.number = y.number
  BY <1>1, SafeKeeps DEF EvidenceOK, Issues
<1>3. x.number \in ListedIssues(Milestones)
  BY <1>2, NoneAmbiguous
<1>4. PICK z \in Issues(e) : z.number = x.number /\ (z = IssueItem(x.number) \/ ~WellFormed(z))
  BY <1>3 DEF FaithfulItems
<1>5. WellFormed(z)
  BY <1>1, <1>2, <1>4, NoneAmbiguous DEF Malformed
<1>6. Safe(z) = Safe(y)
  BY <1>1, <1>2, <1>4 DEF Conflicting
<1>. QED  BY <1>1, <1>3, <1>4, <1>5, <1>6

(* Without a wrong record no issue is put aside.                           *)
LEMMA ReadIsValid ==
  ASSUME TypeOK
  PROVE  /\ Malformed(Window) = {} /\ Conflicting(Window) = {}
         /\ \A n \in ListedIssues(Milestones) : Safe(IssueItem(n)) \in ValidIssues(Window)
<1>1. EvidenceOK(Window) /\ FaithfulItems(Window)
  BY WindowIsTyped, WindowIsFaithful DEF Faithful
<1>2. Malformed(Window) = {}
  BY WindowRecords DEF Malformed
<1>3. Conflicting(Window) = {}
  BY <1>1, WindowRecords, NoneAmbiguous DEF Conflicting
<1>. QED  BY <1>2, <1>3, WindowRecords DEF ValidIssues

(* A valid record is valid, and doubted, as it was when collected.         *)
LEMMA InvalidIsRead ==
  ASSUME TypeOK, NEW e, EvidenceOK(e), FaithfulItems(e), NEW x \in ValidIssues(e)
  PROVE  /\ x \in ValidIssues(Window)
         /\ x.number \in InvalidOwners(Window) => x.number \in InvalidOwners(e)
         /\ x.number \in InvalidBodies(Window) => x.number \in InvalidBodies(e)
<1>1. /\ x.number \in ListedIssues(Milestones)
      /\ IssueItem(x.number) \in Issues(e)
      /\ x = Safe(IssueItem(x.number))
  BY ValidIsRead
<1>2. x \in ValidIssues(Window)
  BY <1>1, ReadIsValid
<1>3. \A y \in Issues(Window) : y.number = x.number => y = IssueItem(x.number)
  BY WindowRecords
<1>4. x.number \in InvalidOwners(Window) => x.number \in InvalidOwners(e)
  BY <1>1, <1>3, WindowRecords DEF InvalidOwners
<1>5. x.number \in InvalidBodies(Window) => x.number \in InvalidBodies(e)
  BY <1>1, <1>3, WindowRecords DEF InvalidBodies
<1>. QED  BY <1>2, <1>4, <1>5

(***************************************************************************)
(* Without a wrong record the back-merge rule puts nothing aside but the   *)
(* issues whose owners or body cannot be read.                             *)
(***************************************************************************)
LEMMA WindowIsTrusted ==
  ASSUME TypeOK
  PROVE  /\ Aliased(Window.items) = {} /\ Aliased(Window.pulls) = {}
         /\ ItemsOf(Window) = PullItems(Window)
         /\ UnfitItems(Window) = {} /\ TwiceIn(FitItems(Window)) = {}
         /\ FitPulls(Window) = {Unmilestoned(r) : r \in Window.pulls}
         /\ PullsOf(Window) = FitPulls(Window)
         /\ UnfitPulls(Window) = {} /\ TwiceIn(FitPulls(Window)) = {}
         /\ Mismatched(Window) = {}
         /\ DistrustedPulls(Window) = {}
         /\ DistrustedPairs(Window) = {}
         /\ DistrustedIssues(Window) = InvalidOwners(Window) \cup InvalidBodies(Window)
<1>0. /\ \A x \in Window.items : x.source = x.number
      /\ \A r \in Window.pulls : r.source = r.number
      /\ \A l \in Window.links : l.source = Pair(l)
  BY WindowIsTraced DEF Traced
<1>1. Aliased(Window.items) = {} /\ Aliased(Window.pulls) = {}
  BY <1>0 DEF Aliased
<1>2. FitItems(Window) = PullItems(Window)
  BY WindowRecords DEF FitItems
<1>3. UnfitItems(Window) = {} /\ TwiceIn(FitItems(Window)) = {}
  BY <1>2, WindowRecords DEF UnfitItems, TwiceIn, Alone
<1>4. ItemsOf(Window) = PullItems(Window)
  BY <1>2, WindowRecords DEF ItemsOf, Alone
<1>5. \A r \in Window.pulls : WellFormed(r) /\ MergeIsCoherent(r)
  <2>. SUFFICES ASSUME NEW p \in RelatedPulls(Milestones)
                PROVE  WellFormed(PullRecord(p)) /\ MergeIsCoherent(PullRecord(p))
    BY WindowRecords
  <2>1. p \in PullNumbers /\ pulls[p] # Absent
    BY DEF RelatedPulls, ListedPulls, ReadLinks, TypeOK
  <2>2. pulls[p].state = "merged" => pulls[p].merge \in CommitIds /\ pulls[p].merge # None
    BY <2>1, ReleaseAssumption DEF TypeOK
  <2>. QED  BY <2>2 DEF PullRecord, WellFormed, MergeIsCoherent, StateOf
<1>6. UnfitPulls(Window) = {} /\ FitPulls(Window) = {Unmilestoned(r) : r \in Window.pulls}
  BY <1>5 DEF UnfitPulls, FitPulls, Unmilestoned
<1>7. \A r \in Window.pulls : /\ Unmilestoned(r).number = r.number
                              /\ Unmilestoned(r).source = r.source
                              /\ Unmilestoned(r).state = r.state
  BY WindowIsTyped DEF EvidenceOK, PullRecords, Unmilestoned
<1>8. \A q, r \in Window.pulls : q.number = r.number => q = r
  BY WindowRecords
<1>9. \A r \in FitPulls(Window) : Alone(FitPulls(Window), r)
  BY <1>6, <1>7, <1>8 DEF Alone
<1>10. PullsOf(Window) = FitPulls(Window) /\ TwiceIn(FitPulls(Window)) = {}
  BY <1>9 DEF PullsOf, TwiceIn
<1>11. \A x \in PullItems(Window), r \in Window.pulls :
         r.number = x.number => r.source = x.source /\ r.state = x.state
  BY WindowRecords
<1>12. Mismatched(Window) = {}
  <2>1. \A x \in ItemsOf(Window), r \in PullsOf(Window) :
          r.number = x.number => r.source = x.source /\ r.state = x.state
    BY <1>4, <1>6, <1>7, <1>10, <1>11
  <2>. QED  BY <2>1 DEF Mismatched
<1>13. DistrustedPulls(Window) = {}
  BY <1>1, <1>3, <1>6, <1>10, <1>12 DEF DistrustedPulls
<1>14. DistrustedPairs(Window) = {}
  <2>1. AliasedPairs(Window) = {}
    BY <1>0 DEF AliasedPairs
  <2>2. \A k \in Window.links :
          /\ WellFormed(k) /\ ToValidIssue(Window, k)
          /\ \A j \in Window.links : Pair(j) = Pair(k) => j = k
    <3>. SUFFICES ASSUME NEW l \in ReadLinks(Milestones)
                  PROVE  /\ WellFormed(LinkRecord(l)) /\ ToValidIssue(Window, LinkRecord(l))
                         /\ \A j \in Window.links : Pair(j) = Pair(LinkRecord(l)) => j = LinkRecord(l)
      BY WindowRecords
    <3>1. WellFormed(LinkRecord(l))
      BY DEF LinkRecord, WellFormed
    <3>2. ToValidIssue(Window, LinkRecord(l))
      <4>1. l[1] \in ListedIssues(Milestones) /\ LinkRecord(l).issue = l[1]
        BY DEF ReadLinks, LinkRecord
      <4>2. IssueItem(l[1]) \in ItemRecords
        BY <4>1, WindowIsTyped, WindowRecords DEF EvidenceOK
      <4>3. Safe(IssueItem(l[1])).number = l[1]
        BY <4>2, SafeKeeps, WindowRecords
      <4>. QED  BY <4>1, <4>3, ReadIsValid DEF ToValidIssue
    <3>3. ASSUME NEW k \in ReadLinks(Milestones), Pair(LinkRecord(k)) = Pair(LinkRecord(l))
          PROVE  LinkRecord(k) = LinkRecord(l)
      <4>1. k = <<k[1], k[2]>> /\ l = <<l[1], l[2]>>
        BY DEF ReadLinks, TypeOK
      <4>2. k[1] = l[1] /\ k[2] = l[2]
        BY <3>3 DEF Pair, LinkRecord
      <4>. QED  BY <4>1, <4>2
    <3>. QED  BY <3>1, <3>2, <3>3, WindowRecords
  <2>. QED  BY <2>1, <2>2 DEF DistrustedPairs
<1>15. DistrustedIssues(Window) = InvalidOwners(Window) \cup InvalidBodies(Window)
  BY <1>1, ReadIsValid DEF DistrustedIssues
<1>. QED  BY <1>1, <1>3, <1>4, <1>6, <1>10, <1>12, <1>13, <1>14, <1>15

(* A pull request record that is not put aside is as GitHub holds it.      *)
LEMMA PullIsRead ==
  ASSUME TypeOK, NEW e, EvidenceOK(e), FaithfulPulls(e), NEW q \in PullsOf(e)
  PROVE  /\ q.number \in PullNumbers /\ pulls[q.number] # Absent
         /\ \A branch : MergedInto(q, branch) <=> MergedTo(q.number, branch)
<1>1. PICK r \in e.pulls : q = Unmilestoned(r)
  BY DEF PullsOf, FitPulls, Unmilestoned
<1>2. /\ q.number = r.number /\ q.base = r.base /\ q.state = r.state
      /\ q.merged = r.merged /\ q.merge = r.merge
  BY <1>1 DEF Unmilestoned, EvidenceOK, PullRecords
<1>3. /\ r.state = StateOf(r.number) /\ r.base = pulls[r.number].base
      /\ r.merged = (pulls[r.number].state = "merged")
      /\ r.merge = pulls[r.number].merge
      /\ pulls[r.number] # Absent
  BY DEF FaithfulPulls, SamePull, PullRecord
<1>4. r.number \in PullNumbers
  BY DEF EvidenceOK, PullRecords
<1>5. pulls[r.number].state = "merged" =>
        pulls[r.number].merge \in CommitIds /\ pulls[r.number].merge # None
  BY <1>3, <1>4, ReleaseAssumption DEF TypeOK
<1>6. ASSUME NEW branch
      PROVE  MergedInto(q, branch) <=> MergedTo(q.number, branch)
  BY <1>2, <1>3, <1>5 DEF MergedInto, MergedTo, StateOf
<1>. QED  BY <1>2, <1>3, <1>4, <1>6

(* The back-merge rule reads the links of GitHub.                          *)
LEMMA WindowLinks ==
  ASSUME TypeOK, NEW n, NEW p
  PROVE  /\ n \in IssuesOf(Window, p) <=> <<n, p>> \in ReadLinks(Milestones)
         /\ p \in PullsLinkedTo(Window, n) <=> <<n, p>> \in ReadLinks(Milestones)
<1>1. Links(Window) = {LinkRecord(l) : l \in ReadLinks(Milestones)}
  BY WindowIsTrusted, WindowRecords DEF Links
<1>2. \A l \in ReadLinks(Milestones) :
        l = <<l[1], l[2]>> /\ LinkRecord(l).issue = l[1] /\ LinkRecord(l).pull = l[2]
  BY DEF ReadLinks, TypeOK, LinkRecord
<1>3. LinkRecord(<<n, p>>).issue = n /\ LinkRecord(<<n, p>>).pull = p
  BY DEF LinkRecord
<1>. QED  BY <1>1, <1>2, <1>3 DEF IssuesOf, PullsLinkedTo

(* It finds a record of every pull request that is related.                *)
LEMMA WindowPulls ==
  ASSUME TypeOK, NEW p \in RelatedPulls(Milestones)
  PROVE  \E q \in PullsOf(Window) : q.number = p
<1>1. PullRecord(p) \in Window.pulls /\ PullRecord(p).number = p
  BY WindowRecords
<1>2. Unmilestoned(PullRecord(p)) \in PullsOf(Window)
  BY <1>1, WindowIsTrusted
<1>3. Unmilestoned(PullRecord(p)).number = p
  BY <1>1, WindowIsTyped DEF Unmilestoned, EvidenceOK, PullRecords
<1>. QED  BY <1>2, <1>3

(* Its candidates were merged into the previous branch.                    *)
LEMMA WindowCandidates ==
  ASSUME TypeOK, NEW p
  PROVE  (\E q \in BackmergeCandidates(Window) : q.number = p) <=>
           /\ p \in ListedPulls(Milestones)
           /\ pulls[p].milestone = PreviousMilestone
           /\ MergedTo(p, PreviousBranch)
<1>1. EvidenceOK(Window) /\ FaithfulPulls(Window)
  BY WindowIsTyped, WindowIsFaithful DEF Faithful
<1>2. PreviousItems(Window) =
        {x \in PullItems(Window) : x.milestone = PreviousMilestone}
  BY WindowIsTrusted DEF PreviousItems
<1>3. ASSUME NEW q \in BackmergeCandidates(Window), q.number = p
      PROVE  /\ p \in ListedPulls(Milestones)
             /\ pulls[p].milestone = PreviousMilestone
             /\ MergedTo(p, PreviousBranch)
  <2>1. PICK x \in PullItems(Window) : x.milestone = PreviousMilestone /\ x.number = p
    BY <1>2, <1>3 DEF BackmergeCandidates
  <2>2. q \in PullsOf(Window) /\ MergedInto(q, PreviousBranch)
    BY DEF BackmergeCandidates
  <2>. QED  BY <1>1, <1>3, <2>1, <2>2, PullIsRead, WindowRecords
<1>4. ASSUME p \in ListedPulls(Milestones), pulls[p].milestone = PreviousMilestone,
             MergedTo(p, PreviousBranch)
      PROVE  \E q \in BackmergeCandidates(Window) : q.number = p
  <2>1. PICK q \in PullsOf(Window) : q.number = p
    BY <1>4, WindowPulls DEF RelatedPulls
  <2>2. MergedInto(q, PreviousBranch)
    BY <1>1, <1>4, <2>1, PullIsRead
  <2>3. /\ PullItem(p) \in PreviousItems(Window) /\ PullItem(p).number = p
        /\ PullItem(p).state = "closed"
    BY <1>2, <1>4, WindowRecords DEF StateOf, MergedTo
  <2>. QED  BY <2>1, <2>2, <2>3 DEF BackmergeCandidates
<1>. QED  BY <1>3, <1>4

(* It finds the issues of the previous milestone they are linked to.       *)
LEMMA WindowShipped ==
  ASSUME TypeOK, NEW p, NEW n
  PROVE  n \in Shipped(Window, p) <=>
           /\ <<n, p>> \in ReadLinks(Milestones)
           /\ issues[n].milestone = PreviousMilestone
           /\ n \notin DistrustedIssues(Window)
<1>1. EvidenceOK(Window) /\ FaithfulItems(Window)
  BY WindowIsTyped, WindowIsFaithful DEF Faithful
<1>2. \A m \in ListedIssues(Milestones) :
        /\ Safe(IssueItem(m)) \in ValidIssues(Window)
        /\ Safe(IssueItem(m)).number = m
        /\ Safe(IssueItem(m)).milestone = issues[m].milestone
  <2>. SUFFICES ASSUME NEW m \in ListedIssues(Milestones)
                PROVE  /\ Safe(IssueItem(m)) \in ValidIssues(Window)
                       /\ Safe(IssueItem(m)).number = m
                       /\ Safe(IssueItem(m)).milestone = issues[m].milestone
    OBVIOUS
  <2>1. IssueItem(m) \in ItemRecords
    BY <1>1, WindowRecords DEF EvidenceOK
  <2>2. IssueItem(m).milestone = issues[m].milestone
    BY DEF IssueItem
  <2>. QED  BY <2>1, <2>2, SafeKeeps, WindowRecords, ReadIsValid
<1>3. \A x \in ValidIssues(Window) :
        x.number \in ListedIssues(Milestones) /\ x.milestone = issues[x.number].milestone
  BY <1>1, <1>2, ValidIsRead
<1>4. <<n, p>> \in ReadLinks(Milestones) => n \in ListedIssues(Milestones)
  BY DEF ReadLinks
<1>. QED  BY <1>2, <1>3, <1>4, WindowLinks DEF Shipped

-----------------------------------------------------------------------------
(***************************************************************************)
(* NoFalseBlame, one family at a time: what is said of an issue or a pull  *)
(* request whatever is wrong was to be said of it before.                  *)
(***************************************************************************)
LEMMA NoFalseBlocker ==
  ASSUME TypeOK, NEW e, Sane(e), NEW f \in EvaluateBlockers(e).findings
  PROVE  f \in EvaluateBlockers(Window).findings
<1>1. PICK x \in ValidIssues(e) :
        /\ InCurrentRelease(x) /\ "blocker" \in x.labels
        /\ f = Blocking("blockers.open_release_blocker", {x.number})
  BY DEF EvaluateBlockers
<1>2. x \in ValidIssues(Window)
  BY InvalidIsRead DEF Sane, Faithful
<1>. QED  BY <1>1, <1>2 DEF EvaluateBlockers

(***************************************************************************)
(* The check records: as collected, or two of one run, of which none is    *)
(* usable.                                                                 *)
(***************************************************************************)
LEMMA ChecksReadOrAside ==
  ASSUME TypeOK, NEW e, FaithfulChecks(e), NEW t, Traced(e, Window, t)
  PROVE  /\ \A c \in e.checks : c.run = RunOf[tip[CandidateBranch]]
         /\ \A c \in Window.checks : c.run = RunOf[tip[CandidateBranch]]
         /\ e.candidate = Window.candidate
         /\ \/ e.checks = Window.checks
            \/ e.checks # {} /\ Usable(e.checks, e.candidate) = {}
<1> DEFINE head == tip[CandidateBranch]
           run == RunOf[head]
           genuine == MigrationCheck(head)
<1>1. run > 0
  BY ReleaseAssumption DEF TypeOK, Branches
<1>2. \A c \in e.checks \cup Window.checks : c.run = run
  BY WindowIsFaithful DEF FaithfulChecks, Faithful
<1>3. e.candidate = Window.candidate
  BY DEF Traced
<1>4. Window.checks = {} \/ Window.checks = {genuine}
  BY DEF Window
<1>5. ASSUME e.checks # Window.checks
      PROVE  e.checks # {} /\ Usable(e.checks, e.candidate) = {}
  <2>1. e.checks # {} /\ Window.checks = {genuine} /\ genuine \in e.checks
    BY <1>4, <1>5 DEF Traced
  <2>2. PICK c \in e.checks : c # genuine
    BY <1>5, <2>1
  <2>. HIDE DEF genuine, run
  <2>3. \A b \in e.checks : ConflictingRun(e.checks, b)
    BY <1>1, <1>2, <2>1, <2>2 DEF ConflictingRun
  <2>. QED  BY <2>1, <2>3 DEF Usable, Quarantined, Sound
<1>. QED  BY <1>2, <1>3, <1>5

(* An issue the operations rule reads is as GitHub holds it.               *)
LEMMA OperationsAreRead ==
  ASSUME TypeOK, NEW e, Sane(e)
  PROVE  /\ OperationsIssues(e) \subseteq OperationsIssues(Window)
         /\ ReadableOperations(e) \subseteq ReadableOperations(Window)
         /\ \A x \in OperationsIssues(e) :
              x.number \notin InvalidOwners(e) => x.number \notin InvalidOwners(Window)
BY InvalidIsRead DEF Sane, Faithful, OperationsIssues, ReadableOperations

(* So is whatever it reports of that issue.                                *)
LEMMA NoFalseOperation ==
  ASSUME TypeOK, NEW e, Sane(e), NEW t, Traced(e, Window, t),
         NEW f \in OperationsFindings(e)
  PROVE  f \in OperationsFindings(Window)
<1>1. CASE f \in {Blocking("operations.owner_required", {x.number}) :
                    x \in {y \in OperationsIssues(e) :
                             y.owners = "none" /\ y.number \notin InvalidOwners(e)}}
  <2>1. PICK x \in OperationsIssues(e) :
          /\ x.owners = "none" /\ x.number \notin InvalidOwners(e)
          /\ f = Blocking("operations.owner_required", {x.number})
    BY <1>1
  <2>2. x \in OperationsIssues(Window) /\ x.number \notin InvalidOwners(Window)
    BY <2>1, OperationsAreRead
  <2>. QED  BY <2>1, <2>2 DEF OperationsFindings
<1>2. CASE f \in {Blocking("operations.section_required", {x.number}) :
                    x \in {y \in ReadableOperations(e) :
                             SectionTexts(y) \cap {"absent", "hollow"} # {}}}
  <2>1. PICK x \in ReadableOperations(e) :
          /\ SectionTexts(x) \cap {"absent", "hollow"} # {}
          /\ f = Blocking("operations.section_required", {x.number})
    BY <1>2
  <2>2. x \in ReadableOperations(Window)
    BY <2>1, OperationsAreRead
  <2>. QED  BY <2>1, <2>2 DEF OperationsFindings
<1>3. CASE f \in {Blocking("operations.migration_evidence_required", {x.number}) :
                    x \in UnprovedMigrations(e)}
  <2>1. PICK x \in UnprovedMigrations(e) :
          f = Blocking("operations.migration_evidence_required", {x.number})
    BY <1>3
  <2>2. x \in Migrations(e, "check") /\ ~Proved(e, x) /\ ~Undecided(e, x)
    BY DEF UnprovedMigrations
  <2>3. x \in Migrations(Window, "check")
    BY <2>2, OperationsAreRead DEF Migrations
  <2>4. ~Proved(Window, x) /\ ~Undecided(Window, x)
    <3>0. FaithfulChecks(e)
      BY DEF Sane, Faithful
    <3>1. CASE e.checks = Window.checks
      BY <2>2, <3>0, <3>1, ChecksReadOrAside DEF Proved, Undecided
    <3>2. CASE e.checks # {} /\ Usable(e.checks, e.candidate) = {}
      <4>1. x.body.migration.run # RunOf[tip[CandidateBranch]]
        BY <2>2, <3>0, <3>2, ChecksReadOrAside DEF Undecided
      <4>2. \A c \in Window.checks : c.run # x.body.migration.run
        BY <3>0, <4>1, ChecksReadOrAside
      <4>. QED  BY <4>2 DEF Proved, Undecided, Usable
    <3>. QED  BY <3>0, <3>1, <3>2, ChecksReadOrAside
  <2>5. x \in UnprovedMigrations(Window)
    BY <2>3, <2>4 DEF UnprovedMigrations
  <2>. QED  BY <2>1, <2>5 DEF OperationsFindings
<1>. QED  BY <1>1, <1>2, <1>3 DEF OperationsFindings

(* A candidate of the back-merge rule is one on GitHub.                    *)
LEMMA CandidateIsRead ==
  ASSUME TypeOK, NEW e, Sane(e), NEW q \in BackmergeCandidates(e)
  PROVE  \E r \in BackmergeCandidates(Window) : r.number = q.number
<1> DEFINE p == q.number
<1>1. PICK x \in PreviousItems(e) : x.number = p
  BY DEF BackmergeCandidates
<1>2. /\ x \in FitItems(e) /\ Alone(FitItems(e), x) /\ x.milestone = PreviousMilestone
      /\ p \notin UnfitItems(e)
  BY <1>1 DEF PreviousItems, ItemsOf, DistrustedPulls
<1>3. p \in ListedPulls(Milestones)
  BY <1>1, <1>2, NoneAmbiguous DEF Sane, Faithful, FitItems
<1>4. PICK z \in PullItems(e) : z.number = p /\ (z = PullItem(p) \/ ~WellFormed(z))
  BY <1>3 DEF Sane, Faithful, FaithfulItems
<1>5. z \in FitItems(e)
  BY <1>2, <1>4 DEF UnfitItems
<1>6. x = PullItem(p)
  BY <1>1, <1>2, <1>4, <1>5 DEF Alone, FitItems
<1>7. pulls[p].milestone = PreviousMilestone
  BY <1>2, <1>6, WindowRecords
<1>8. MergedTo(p, PreviousBranch)
  BY PullIsRead DEF BackmergeCandidates, Sane, Faithful
<1>. QED  BY <1>3, <1>7, <1>8, WindowCandidates

(* An issue it counts as shipped was shipped.                              *)
LEMMA ShippedIsRead ==
  ASSUME TypeOK, NEW e, Sane(e), NEW p, NEW n \in Shipped(e, p)
  PROVE  n \in Shipped(Window, p)
<1>0. EvidenceOK(e) /\ FaithfulItems(e) /\ FaithfulLinks(e)
  BY DEF Sane, Faithful
<1>1. PICK x \in ValidIssues(e) : x.number = n /\ x.milestone = PreviousMilestone
  BY DEF Shipped
<1>2. n \in ListedIssues(Milestones) /\ x = Safe(IssueItem(n)) /\ IssueItem(n) \in Issues(e)
  BY <1>0, <1>1, ValidIsRead
<1>3. issues[n].milestone = PreviousMilestone
  <2>1. IssueItem(n) \in ItemRecords
    BY <1>0, <1>2 DEF EvidenceOK, Issues
  <2>2. IssueItem(n).milestone = issues[n].milestone
    BY DEF IssueItem
  <2>. QED  BY <1>1, <1>2, <2>1, <2>2, SafeKeeps
<1>4. <<n, p>> \in ReadLinks(Milestones)
  <2>1. PICK l \in e.links : l.issue = n /\ l.pull = p
    BY DEF Shipped, IssuesOf, Links
  <2>. QED  BY <1>0, <1>2, <2>1 DEF FaithfulLinks, ReadLinks
<1>5. n \notin DistrustedIssues(Window)
  <2>1. n \notin InvalidOwners(e) /\ n \notin InvalidBodies(e)
    BY DEF Shipped, DistrustedIssues
  <2>. QED  BY <1>0, <1>1, <2>1, InvalidIsRead, WindowIsTrusted
<1>. QED  BY <1>3, <1>4, <1>5, WindowShipped

(* Where neither end is uncertain the rule reads the links of GitHub.      *)
LEMMA LinkIsTrusted ==
  ASSUME NEW e, Sane(e), NEW n, NEW p, <<n, p>> \in ReadLinks(Milestones),
         n \notin UncertainIssues(e) \/ p \notin UncertainPulls(e)
  PROVE  n \in IssuesOf(e, p) /\ p \in PullsLinkedTo(e, n)
<1>1. PICK l \in e.links : l.issue = n /\ l.pull = p
  BY DEF Sane, Faithful, FaithfulLinks
<1>2. Pair(l) \notin DistrustedPairs(e)
  BY <1>1 DEF UncertainIssues, UncertainPulls
<1>. QED  BY <1>1, <1>2 DEF IssuesOf, PullsLinkedTo, Links

(* Where nothing is shipped and nothing uncertain, nothing was.            *)
LEMMA NothingShipped ==
  ASSUME TypeOK, NEW e, Sane(e), NEW p, Shipped(e, p) = {}, ~ChainUncertain(e, p)
  PROVE  Shipped(Window, p) = {} /\ ~ChainUncertain(Window, p)
<1>0. EvidenceOK(e) /\ FaithfulItems(e) /\ FaithfulLinks(e)
  BY DEF Sane, Faithful
<1>1. ASSUME NEW n, <<n, p>> \in ReadLinks(Milestones)
      PROVE  \E x \in ValidIssues(e) : x.number = n /\ n \notin DistrustedIssues(e)
                                       /\ n \in IssuesOf(e, p)
  <2>1. n \in IssuesOf(e, p)
    BY <1>1, LinkIsTrusted DEF ChainUncertain
  <2>2. n \notin DistrustedIssues(e)
    BY <2>1 DEF ChainUncertain
  <2>3. PICK l \in Links(e) : l.issue = n
    BY <2>1 DEF IssuesOf
  <2>4. ToValidIssue(e, l)
    BY DEF Links, DistrustedPairs
  <2>. QED  BY <2>1, <2>2, <2>3, <2>4 DEF ToValidIssue
<1>2. ASSUME NEW n \in Shipped(Window, p)
      PROVE  FALSE
  <2>1. <<n, p>> \in ReadLinks(Milestones) /\ issues[n].milestone = PreviousMilestone
    BY WindowShipped
  <2>2. PICK x \in ValidIssues(e) : x.number = n /\ n \notin DistrustedIssues(e)
                                    /\ n \in IssuesOf(e, p)
    BY <1>1, <2>1
  <2>3. x = Safe(IssueItem(n)) /\ IssueItem(n) \in ItemRecords
    BY <1>0, <2>2, ValidIsRead DEF EvidenceOK, Issues
  <2>4. x.milestone = PreviousMilestone
    BY <2>1, <2>3, SafeKeeps DEF IssueItem
  <2>. QED  BY <2>2, <2>4 DEF Shipped
<1>3. IssuesOf(Window, p) \cap DistrustedIssues(Window) = {}
  <2>. SUFFICES ASSUME NEW n \in IssuesOf(Window, p)
                PROVE  n \notin DistrustedIssues(Window)
    OBVIOUS
  <2>1. PICK x \in ValidIssues(e) : x.number = n /\ n \notin DistrustedIssues(e)
    BY <1>1, WindowLinks
  <2>2. n \notin InvalidOwners(e) /\ n \notin InvalidBodies(e)
    BY <2>1 DEF DistrustedIssues
  <2>. QED  BY <1>0, <2>1, <2>2, InvalidIsRead, WindowIsTrusted
<1>4. UncertainPulls(Window) = {}
  BY WindowIsTrusted DEF UncertainPulls
<1>. QED  BY <1>2, <1>3, <1>4 DEF ChainUncertain

(* An issue it misses in main is missing there.                            *)
LEMMA MissingIsRead ==
  ASSUME TypeOK, NEW e, Sane(e), NEW p, NEW n \in MissingMain(e, p)
  PROVE  n \in MissingMain(Window, p)
<1>0. EvidenceOK(e) /\ FaithfulPulls(e) /\ EvidenceOK(Window) /\ FaithfulPulls(Window)
  BY WindowIsTyped, WindowIsFaithful DEF Sane, Faithful
<1>1. n \in Shipped(Window, p)
  BY ShippedIsRead DEF MissingMain
<1>2. ~ReachedMain(Window, n)
  <2>. SUFFICES ASSUME ReachedMain(Window, n)
                PROVE  FALSE
    OBVIOUS
  <2>1. PICK q \in TrustedPulls(Window, n) : MergedInto(q, Main)
    BY DEF ReachedMain
  <2>2. q \in PullsOf(Window) /\ q.number \in PullsLinkedTo(Window, n)
    BY DEF TrustedPulls
  <2>3. MergedTo(q.number, Main) /\ <<n, q.number>> \in ReadLinks(Milestones)
    BY <1>0, <2>1, <2>2, PullIsRead, WindowLinks
  <2>4. q.number \in PullsLinkedTo(e, n)
    BY <2>3, LinkIsTrusted DEF MissingMain, IssueUncertain
  <2>5. q.number \notin DistrustedPulls(e) /\ Recorded(e, q.number)
    BY <2>4 DEF MissingMain, IssueUncertain
  <2>6. PICK r \in PullsOf(e) : r.number = q.number
    BY <2>5 DEF Recorded
  <2>7. MergedInto(r, Main)
    BY <1>0, <2>3, <2>6, PullIsRead
  <2>8. ReachedMain(e, n)
    BY <2>4, <2>5, <2>6, <2>7 DEF ReachedMain, TrustedPulls
  <2>. QED  BY <2>8 DEF MissingMain
<1>3. ~IssueUncertain(Window, n)
  <2>1. n \notin UncertainIssues(Window)
    BY WindowIsTrusted DEF UncertainIssues
  <2>2. \A q \in PullsLinkedTo(Window, n) : Recorded(Window, q)
    <3>. SUFFICES ASSUME NEW q \in PullsLinkedTo(Window, n)
                  PROVE  Recorded(Window, q)
      OBVIOUS
    <3>1. <<n, q>> \in ReadLinks(Milestones)
      BY WindowLinks
    <3>2. q \in RelatedPulls(Milestones)
      BY <3>1 DEF RelatedPulls
    <3>. QED  BY <3>2, WindowPulls DEF Recorded
  <2>. QED  BY <2>1, <2>2, WindowIsTrusted DEF IssueUncertain
<1>. QED  BY <1>1, <1>2, <1>3 DEF MissingMain

(* What the back-merge rule reports, of whom.                              *)
ShipsNothing(e, q) ==
  q \in BackmergeCandidates(e) /\ Shipped(e, q.number) = {} /\ ~ChainUncertain(e, q.number)

IsMissing(e, q, n) == q \in BackmergeCandidates(e) /\ n \in MissingMain(e, q.number)

Accusation(e, f) ==
  \/ \E q : ShipsNothing(e, q) /\ f = Blocking(BackmergeRule, {q.number})
  \/ \E q, n : IsMissing(e, q, n) /\ f = Blocking(BackmergeRule, {q.number, n})

(* An accusation is what the back-merge rule reports.                      *)
LEMMA BackmergeFindingsOf ==
  ASSUME NEW e, NEW f
  PROVE  f \in BackmergeFindings(e) <=> Accusation(e, f)
<1>1. f \in {Blocking(BackmergeRule, {r.number}) :
               r \in {q \in BackmergeCandidates(e) :
                        /\ Shipped(e, q.number) = {}
                        /\ ~ChainUncertain(e, q.number)}}
        <=> \E q : ShipsNothing(e, q) /\ f = Blocking(BackmergeRule, {q.number})
  BY DEF ShipsNothing
<1>2. f \in UNION {{Blocking(BackmergeRule, {r.number, n}) :
                      n \in MissingMain(e, r.number)} : r \in BackmergeCandidates(e)}
        <=> \E q, n : IsMissing(e, q, n) /\ f = Blocking(BackmergeRule, {q.number, n})
  <2> DEFINE blamed(r) == {Blocking(BackmergeRule, {r.number, n}) :
                             n \in MissingMain(e, r.number)}
  <2>1. f \in UNION {blamed(r) : r \in BackmergeCandidates(e)}
          <=> \E r \in BackmergeCandidates(e) : f \in blamed(r)
    <3>. HIDE DEF blamed
    <3>. QED  OBVIOUS
  <2>2. \A r : f \in blamed(r) <=>
                \E n \in MissingMain(e, r.number) : f = Blocking(BackmergeRule, {r.number, n})
    OBVIOUS
  <2>. QED  BY <2>1, <2>2 DEF IsMissing
<1>. QED  BY <1>1, <1>2 DEF BackmergeFindings, Accusation

(* It accuses only whom it would have accused on GitHub.                   *)
LEMMA NoFalseBackmerge ==
  ASSUME TypeOK, NEW e, Sane(e), NEW f \in BackmergeFindings(e)
  PROVE  f \in BackmergeFindings(Window)
<1>1. CASE \E q : ShipsNothing(e, q) /\ f = Blocking(BackmergeRule, {q.number})
  <2>1. PICK q : ShipsNothing(e, q) /\ f = Blocking(BackmergeRule, {q.number})
    BY <1>1
  <2>2. PICK r \in BackmergeCandidates(Window) : r.number = q.number
    BY <2>1, CandidateIsRead DEF ShipsNothing
  <2>3. ShipsNothing(Window, r)
    BY <2>1, <2>2, NothingShipped DEF ShipsNothing
  <2>. QED  BY <2>1, <2>2, <2>3, BackmergeFindingsOf DEF Accusation
<1>2. CASE \E q, n : IsMissing(e, q, n) /\ f = Blocking(BackmergeRule, {q.number, n})
  <2>1. PICK q, n : IsMissing(e, q, n) /\ f = Blocking(BackmergeRule, {q.number, n})
    BY <1>2
  <2>2. PICK r \in BackmergeCandidates(Window) : r.number = q.number
    BY <2>1, CandidateIsRead DEF IsMissing
  <2>3. IsMissing(Window, r, n)
    BY <2>1, <2>2, MissingIsRead DEF IsMissing
  <2>. QED  BY <2>1, <2>2, <2>3, BackmergeFindingsOf DEF Accusation
<1>3. Accusation(e, f)
  BY BackmergeFindingsOf
<1>. QED  BY <1>1, <1>2, <1>3 DEF Accusation

(* Only the scope rules report what NoFalseBlame leaves out.               *)
LEMMA ScopeRulesOnly ==
  ASSUME NEW e, NEW f \in ScopeFindings(e)
  PROVE  f.rule \in ScopeRules
<1>1. ASSUME NEW rule, NEW numbers, f \in StuckAt(rule, numbers)
      PROVE  f.rule = rule
  BY <1>1 DEF StuckAt, Blocking, Finding
<1>. QED  BY <1>1 DEF ScopeFindings, ScopeRules

(* What the invariants say of an assessed snapshot.                        *)
LEMMA WhatIsKept ==
  ASSUME IInv, Kept, phase = "assessed"
  PROVE  /\ TypeOK /\ Sane(evidence) /\ Lineage
         /\ Traced(evidence, Window, touched)
         /\ truth = Said(Window)
         /\ verdict = Verdict(evidence)
         /\ Business(verdict.findings) = Said(evidence)
         /\ Business(truth) = truth
         /\ faults = 0 => evidence = Window
<1>1. PICK e, w, t : Gathered(e, w, t)
  BY DEF Kept
<1>2. /\ Traced(evidence, Window, touched) /\ truth = Said(Window)
      /\ faults = 0 => evidence = Window
  BY <1>1 DEF Gathered
<1>3. verdict = Verdict(evidence)
  BY DEF Kept
<1>4. Business(verdict.findings) = Said(evidence)
  BY <1>2, <1>3, VerdictSays DEF Traced
<1>5. \A f \in Said(Window) : f.severity = "BLOCKING"
  BY SaidUnfolded, OnlyBlockers
<1>6. Business(truth) = truth
  BY <1>2, <1>5 DEF Business
<1>. QED  BY <1>2, <1>3, <1>4, <1>6 DEF IInv, Kept

(***************************************************************************)
(* However many records are wrong, the blocker, operations and back-merge  *)
(* rules accuse no issue and no pull request that is in order.             *)
(***************************************************************************)
THEOREM NoFalseBlameHolds == Spec => []NoFalseBlame
<1>1. IInv /\ Kept => NoFalseBlame
  <2>. SUFFICES ASSUME IInv, Kept, phase = "assessed",
                       NEW f \in Business(verdict.findings), f.rule \notin ScopeRules
                PROVE  f \in truth
    BY DEF NoFalseBlame
  <2>1. f \in Said(evidence)
    BY WhatIsKept
  <2>2. f \notin ScopeFindings(evidence)
    BY ScopeRulesOnly
  <2>3. f \in Said(Window)
    BY <2>1, <2>2, SaidUnfolded, WhatIsKept, NoFalseBlocker, NoFalseOperation,
       NoFalseBackmerge
  <2>. QED  BY <2>3, WhatIsKept
<1>. QED  BY <1>1, Bookkeeping, PTL

-----------------------------------------------------------------------------
(***************************************************************************)
(* VerdictIsExact.  What GitHub answers to a comparison is coherent, and   *)
(* says whether the candidate contains a commit                            *)
(* (_is_coherent_comparison_matrix, _is_in_candidate).                     *)
(***************************************************************************)
LEMMA ComparisonIsCoherent ==
  ASSUME TypeOK, Lineage, NEW p, NEW base \in AllCommits, NEW head \in AllCommits,
         ancestry[base] # {}, ancestry[head] # {}
  PROVE  /\ Coherent(Comparison(p, base, head))
         /\ base \in ancestry[head] =>
              Comparison(p, base, head).status \in {"identical", "ahead"}
<1> DEFINE c == Comparison(p, base, head)
           a == Cardinality(Only(head, base))
           b == Cardinality(Only(base, head))
<1>1. /\ c.base = base /\ c.head = head
      /\ c.ahead = a /\ c.behind = b /\ c.total = a /\ c.listed = a
      /\ c.headListed = (a > 0)
      /\ c.status = IF base = head THEN "identical"
                    ELSE IF base \in ancestry[head] THEN "ahead"
                    ELSE IF head \in ancestry[base] THEN "behind"
                    ELSE "diverged"
      /\ c.mergeBase = IF base \in ancestry[head] THEN base
                       ELSE IF head \in ancestry[base] THEN head
                       ELSE Root
  BY DEF Comparison
<1>2. /\ base \in ancestry[base] /\ head \in ancestry[head]
      /\ Root \in ancestry[base] /\ Root \in ancestry[head]
      /\ IsFiniteSet(ancestry[base]) /\ IsFiniteSet(ancestry[head])
      /\ base \in ancestry[head] => ancestry[base] \subseteq ancestry[head]
      /\ head \in ancestry[base] => ancestry[head] \subseteq ancestry[base]
      /\ base \in ancestry[head] /\ head \in ancestry[base] => base = head
  BY DEF Lineage, Made
<1>3. /\ IsFiniteSet(Only(head, base)) /\ IsFiniteSet(Only(base, head))
      /\ head \notin ancestry[base] => Only(head, base) # {}
      /\ base \notin ancestry[head] => Only(base, head) # {}
      /\ head \in ancestry[base] => Only(head, base) = {}
      /\ base \in ancestry[head] => Only(base, head) = {}
  <2>1. Only(head, base) \in SUBSET ancestry[head] /\ Only(base, head) \in SUBSET ancestry[base]
    BY DEF Only
  <2>2. IsFiniteSet(Only(head, base)) /\ IsFiniteSet(Only(base, head))
    BY <1>2, <2>1, FS_Subset
  <2>. QED  BY <1>2, <2>2 DEF Only
<1>4. a \in Nat /\ b \in Nat
  BY <1>3, FS_CardinalityType
<1>5. (a = 0 <=> Only(head, base) = {}) /\ (b = 0 <=> Only(base, head) = {})
  BY <1>3, FS_EmptySet
<1>. HIDE DEF a, b, c
<1>6. CASE base = head
  BY <1>1, <1>2, <1>3, <1>4, <1>5, <1>6 DEF Coherent, c
<1>7. CASE base # head /\ base \in ancestry[head]
  <2>1. a > 0 /\ b = 0
    BY <1>2, <1>3, <1>4, <1>5, <1>7
  <2>. QED  BY <1>1, <1>7, <2>1 DEF Coherent, c
<1>8. CASE base # head /\ base \notin ancestry[head] /\ head \in ancestry[base]
  <2>1. a = 0 /\ b > 0
    BY <1>2, <1>3, <1>4, <1>5, <1>8
  <2>. QED  BY <1>1, <1>8, <2>1 DEF Coherent, c
<1>9. CASE base # head /\ base \notin ancestry[head] /\ head \notin ancestry[base]
  <2>1. a > 0 /\ b > 0 /\ Root # base /\ Root # head
    BY <1>2, <1>3, <1>4, <1>5, <1>9
  <2>. QED  BY <1>1, <1>9, <2>1 DEF Coherent, c
<1>. QED  BY <1>6, <1>7, <1>8, <1>9

(* Every comparison that is collected is sound.                            *)
LEMMA WindowComparisons ==
  ASSUME TypeOK, Lineage
  PROVE  /\ \A c \in Window.comparisons :
              /\ OnlyComparison(Window, c) /\ Identified(Window, c) /\ Coherent(c)
         /\ \A p \in RelatedPulls({CurrentMilestone}) :
              pulls[p].merge # None =>
                \E c \in Window.comparisons :
                  /\ c.pull = p /\ c.identified
                  /\ c.base = pulls[p].merge /\ c.head = Window.candidate
                  /\ pulls[p].merge \in ancestry[tip[CandidateBranch]] =>
                       c.status \in {"identical", "ahead"}
<1> DEFINE head == tip[CandidateBranch]
           merged == {q \in RelatedPulls({CurrentMilestone}) : pulls[q].merge # None}
<1>1. /\ Window.comparisons = {Comparison(p, pulls[p].merge, head) : p \in merged}
      /\ Window.candidate = head
  BY DEF Window
<1>2. head \in AllCommits /\ ancestry[head] # {}
  BY DEF TypeOK, Branches, AllCommits, Made
<1>3. \A p \in merged : pulls[p].merge \in AllCommits /\ ancestry[pulls[p].merge] # {}
  <2>. SUFFICES ASSUME NEW p \in merged
                PROVE  pulls[p].merge \in AllCommits /\ ancestry[pulls[p].merge] # {}
    OBVIOUS
  <2>1. p \in PullNumbers /\ pulls[p] # Absent
    BY DEF RelatedPulls, ListedPulls, ReadLinks, TypeOK
  <2>2. pulls[p].merge \in CommitIds \cup {Trial, None}
    BY <2>1 DEF TypeOK, Pulls
  <2>. QED  BY <2>1, <2>2 DEF Lineage, AllCommits
<1>4. \A p \in merged : p \in RelatedPulls(Milestones)
  BY DEF RelatedPulls, ListedPulls, ReadLinks, ListedIssues, Milestones
<1>5. \A p : /\ Comparison(p, pulls[p].merge, head).pull = p
             /\ Comparison(p, pulls[p].merge, head).base = pulls[p].merge
             /\ Comparison(p, pulls[p].merge, head).head = head
             /\ Comparison(p, pulls[p].merge, head).identified
  BY DEF Comparison
<1>. HIDE DEF head, merged
<1>6. \A p \in merged : Coherent(Comparison(p, pulls[p].merge, head))
  BY <1>2, <1>3, ComparisonIsCoherent
<1>7. \A c \in Window.comparisons : OnlyComparison(Window, c)
  BY <1>1, <1>5 DEF OnlyComparison
<1>8. \A c \in Window.comparisons : Identified(Window, c)
  <2>. SUFFICES ASSUME NEW p \in merged
                PROVE  Identified(Window, Comparison(p, pulls[p].merge, head))
    BY <1>1
  <2>1. PullRecord(p) \in Window.pulls /\ PullRecord(p).number = p
    BY <1>4, WindowRecords
  <2>2. \A r \in Window.pulls : r.number = p => r.merge = pulls[p].merge
    BY WindowRecords DEF PullRecord
  <2>. QED  BY <1>1, <1>5, <2>1, <2>2 DEF Identified
<1>9. \A p \in merged :
        pulls[p].merge \in ancestry[head] =>
          Comparison(p, pulls[p].merge, head).status \in {"identical", "ahead"}
  BY <1>2, <1>3, ComparisonIsCoherent
<1>10. ASSUME NEW p \in RelatedPulls({CurrentMilestone}), pulls[p].merge # None
       PROVE  \E c \in Window.comparisons :
                /\ c.pull = p /\ c.identified
                /\ c.base = pulls[p].merge /\ c.head = Window.candidate
                /\ pulls[p].merge \in ancestry[tip[CandidateBranch]] =>
                     c.status \in {"identical", "ahead"}
  <2>1. p \in merged
    BY <1>10 DEF merged
  <2>2. Comparison(p, pulls[p].merge, head) \in Window.comparisons
    BY <1>1, <2>1
  <2>3. pulls[p].merge \in ancestry[tip[CandidateBranch]] =>
          Comparison(p, pulls[p].merge, head).status \in {"identical", "ahead"}
    BY <1>9, <2>1 DEF head
  <2>. QED  BY <1>1, <1>5, <2>2, <2>3
<1>. QED  BY <1>1, <1>6, <1>7, <1>8, <1>10

(***************************************************************************)
(* Evidence that is what GitHub holds gives no reason for doubt, unless    *)
(* what an issue says cannot be made out.                                  *)
(***************************************************************************)
LEMMA NoScopeCodes ==
  ASSUME TypeOK, Lineage
  PROVE  ScopeCodes(Window) = {}
<1>1. MisplacedIssues(Window) = {}
  BY WindowRecords DEF MisplacedIssues, CurrentIssues, WellFormed
<1>2. MisplacedPulls(Window) = {}
  BY WindowRecords DEF MisplacedPulls, WellFormed
<1>3. \A k \in Window.links : ~Unlisted(Window, k) /\ k.url
  BY WindowRecords DEF LinkRecord, ReadLinks, Unlisted
<1>4. BadComparisons(Window) = {}
  BY WindowComparisons DEF BadComparisons
<1>. QED  BY <1>1, <1>2, <1>3, <1>4 DEF ScopeCodes, CodesAt

(* The collected check record raises no doubt.                             *)
LEMMA NoCheckCodes ==
  ASSUME TypeOK
  PROVE  EvidenceCodes(Window.checks, Window.candidate) = {}
<1> DEFINE head == tip[CandidateBranch]
           genuine == MigrationCheck(head)
<1>1. head \in CommitIds \cup {Root}
  BY DEF TypeOK, Branches
<1>2. CASE proof[head] = None
  <2>1. Window.checks = {}
    BY <1>2 DEF Window
  <2>. QED  BY <2>1 DEF EvidenceCodes
<1>3. CASE proof[head] # None
  <2>1. Window.checks = {genuine} /\ Window.candidate = head
    BY <1>3 DEF Window
  <2>2. genuine.conclusion \in Conclusions
    BY <1>1, <1>3, ReleaseAssumption DEF TypeOK, MigrationCheck
  <2>3. ValidIdentity(head, genuine) /\ ValidMatrix(genuine)
    BY <1>1, <2>2, ReleaseAssumption DEF MigrationCheck, ValidIdentity, ValidMatrix, Statuses
  <2>. HIDE DEF genuine, head
  <2>4. ~ConflictingRun({genuine}, genuine) /\ ~ConflictingName({genuine}, head, genuine)
    BY DEF ConflictingRun, ConflictingName
  <2>. QED  BY <2>1, <2>3, <2>4 DEF EvidenceCodes
<1>. QED  BY <1>2, <1>3

(* The records of the issues are those of GitHub.                          *)
LEMMA LegibleIsRead ==
  ASSUME TypeOK, Legible
  PROVE  /\ InvalidOwners(Window) = {} /\ InvalidBodies(Window) = {}
         /\ IssueCodes(Window) = {}
         /\ ValidIssues(Window) = Issues(Window)
<1>1. \A x \in Issues(Window) : x.owners # "invalid" /\ x.body.readable
  BY WindowRecords DEF Legible, IssueItem
<1>2. InvalidOwners(Window) = {} /\ InvalidBodies(Window) = {}
  BY <1>1 DEF InvalidOwners, InvalidBodies
<1>3. IssueCodes(Window) = {}
  BY ReadIsValid DEF IssueCodes, CodesAt
<1>4. \A x \in Issues(Window) : Safe(x) = x
  <2>. SUFFICES ASSUME NEW x \in Issues(Window)
                PROVE  Safe(x) = x
    OBVIOUS
  <2>1. x \in ItemRecords
    BY WindowIsTyped DEF EvidenceOK, Issues
  <2>2. Safe(x) = [x EXCEPT !.owners = x.owners, !.body = x.body]
    BY <1>1 DEF Safe
  <2>. QED  BY <2>1, <2>2 DEF ItemRecords
<1>5. ValidIssues(Window) = Issues(Window)
  BY <1>4, ReadIsValid DEF ValidIssues
<1>. QED  BY <1>2, <1>3, <1>5

(* An operations issue is an open one of the milestone.                    *)
LEMMA OperationsRecords ==
  ASSUME TypeOK, Legible
  PROVE  \A x \in OperationsIssues(Window) :
           /\ x.number \in IssueNumbers /\ Due(x.number)
           /\ "ops" \in issues[x.number].labels
           /\ x.owners = issues[x.number].owners /\ x.body = issues[x.number].body
<1>. SUFFICES ASSUME NEW x \in OperationsIssues(Window)
              PROVE  /\ x.number \in IssueNumbers /\ Due(x.number)
                     /\ "ops" \in issues[x.number].labels
                     /\ x.owners = issues[x.number].owners /\ x.body = issues[x.number].body
  OBVIOUS
<1>1. x \in Issues(Window) /\ InCurrentRelease(x) /\ "ops" \in x.labels
  BY LegibleIsRead DEF OperationsIssues
<1>2. PICK n \in ListedIssues(Milestones) : x = IssueItem(n)
  BY <1>1, WindowRecords
<1>. QED  BY <1>1, <1>2 DEF IssueItem, ListedIssues, Due, InCurrentRelease

(* Legible issues raise no doubt in the operations rules.                  *)
LEMMA NoOperationsCodes ==
  ASSUME TypeOK, Legible
  PROVE  OperationsCodes(Window) = {} /\ EvaluateBlockers(Window).codes = {}
<1>1. \A x \in ReadableOperations(Window) :
        /\ ~("conflict" \in SectionTexts(x)) /\ x.body.migration.is # "conflict"
        /\ x.body.migration.is # "prose"
  <2>. SUFFICES ASSUME NEW x \in ReadableOperations(Window)
                PROVE  /\ ~("conflict" \in SectionTexts(x)) /\ x.body.migration.is # "conflict"
                       /\ x.body.migration.is # "prose"
    OBVIOUS
  <2>1. /\ x.number \in IssueNumbers /\ Due(x.number)
        /\ "ops" \in issues[x.number].labels /\ x.body = issues[x.number].body
    BY OperationsRecords DEF ReadableOperations
  <2>. QED  BY <2>1 DEF Legible, SectionTexts
<1>2. {x.number : x \in {y \in ReadableOperations(Window) :
         \/ "conflict" \in SectionTexts(y)
         \/ y.body.migration.is = "conflict"}} = {}
  BY <1>1
<1>3. {x.number : x \in Migrations(Window, "prose")} = {}
  BY <1>1 DEF Migrations
<1>. QED  BY <1>2, <1>3, LegibleIsRead, NoCheckCodes
          DEF OperationsCodes, EvaluateBlockers, CodesAt

(* Nor do they in the back-merge rule.                                     *)
LEMMA NoBackmergeCodes ==
  ASSUME TypeOK, Legible
  PROVE  BackmergeCodes(Window) = {}
<1>1. \A x \in PreviousItems(Window) : Recorded(Window, x.number)
  <2>. SUFFICES ASSUME NEW x \in PreviousItems(Window)
                PROVE  Recorded(Window, x.number)
    OBVIOUS
  <2>1. x.number \in RelatedPulls(Milestones)
    BY WindowIsTrusted, WindowRecords DEF PreviousItems, RelatedPulls
  <2>. QED  BY <2>1, WindowPulls DEF Recorded
<1>2. \A n : \A q \in PullsLinkedTo(Window, n) : Recorded(Window, q)
  <2>. SUFFICES ASSUME NEW n, NEW q \in PullsLinkedTo(Window, n)
                PROVE  Recorded(Window, q)
    OBVIOUS
  <2>1. <<n, q>> \in ReadLinks(Milestones)
    BY WindowLinks
  <2>2. q \in RelatedPulls(Milestones)
    BY <2>1 DEF RelatedPulls
  <2>. QED  BY <2>2, WindowPulls DEF Recorded
<1>3. \A x \in PreviousItems(Window), r \in PullsOf(Window) :
        r.number = x.number /\ MergedInto(r, PreviousBranch) => x.state = "closed"
  <2>. SUFFICES ASSUME NEW x \in PreviousItems(Window), NEW r \in PullsOf(Window),
                       r.number = x.number, MergedInto(r, PreviousBranch)
                PROVE  x.state = "closed"
    OBVIOUS
  <2>1. x.number \notin Mismatched(Window)
    BY WindowIsTrusted
  <2>2. r.state = x.state
    BY <2>1 DEF Mismatched, PreviousItems
  <2>. QED  BY <2>2 DEF MergedInto
<1>4. {x.number : x \in {y \in PreviousItems(Window) : ~Recorded(Window, y.number)}}
      \cup {p \in UNION {PullsLinkedTo(Window, n) :
                           n \in UNION {Shipped(Window, r.number) :
                                          r \in BackmergeCandidates(Window)}} :
              p \notin DistrustedPulls(Window) /\ ~Recorded(Window, p)} = {}
  BY <1>1, <1>2
<1>5. {x.number : x \in {y \in PreviousItems(Window) :
         y.state # "closed" /\ \E r \in PullsOf(Window) :
           r.number = y.number /\ MergedInto(r, PreviousBranch)}} = {}
  BY <1>3
<1>6. {Code("link.invalid", {l.issue, l.pull}) :
          l \in {k \in Window.links :
                   Pair(k) \in DistrustedPairs(Window)
                   /\ (ToValidIssue(Window, k) \/ ~WellFormed(k)
                       \/ \A x \in Issues(Window) : x.number # k.issue)}} = {}
  BY WindowIsTrusted
<1>7. \A code : CodesAt(code, {}) = {}
  BY DEF CodesAt
<1>8. /\ UnfitItems(Window) \cup TwiceIn(FitItems(Window)) = {}
      /\ UnfitPulls(Window) \cup TwiceIn(FitPulls(Window)) = {}
  BY WindowIsTrusted
<1>. QED  BY <1>4, <1>5, <1>6, <1>7, <1>8, LegibleIsRead, WindowIsTrusted DEF BackmergeCodes

(***************************************************************************)
(* A release that is in order is accused of nothing.                       *)
(***************************************************************************)
LEMMA CurrentIsDue ==
  ASSUME NEW x \in CurrentIssues(Window)
  PROVE  /\ x.number \in IssueNumbers /\ Due(x.number) /\ x = IssueItem(x.number)
         /\ x.labels = issues[x.number].labels
<1>1. x \in Issues(Window) /\ InCurrentRelease(x)
  BY DEF CurrentIssues
<1>2. PICK n \in ListedIssues(Milestones) : x = IssueItem(n)
  BY <1>1, WindowRecords
<1>. QED  BY <1>1, <1>2 DEF IssueItem, ListedIssues, Due, InCurrentRelease

(* The scope rules read the links of GitHub.                               *)
LEMMA WindowLinked ==
  ASSUME TypeOK, NEW n, NEW p, <<n, p>> \in ReadLinks(Milestones)
  PROVE  p \in LinkedPulls(Window, n)
<1> DEFINE l == LinkRecord(<<n, p>>)
<1>1. l \in Window.links /\ l.issue = n /\ l.pull = p /\ l.url
  BY WindowRecords DEF LinkRecord
<1>2. \A j \in Window.links : j.issue = n /\ j.pull = p => j = l
  <2>. SUFFICES ASSUME NEW k \in ReadLinks(Milestones),
                       LinkRecord(k).issue = n, LinkRecord(k).pull = p
                PROVE  LinkRecord(k) = l
    BY WindowRecords
  <2>1. k = <<k[1], k[2]>> /\ k[1] = n /\ k[2] = p
    BY DEF ReadLinks, TypeOK, LinkRecord
  <2>. QED  BY <2>1
<1>. HIDE DEF l
<1>. QED  BY <1>1, <1>2 DEF LinkedPulls

(* A delivered change passes every stage of the scope rules.               *)
LEMMA DeliveredIsIncluded ==
  ASSUME TypeOK, Lineage, NEW n, Due(n), n \in IssueNumbers, Delivered(n)
  PROVE  IncludedPulls(Window, n) # {}
<1>1. PICK p \in PullNumbers :
        /\ <<n, p>> \in links
        /\ MergedTo(p, Main)
        /\ pulls[p].milestone = CurrentMilestone
        /\ pulls[p].merge \in ancestry[tip[CandidateBranch]]
  BY DEF Delivered
<1>2. pulls[p] # Absent
  BY <1>1 DEF TypeOK
<1>3. pulls[p].merge \in CommitIds /\ pulls[p].merge # None
  BY <1>1, <1>2, ReleaseAssumption DEF MergedTo, TypeOK
<1>4. /\ n \in ListedIssues({CurrentMilestone}) /\ n \in ListedIssues(Milestones)
      /\ p \in ListedPulls(Milestones)
      /\ <<n, p>> \in ReadLinks({CurrentMilestone})
      /\ <<n, p>> \in ReadLinks(Milestones)
      /\ p \in RelatedPulls({CurrentMilestone}) /\ p \in RelatedPulls(Milestones)
  BY <1>1, <1>2 DEF Due, ListedIssues, ListedPulls, ReadLinks, RelatedPulls, Milestones
<1> DEFINE r == PullRecord(p)
<1>5. r \in Window.pulls /\ r.number = p /\ Alone(Window.pulls, r) /\ r.url
  BY <1>4, WindowRecords DEF Alone, WellFormed
<1>6. /\ r.milestone = CurrentMilestone /\ r.base = Main /\ r.merged
      /\ r.merge = pulls[p].merge /\ r.state = "closed"
  BY <1>1 DEF PullRecord, MergedTo, StateOf
<1>7. ListedInMilestone(Window, p)
  <2>1. PullItem(p) \in PullItems(Window) /\ Alone(PullItems(Window), PullItem(p))
    BY <1>4, WindowRecords DEF Alone
  <2>. QED  BY <1>1, <2>1, WindowRecords DEF ListedInMilestone, WellFormed
<1>8. InCandidate(Window, r)
  <2>1. PICK c \in Window.comparisons :
          /\ c.pull = p /\ c.identified
          /\ c.base = pulls[p].merge /\ c.head = Window.candidate
          /\ c.status \in {"identical", "ahead"}
    BY <1>1, <1>3, <1>4, WindowComparisons
  <2>2. OnlyComparison(Window, c) /\ Coherent(c)
    BY WindowComparisons
  <2>. QED  BY <1>5, <1>6, <2>1, <2>2 DEF InCandidate
<1>9. p \in LinkedPulls(Window, n)
  BY <1>4, WindowLinked
<1>. HIDE DEF r
<1>10. r \in MilestonePulls(Window, n)
  BY <1>5, <1>6, <1>7, <1>9 DEF MilestonePulls
<1>11. r \in MergedPulls(Window, n)
  BY <1>3, <1>6, <1>10 DEF MergedPulls
<1>. QED  BY <1>8, <1>11 DEF IncludedPulls

(* Whoever passes the last stage passes all of them.                       *)
LEMMA StagesNest ==
  ASSUME NEW e, NEW n
  PROVE  /\ IncludedPulls(e, n) # {} => MergedPulls(e, n) # {}
         /\ MergedPulls(e, n) # {} => MilestonePulls(e, n) # {}
         /\ MilestonePulls(e, n) # {} => LinkedPulls(e, n) # {}
BY DEF IncludedPulls, MergedPulls, MilestonePulls

(* A release in order breaks no scope rule.                                *)
LEMMA NoScopeFindings ==
  ASSUME TypeOK, Lineage, InOrder
  PROVE  ScopeFindings(Window) = {}
<1>1. ASSUME NEW x \in CurrentIssues(Window)
      PROVE  /\ Typed(Window, x)
             /\ "code" \in x.labels => IncludedPulls(Window, x.number) # {}
  <2>1. /\ x.number \in IssueNumbers /\ Due(x.number) /\ x = IssueItem(x.number)
        /\ x.labels = issues[x.number].labels
    BY CurrentIsDue
  <2>2. IssueInOrder(x.number)
    BY <2>1 DEF InOrder
  <2>3. Alone(CurrentIssues(Window), x)
    BY CurrentIsDue DEF Alone
  <2>4. OneType(x)
    BY <2>1, <2>2 DEF IssueInOrder, OneType
  <2>5. "code" \in x.labels => Delivered(x.number)
    BY <2>1, <2>2 DEF IssueInOrder
  <2>. QED  BY <2>1, <2>3, <2>4, <2>5, DeliveredIsIncluded DEF Typed
<1>2. {x.number : x \in {y \in ScopedIssues(Window) : ~Typed(Window, y)}} = {}
  BY <1>1 DEF ScopedIssues
<1>3. \A n \in LinkSafe(Window) : IncludedPulls(Window, n) # {}
  BY <1>1 DEF LinkSafe, CodeChanges, ScopedIssues
<1>4. PullSafe(Window) \subseteq LinkSafe(Window) /\ CandidateSafe(Window) \subseteq LinkSafe(Window)
  BY DEF PullSafe, CandidateSafe
<1>5. /\ {n \in LinkSafe(Window) : LinkedPulls(Window, n) = {}} = {}
      /\ {n \in PullSafe(Window) : /\ LinkedPulls(Window, n) # {}
                                   /\ MilestonePulls(Window, n) = {}} = {}
      /\ {n \in PullSafe(Window) : /\ MilestonePulls(Window, n) # {}
                                   /\ MergedPulls(Window, n) = {}} = {}
      /\ {n \in CandidateSafe(Window) : /\ MergedPulls(Window, n) # {}
                                        /\ IncludedPulls(Window, n) = {}} = {}
  BY <1>3, <1>4, StagesNest
<1>6. \A rule : StuckAt(rule, {}) = {}
  BY DEF StuckAt
<1>. QED  BY <1>2, <1>5, <1>6 DEF ScopeFindings

(* Nor is it blocked, or badly prepared.                                   *)
LEMMA NoOperationsFindings ==
  ASSUME TypeOK, Legible, InOrder
  PROVE  OperationsFindings(Window) = {} /\ EvaluateBlockers(Window).findings = {}
<1>1. ASSUME NEW x \in OperationsIssues(Window)
      PROVE  Prepared(x)
  <2>1. /\ x.number \in IssueNumbers /\ Due(x.number)
        /\ "ops" \in issues[x.number].labels
        /\ x.owners = issues[x.number].owners /\ x.body = issues[x.number].body
    BY OperationsRecords
  <2>2. Prepared(issues[x.number])
    BY <2>1 DEF InOrder, IssueInOrder
  <2>. QED  BY <2>1, <2>2 DEF Prepared
<1>2. \A x \in OperationsIssues(Window) :
        x.owners # "none" /\ SectionTexts(x) \cap {"absent", "hollow"} = {}
  BY <1>1 DEF Prepared, SectionTexts
<1>3. ReadableOperations(Window) \subseteq OperationsIssues(Window)
  BY DEF ReadableOperations
<1>4. UnprovedMigrations(Window) = {}
  <2>. SUFFICES ASSUME NEW x \in Migrations(Window, "check")
                PROVE  Proved(Window, x)
    BY DEF UnprovedMigrations
  <2> DEFINE head == tip[CandidateBranch]
             genuine == MigrationCheck(head)
  <2>1. x.body.migration.run = RunOf[head] /\ proof[head] = "success"
    BY <1>1, <1>3 DEF Migrations, Prepared, MigrationProved
  <2>2. Window.checks = {genuine}
    BY <2>1 DEF Window, None
  <2>3. Usable(Window.checks, Window.candidate) = Window.checks
    <3>1. Snapshot(Window).checks = Window.checks /\ Snapshot(Window).candidate = Window.candidate
      BY DEF Snapshot
    <3>2. EvidenceCodes(Snapshot(Window).checks, Snapshot(Window).candidate) = {}
      BY <3>1, NoCheckCodes
    <3>. QED  BY <3>1, <3>2, CleanMeansUsable
  <2>4. genuine.run = RunOf[head] /\ Success(genuine)
    BY <2>1 DEF MigrationCheck, Success
  <2>. QED  BY <2>1, <2>2, <2>3, <2>4 DEF Proved
<1>5. OperationsFindings(Window) = {}
  BY <1>2, <1>3, <1>4 DEF OperationsFindings
<1>6. {y \in ValidIssues(Window) : InCurrentRelease(y) /\ "blocker" \in y.labels} = {}
  <2>. SUFFICES ASSUME NEW y \in ValidIssues(Window), InCurrentRelease(y)
                PROVE  "blocker" \notin y.labels
    OBVIOUS
  <2>1. y \in CurrentIssues(Window)
    BY LegibleIsRead DEF CurrentIssues
  <2>. QED  BY <2>1, CurrentIsDue DEF InOrder, IssueInOrder
<1>7. EvaluateBlockers(Window).findings = {}
  BY <1>6 DEF EvaluateBlockers
<1>. QED  BY <1>5, <1>7

(* What was shipped is among the links that are collected.                 *)
LEMMA ShippedInWindow ==
  ASSUME TypeOK, HasPrevious, NEW p \in PullNumbers, NEW n \in IssueNumbers, ShippedBy(p, n)
  PROVE  <<n, p>> \in ReadLinks(Milestones) /\ n \in ListedIssues(Milestones)
BY DEF ShippedBy, ReadLinks, ListedIssues, Milestones, TypeOK

(* Nor is anything shipped missing in main.                                *)
LEMMA NoBackmergeFindings ==
  ASSUME TypeOK, HasPrevious, Legible, BackmergeInOrder
  PROVE  BackmergeFindings(Window) = {}
<1>. SUFFICES ASSUME NEW f, Accusation(Window, f)
              PROVE  FALSE
  BY BackmergeFindingsOf
<1>0. /\ EvidenceOK(Window) /\ FaithfulPulls(Window)
      /\ DistrustedIssues(Window) = {}
  BY WindowIsTyped, WindowIsFaithful, WindowIsTrusted, LegibleIsRead DEF Faithful
<1>1. ASSUME NEW q \in BackmergeCandidates(Window)
      PROVE  /\ q.number \in PullNumbers
             /\ \E n \in IssueNumbers : ShippedBy(q.number, n)
             /\ \A n \in IssueNumbers : ShippedBy(q.number, n) => BackInMain(n)
  <2>1. /\ q.number \in ListedPulls(Milestones)
        /\ pulls[q.number].milestone = PreviousMilestone
        /\ MergedTo(q.number, PreviousBranch)
    BY WindowCandidates
  <2>. QED  BY <2>1 DEF ListedPulls, BackmergeInOrder
<1>2. ASSUME NEW q, ShipsNothing(Window, q)
      PROVE  FALSE
  <2>1. q \in BackmergeCandidates(Window) /\ Shipped(Window, q.number) = {}
    BY <1>2 DEF ShipsNothing
  <2>2. PICK n \in IssueNumbers : ShippedBy(q.number, n)
    BY <1>1, <2>1
  <2>3. n \in Shipped(Window, q.number)
    BY <1>0, <1>1, <2>1, <2>2, ShippedInWindow, WindowShipped DEF ShippedBy
  <2>. QED  BY <2>1, <2>3
<1>3. ASSUME NEW q, NEW n, IsMissing(Window, q, n)
      PROVE  FALSE
  <2>1. /\ q \in BackmergeCandidates(Window) /\ n \in Shipped(Window, q.number)
        /\ ~ReachedMain(Window, n)
    BY <1>3 DEF IsMissing, MissingMain
  <2>2. n \in IssueNumbers /\ n \in ListedIssues(Milestones) /\ ShippedBy(q.number, n)
    BY <2>1, WindowShipped DEF ShippedBy, ReadLinks, ListedIssues
  <2>3. PICK p \in PullNumbers : <<n, p>> \in links /\ MergedTo(p, Main)
    BY <1>1, <2>1, <2>2 DEF BackInMain
  <2>4. <<n, p>> \in ReadLinks(Milestones) /\ p \in RelatedPulls(Milestones)
    BY <2>2, <2>3 DEF ReadLinks, RelatedPulls
  <2>5. PICK r \in PullsOf(Window) : r.number = p
    BY <2>4, WindowPulls
  <2>6. MergedInto(r, Main)
    BY <1>0, <2>3, <2>5, PullIsRead
  <2>7. p \in PullsLinkedTo(Window, n) /\ p \notin DistrustedPulls(Window)
    BY <2>4, WindowLinks, WindowIsTrusted
  <2>8. ReachedMain(Window, n)
    BY <2>5, <2>6, <2>7 DEF ReachedMain, TrustedPulls
  <2>. QED  BY <2>1, <2>8
<1>. QED  BY <1>2, <1>3 DEF Accusation

(***************************************************************************)
(* What cannot be made out is doubted.                                     *)
(***************************************************************************)
LEMMA DoubtedOrLegible ==
  ASSUME TypeOK, EvaluateBlockers(Window).codes = {}, OperationsCodes(Window) = {}
  PROVE  Legible
<1>1. IssuesAreValid(Window)
  BY WindowIsTyped, IssuesValid
<1>2. \A n \in ListedIssues(Milestones) :
        issues[n].owners # "invalid" /\ issues[n].body.readable
  <2>. SUFFICES ASSUME NEW n \in ListedIssues(Milestones)
                PROVE  issues[n].owners # "invalid" /\ issues[n].body.readable
    OBVIOUS
  <2>1. IssueItem(n) \in Issues(Window)
    BY WindowRecords
  <2>2. IssueItem(n).owners # "invalid" /\ IssueItem(n).body.readable
    BY <1>1, <2>1 DEF IssuesAreValid
  <2>. QED  BY <2>2 DEF IssueItem
<1>3. ASSUME NEW n \in IssueNumbers, Due(n), "ops" \in issues[n].labels
      PROVE  LET body == issues[n].body
             IN  /\ "conflict" \notin {body.before, body.during, body.after}
                 /\ body.migration.is \notin {"conflict", "prose"}
  <2> DEFINE x == IssueItem(n)
  <2>1. n \in ListedIssues(Milestones)
    BY <1>3 DEF Due, ListedIssues, Milestones
  <2>2. x \in Issues(Window) /\ InCurrentRelease(x) /\ "ops" \in x.labels
    BY <1>3, <2>1, WindowRecords DEF IssueItem, InCurrentRelease, Due
  <2>3. x \in ReadableOperations(Window)
    BY <1>1, <2>2 DEF IssuesAreValid, OperationsIssues, ReadableOperations
  <2>4. CodesAt("operations.conflicting_fields",
          {y.number : y \in {z \in ReadableOperations(Window) :
             \/ "conflict" \in SectionTexts(z)
             \/ z.body.migration.is = "conflict"}}) = {}
    BY DEF OperationsCodes
  <2>5. CodesAt("migration.invalid_evidence",
          {y.number : y \in Migrations(Window, "prose")}) = {}
    BY DEF OperationsCodes
  <2>6. ~("conflict" \in SectionTexts(x)) /\ x.body.migration.is # "conflict"
    BY <2>3, <2>4, NoCodes
  <2>7. x.body.migration.is # "prose"
    <3>1. Migrations(Window, "prose") = {}
      BY <2>5, NoCodes
    <3>. QED  BY <2>3, <3>1 DEF Migrations
  <2>8. x.body = issues[n].body
    BY DEF IssueItem
  <2>. QED  BY <2>6, <2>7, <2>8 DEF SectionTexts
<1>. QED  BY <1>2, <1>3 DEF Legible

(* The verdict on what was collected is exact.                             *)
LEMMA VerdictOfWindow ==
  ASSUME TypeOK, ContainsItself, Lineage
  PROVE  Verdict(Window).status =
           IF ~Legible THEN "INSUFFICIENT_DATA"
           ELSE IF InOrder THEN "READY" ELSE "NOT_READY"
<1>0. /\ EvidenceOK(Window) /\ Faithful(Window)
      /\ \A c \in Window.checks : c.name = "migrate"
      /\ Window.candidate # NoSha
  <2>1. Window.candidate = tip[CandidateBranch]
    BY DEF Window
  <2>2. tip[CandidateBranch] # NoSha
    BY ReleaseAssumption DEF TypeOK, Branches, Root, NoSha
  <2>3. \A c \in Window.checks : c.name = "migrate"
    BY WindowIsTraced DEF Traced
  <2>. QED  BY <2>1, <2>2, <2>3, WindowIsTyped, WindowIsFaithful
<1>1. CASE ~Legible
  <2>1. Snapshot(Window).restCodes # {}
    BY <1>1, CodesUnfolded, DoubtedOrLegible
  <2>2. FromGitHub(Snapshot(Window))
    BY DEF Snapshot, FromGitHub
  <2>. QED  BY <1>1, <2>1, <2>2, SufficientMeansClean DEF Verdict
<1>2. CASE Legible
  <2>1. Snapshot(Window).restCodes = {}
    BY <1>2, CodesUnfolded, NoScopeCodes, NoOperationsCodes, NoBackmergeCodes
  <2>2. Verdict(Window).status = IF Said(Window) = {} THEN "READY" ELSE "NOT_READY"
    BY <1>0, <2>1, NoCheckCodes, VerdictSettles
  <2>3. Said(Window) = {} => InOrder
    BY <1>0, <2>2, ReadyIsInOrder
  <2>4. InOrder => Said(Window) = {}
    <3>1. ASSUME InOrder, NEW f \in Said(Window)
          PROVE  FALSE
      BY <1>2, <3>1, SaidUnfolded, NoScopeFindings, NoOperationsFindings,
         NoBackmergeFindings DEF InOrder
    <3>. QED  BY <3>1
  <2>. QED  BY <1>2, <2>2, <2>3, <2>4
<1>. QED  BY <1>1, <1>2

(***************************************************************************)
(* On evidence that is what GitHub holds the verdict is exact, whatever    *)
(* the size of the release: READY if and only if it is in order, and in    *)
(* doubt if and only if what an issue says cannot be made out.             *)
(***************************************************************************)
THEOREM VerdictIsExactHolds == Spec => []VerdictIsExact
<1>1. IInv /\ Kept => VerdictIsExact
  <2>. SUFFICES ASSUME IInv, Kept, phase = "assessed", faults = 0
                PROVE  verdict.status = IF ~Legible THEN "INSUFFICIENT_DATA"
                                        ELSE IF InOrder THEN "READY" ELSE "NOT_READY"
    BY DEF VerdictIsExact
  <2>1. TypeOK /\ ContainsItself /\ Lineage /\ verdict = Verdict(Window)
    BY WhatIsKept DEF IInv
  <2>. QED  BY <2>1, VerdictOfWindow
<1>. QED  BY <1>1, Bookkeeping, PTL

-----------------------------------------------------------------------------
(***************************************************************************)
(* QuarantineIsLocal.  Evidence d and evidence e agree on the numbers that *)
(* are not in t.  The relation is symmetric, so it is enough to show that  *)
(* what d says of numbers apart from t, e says too.                        *)
(***************************************************************************)
Agree(d, e, t) ==
  /\ EvidenceOK(d) /\ EvidenceOK(e)
  /\ d.candidate = e.candidate
  /\ \A x \in Differing(d.items, e.items) : x.number \in t
  /\ \A r \in Differing(d.pulls, e.pulls) : r.number \in t
  /\ \A l \in Differing(d.links, e.links) : l.issue \in t /\ l.pull \in t
  /\ \A c \in Differing(d.comparisons, e.comparisons) : c.pull \in t
  /\ d.checks # e.checks =>
       \A x \in d.items \cup e.items, c \in d.checks \cup e.checks :
         x.body.migration.run = c.run => x.number \in t
  /\ \A x \in d.items \cup e.items : x.source = x.number
  /\ \A r \in d.pulls \cup e.pulls :
       r.source = r.number \/ (r.source \in t /\ r.number \in t)
  /\ \A l \in d.links \cup e.links :
       l.source = Pair(l) /\ <<l.issue, l.pull>> \in links

(* Agreement is symmetric.                                                 *)
LEMMA AgreeIsSymmetric ==
  ASSUME NEW d, NEW e, NEW t, Agree(d, e, t)
  PROVE  Agree(e, d, t)
BY DEF Agree, Differing

(* The evidence agrees with what was collected outside the touched numbers.*)
LEMMA TracedMeansAgree ==
  ASSUME TypeOK, NEW e, Sane(e), NEW t, Traced(e, Window, t)
  PROVE  Agree(e, Window, t)
<1>1. EvidenceOK(e) /\ EvidenceOK(Window)
  BY WindowIsTyped DEF Sane
<1>2. Traced(Window, Window, t)
  BY WindowIsTraced
<1>3. FaithfulLinks(e) /\ FaithfulLinks(Window)
  BY WindowIsFaithful DEF Sane, Faithful
<1>4. ASSUME e.checks # Window.checks, NEW x \in e.items \cup Window.items,
             NEW c \in e.checks \cup Window.checks, x.body.migration.run = c.run
      PROVE  x.number \in t
  <2>1. c \in e.checks
    BY DEF Traced
  <2>2. CASE x \in Window.items
    BY <1>4, <2>1, <2>2 DEF Traced
  <2>3. CASE x \notin Window.items
    BY <2>3 DEF Traced, Differing
  <2>. QED  BY <2>2, <2>3
<1>5. \A r \in e.pulls \cup Window.pulls :
        r.source = r.number \/ (r.source \in t /\ r.number \in t)
  BY DEF Traced, Differing
<1>6. \A l \in e.links \cup Window.links :
        l.source = Pair(l) /\ <<l.issue, l.pull>> \in links
  BY <1>2, <1>3 DEF Traced, FaithfulLinks
<1>7. \A x \in e.items \cup Window.items : x.source = x.number
  BY <1>2 DEF Traced
<1>8. \A r \in Differing(e.pulls, Window.pulls) : r.number \in t
  BY DEF Traced
<1>. QED  BY <1>1, <1>4, <1>5, <1>6, <1>7, <1>8 DEF Agree, Traced

(* A number whose whole chain is outside t.                                *)
Apart(n, t) ==
  /\ n \notin t
  /\ \A m : <<m, n>> \in links \/ <<n, m>> \in links => m \notin t

(* A number of a chain outside t is apart from t.                          *)
LEMMA ChainIsApart ==
  ASSUME NEW numbers, NEW t, Chain(numbers) \cap t = {}, NEW n \in numbers
  PROVE  Apart(n, t)
<1>1. \A m : <<m, n>> \in links => m \in Chain(numbers)
  <2>. SUFFICES ASSUME NEW m, <<m, n>> \in links
                PROVE  m \in Chain(numbers)
    OBVIOUS
  <2>1. <<m, n>> \in {k \in links : k[2] \in numbers} /\ <<m, n>>[1] = m
    OBVIOUS
  <2>. QED  BY <2>1 DEF Chain
<1>2. \A m : <<n, m>> \in links => m \in Chain(numbers)
  <2>. SUFFICES ASSUME NEW m, <<n, m>> \in links
                PROVE  m \in Chain(numbers)
    OBVIOUS
  <2>1. <<n, m>> \in {k \in links : k[1] \in numbers} /\ <<n, m>>[2] = m
    OBVIOUS
  <2>. QED  BY <2>1 DEF Chain
<1>3. n \in Chain(numbers)
  BY DEF Chain
<1>. QED  BY <1>1, <1>2, <1>3 DEF Apart

(***************************************************************************)
(* Both hold the same records of a number outside t, and put the same of   *)
(* its issue records aside.                                                *)
(***************************************************************************)
LEMMA SameRecords ==
  ASSUME NEW d, NEW e, NEW t, Agree(d, e, t), NEW n, n \notin t
  PROVE  /\ \A x : x.number = n => (x \in d.items <=> x \in e.items)
         /\ \A x : x.number = n => (x \in Issues(d) <=> x \in Issues(e))
         /\ \A x : x.number = n => (x \in PullItems(d) <=> x \in PullItems(e))
         /\ \A r : r.number = n => (r \in d.pulls <=> r \in e.pulls)
         /\ \A l : l.issue = n \/ l.pull = n => (l \in d.links <=> l \in e.links)
         /\ \A c : c.pull = n => (c \in d.comparisons <=> c \in e.comparisons)
BY DEF Agree, Differing, Issues, PullItems

(* And it puts the same of its issue records aside.                        *)
LEMMA SameIssues ==
  ASSUME NEW d, NEW e, NEW t, Agree(d, e, t), NEW n, n \notin t
  PROVE  /\ n \in Malformed(d) <=> n \in Malformed(e)
         /\ n \in Conflicting(d) <=> n \in Conflicting(e)
         /\ \A x : x.number = n => (x \in ValidIssues(d) <=> x \in ValidIssues(e))
         /\ n \in InvalidOwners(d) <=> n \in InvalidOwners(e)
         /\ n \in InvalidBodies(d) <=> n \in InvalidBodies(e)
<1>1. /\ \A x : x.number = n => (x \in Issues(d) <=> x \in Issues(e))
      /\ \A x : x.number = n => (x \in PullItems(d) <=> x \in PullItems(e))
  BY SameRecords
<1>2. n \in Ambiguous(d) <=> n \in Ambiguous(e)
  BY <1>1 DEF Ambiguous
<1>3. n \in Malformed(d) <=> n \in Malformed(e)
  BY <1>1, <1>2 DEF Malformed
<1>4. n \in Conflicting(d) <=> n \in Conflicting(e)
  BY <1>1, <1>2, <1>3 DEF Conflicting
<1>5. \A x \in Issues(d) \cup Issues(e) : Safe(x).number = x.number
  BY SafeKeeps DEF Agree, EvidenceOK, Issues
<1>6. ASSUME NEW x, x.number = n
      PROVE  x \in ValidIssues(d) <=> x \in ValidIssues(e)
  <2>1. ASSUME x \in ValidIssues(d)
        PROVE  x \in ValidIssues(e)
    <3>1. PICK y \in Issues(d) :
            x = Safe(y) /\ y.number \notin Malformed(d) /\ y.number \notin Conflicting(d)
      BY <2>1 DEF ValidIssues
    <3>2. y.number = n
      BY <1>5, <1>6, <3>1
    <3>. QED  BY <1>1, <1>3, <1>4, <3>1, <3>2 DEF ValidIssues
  <2>2. ASSUME x \in ValidIssues(e)
        PROVE  x \in ValidIssues(d)
    <3>1. PICK y \in Issues(e) :
            x = Safe(y) /\ y.number \notin Malformed(e) /\ y.number \notin Conflicting(e)
      BY <2>2 DEF ValidIssues
    <3>2. y.number = n
      BY <1>5, <1>6, <3>1
    <3>. QED  BY <1>1, <1>3, <1>4, <3>1, <3>2 DEF ValidIssues
  <2>. QED  BY <2>1, <2>2
<1>7. n \in InvalidOwners(d) <=> n \in InvalidOwners(e)
  BY <1>1, <1>6 DEF InvalidOwners
<1>8. n \in InvalidBodies(d) <=> n \in InvalidBodies(e)
  BY <1>1, <1>6 DEF InvalidBodies
<1>. QED  BY <1>3, <1>4, <1>6, <1>7, <1>8

(* The blocker rule reads the records of one issue.                        *)
LEMMA LocalBlocker ==
  ASSUME NEW d, NEW e, NEW t, Agree(d, e, t),
         NEW f \in EvaluateBlockers(d).findings, Chain(f.subject.numbers) \cap t = {}
  PROVE  f \in EvaluateBlockers(e).findings
<1>1. PICK x \in ValidIssues(d) :
        /\ InCurrentRelease(x) /\ "blocker" \in x.labels
        /\ f = Blocking("blockers.open_release_blocker", {x.number})
  BY DEF EvaluateBlockers
<1>2. f.subject.numbers = {x.number}
  BY <1>1 DEF Blocking, Finding
<1>3. x.number \notin t
  BY <1>2, ChainIsApart DEF Apart
<1>4. x \in ValidIssues(e)
  BY <1>3, SameIssues
<1>. QED  BY <1>1, <1>4 DEF EvaluateBlockers

(* The operations rules read them, and the check they cite.                *)
LEMMA LocalOperation ==
  ASSUME NEW d, NEW e, NEW t, Agree(d, e, t),
         NEW f \in OperationsFindings(d), Chain(f.subject.numbers) \cap t = {}
  PROVE  f \in OperationsFindings(e)
<1>0. ASSUME NEW rule, NEW n, f = Blocking(rule, {n})
      PROVE  n \notin t
  <2>1. f.subject.numbers = {n}
    BY <1>0 DEF Blocking, Finding
  <2>. QED  BY <2>1, ChainIsApart DEF Apart
<1>00. ASSUME NEW x, x.number \notin t
       PROVE  /\ x \in OperationsIssues(d) <=> x \in OperationsIssues(e)
              /\ x \in ReadableOperations(d) <=> x \in ReadableOperations(e)
  BY <1>00, SameIssues DEF OperationsIssues, ReadableOperations
<1>1. CASE f \in {Blocking("operations.owner_required", {x.number}) :
                    x \in {y \in OperationsIssues(d) :
                             y.owners = "none" /\ y.number \notin InvalidOwners(d)}}
  <2>1. PICK x \in OperationsIssues(d) :
          /\ x.owners = "none" /\ x.number \notin InvalidOwners(d)
          /\ f = Blocking("operations.owner_required", {x.number})
    BY <1>1
  <2>2. x \in OperationsIssues(e) /\ x.number \notin InvalidOwners(e)
    BY <1>0, <1>00, <2>1, SameIssues
  <2>. QED  BY <2>1, <2>2 DEF OperationsFindings
<1>2. CASE f \in {Blocking("operations.section_required", {x.number}) :
                    x \in {y \in ReadableOperations(d) :
                             SectionTexts(y) \cap {"absent", "hollow"} # {}}}
  <2>1. PICK x \in ReadableOperations(d) :
          /\ SectionTexts(x) \cap {"absent", "hollow"} # {}
          /\ f = Blocking("operations.section_required", {x.number})
    BY <1>2
  <2>2. x \in ReadableOperations(e)
    BY <1>0, <1>00, <2>1
  <2>. QED  BY <2>1, <2>2 DEF OperationsFindings
<1>3. CASE f \in {Blocking("operations.migration_evidence_required", {x.number}) :
                    x \in UnprovedMigrations(d)}
  <2>1. PICK x \in UnprovedMigrations(d) :
          f = Blocking("operations.migration_evidence_required", {x.number})
    BY <1>3
  <2>2. x \in Migrations(d, "check") /\ ~Proved(d, x) /\ ~Undecided(d, x)
    BY DEF UnprovedMigrations
  <2>3. x.number \notin t /\ x \in Migrations(e, "check")
    BY <1>0, <1>00, <2>1, <2>2 DEF Migrations
  <2>4. ~Proved(e, x) /\ ~Undecided(e, x)
    <3>1. CASE d.checks = e.checks
      BY <2>2, <3>1 DEF Proved, Undecided, Agree
    <3>2. CASE d.checks # e.checks
      <4>1. PICK y \in Issues(d) : x = Safe(y)
        BY <2>2 DEF Migrations, ReadableOperations, OperationsIssues, ValidIssues
      <4>2. /\ y \in d.items /\ y.number = x.number
            /\ x.body = IF y.body.readable THEN y.body ELSE Blank
        BY <4>1, SafeKeeps DEF Agree, EvidenceOK, Issues
      <4>3. x.body = y.body
        BY <2>2, <4>2 DEF Migrations, Blank
      <4>4. \A c \in e.checks : c.run # x.body.migration.run
        BY <2>3, <3>2, <4>2, <4>3 DEF Agree
      <4>. QED  BY <4>4 DEF Proved, Undecided, Usable
    <3>. QED  BY <3>1, <3>2
  <2>5. x \in UnprovedMigrations(e)
    BY <2>3, <2>4 DEF UnprovedMigrations
  <2>. QED  BY <2>1, <2>5 DEF OperationsFindings
<1>. QED  BY <1>1, <1>2, <1>3 DEF OperationsFindings

(***************************************************************************)
(* The stages of an issue whose chain is outside t.                        *)
(***************************************************************************)
LEMMA SameStages ==
  ASSUME NEW d, NEW e, NEW t, Agree(d, e, t), NEW n, Apart(n, t)
  PROVE  /\ LinkedPulls(d, n) = LinkedPulls(e, n)
         /\ MilestonePulls(d, n) = MilestonePulls(e, n)
         /\ MergedPulls(d, n) = MergedPulls(e, n)
         /\ IncludedPulls(d, n) = IncludedPulls(e, n)
<1>1. n \notin t /\ \A l : l.issue = n => (l \in d.links <=> l \in e.links)
  BY SameRecords DEF Apart
<1>2. LinkedPulls(d, n) = LinkedPulls(e, n)
  BY <1>1 DEF LinkedPulls
<1>3. \A p \in LinkedPulls(d, n) : p \notin t
  BY DEF LinkedPulls, Agree, Apart
<1>4. ASSUME NEW p, p \notin t
      PROVE  ListedInMilestone(d, p) <=> ListedInMilestone(e, p)
  BY <1>4, SameRecords DEF ListedInMilestone, Alone
<1>5. ASSUME NEW r, r.number \notin t
      PROVE  /\ r \in d.pulls <=> r \in e.pulls
             /\ Alone(d.pulls, r) <=> Alone(e.pulls, r)
  BY <1>5, SameRecords DEF Alone
<1>6. MilestonePulls(d, n) = MilestonePulls(e, n)
  BY <1>2, <1>3, <1>4, <1>5 DEF MilestonePulls
<1>7. MergedPulls(d, n) = MergedPulls(e, n)
  BY <1>6 DEF MergedPulls
<1>8. ASSUME NEW r \in MergedPulls(d, n)
      PROVE  InCandidate(d, r) <=> InCandidate(e, r)
  <2>1. r.number \notin t
    BY <1>3 DEF MergedPulls, MilestonePulls
  <2>2. \A c : c.pull = r.number => (c \in d.comparisons <=> c \in e.comparisons)
    BY <2>1, SameRecords
  <2>3. \A c : c.pull = r.number => (OnlyComparison(d, c) <=> OnlyComparison(e, c))
    BY <2>2 DEF OnlyComparison
  <2>4. d.candidate = e.candidate
    BY DEF Agree
  <2>. QED  BY <2>2, <2>3, <2>4 DEF InCandidate
<1>9. IncludedPulls(d, n) = IncludedPulls(e, n)
  BY <1>7, <1>8 DEF IncludedPulls
<1>. QED  BY <1>2, <1>6, <1>7, <1>9

(* It is left out of the same stages.                                      *)
LEMMA SameDoubts ==
  ASSUME NEW d, NEW e, NEW t, Agree(d, e, t), NEW n, Apart(n, t)
  PROVE  /\ \A x : x.number = n => (x \in ScopedIssues(d) <=> x \in ScopedIssues(e))
         /\ \A x : x.number = n => (Typed(d, x) <=> Typed(e, x))
         /\ n \in LinkSafe(d) <=> n \in LinkSafe(e)
         /\ n \in PullSafe(d) <=> n \in PullSafe(e)
         /\ n \in CandidateSafe(d) <=> n \in CandidateSafe(e)
<1>1. n \notin t
  BY DEF Apart
<1>2. \A x : x.number = n => (x \in CurrentIssues(d) <=> x \in CurrentIssues(e))
  BY <1>1, SameRecords DEF CurrentIssues
<1>3. n \in MisplacedIssues(d) <=> n \in MisplacedIssues(e)
  BY <1>2 DEF MisplacedIssues
<1>4. \A x : x.number = n => (x \in ScopedIssues(d) <=> x \in ScopedIssues(e))
  BY <1>2, <1>3 DEF ScopedIssues
<1>5. \A x : x.number = n => (Typed(d, x) <=> Typed(e, x))
  BY <1>2 DEF Typed, Alone
<1>6. n \in {x.number : x \in CodeChanges(d)} <=> n \in {x.number : x \in CodeChanges(e)}
  BY <1>4, <1>5 DEF CodeChanges
<1>7. n \in BadLinkIssues(d) <=> n \in BadLinkIssues(e)
  <2>1. \A l : l.issue = n => (l \in d.links <=> l \in e.links)
    BY <1>1, SameRecords
  <2>2. \A l : l.issue = n => (Unlisted(d, l) <=> Unlisted(e, l))
    BY <1>1, SameRecords DEF Unlisted
  <2>. QED  BY <2>1, <2>2 DEF BadLinkIssues, BadLinks
<1>8. n \in LinkSafe(d) <=> n \in LinkSafe(e)
  BY <1>6, <1>7 DEF LinkSafe
<1>9. ASSUME NEW p
      PROVE  /\ n \in LinkedIssues(d, p) <=> n \in LinkedIssues(e, p)
             /\ n \in LinkedIssues(d, p) => p \notin t
  <2>1. \A l : l.issue = n => (l \in d.links <=> l \in e.links)
    BY <1>1, SameRecords
  <2>2. \A l \in d.links : l.issue = n /\ l.pull = p => p \notin t
    BY DEF Agree, Apart
  <2>. QED  BY <1>2, <2>1, <2>2 DEF LinkedIssues
<1>10. ASSUME NEW p, p \notin t
       PROVE  p \in MisplacedPulls(d) <=> p \in MisplacedPulls(e)
  BY <1>10, SameRecords DEF MisplacedPulls
<1>11. n \in BadPullIssues(d) <=> n \in BadPullIssues(e)
  <2>1. \A s : n \in BadPullIssues(s) <=> \E p \in MisplacedPulls(s) : n \in LinkedIssues(s, p)
    BY DEF BadPullIssues
  <2>. QED  BY <1>9, <1>10, <2>1
<1>12. ASSUME NEW c, c.pull \notin t
       PROVE  c \in BadComparisons(d) <=> c \in BadComparisons(e)
  <2>1. \A b : b.pull = c.pull => (b \in d.comparisons <=> b \in e.comparisons)
    BY <1>12, SameRecords
  <2>2. OnlyComparison(d, c) <=> OnlyComparison(e, c)
    BY <2>1 DEF OnlyComparison
  <2>3. \A r : r.number = c.pull => (r \in d.pulls <=> r \in e.pulls)
    BY <1>12, SameRecords
  <2>4. \A r : r.number = c.pull => (Alone(d.pulls, r) <=> Alone(e.pulls, r))
    BY <2>3 DEF Alone
  <2>5. Identified(d, c) <=> Identified(e, c)
    BY <2>3, <2>4 DEF Identified, Agree
  <2>. QED  BY <2>1, <2>2, <2>5 DEF BadComparisons
<1>13. n \in BadComparisonIssues(d) <=> n \in BadComparisonIssues(e)
  <2>1. \A s : n \in BadComparisonIssues(s) <=>
                 \E c \in BadComparisons(s) : n \in LinkedIssues(s, c.pull)
    BY DEF BadComparisonIssues
  <2>. QED  BY <1>9, <1>12, <2>1
<1>. QED  BY <1>4, <1>5, <1>8, <1>11, <1>13 DEF PullSafe, CandidateSafe

(* The stage at which an issue is stuck.                                   *)
Stuck(e, f, n) ==
  \/ /\ f = Blocking("scope.exactly_one_type", {n})
     /\ \E x \in ScopedIssues(e) : x.number = n /\ ~Typed(e, x)
  \/ /\ f = Blocking("scope.code_change_requires_pr", {n})
     /\ n \in LinkSafe(e) /\ LinkedPulls(e, n) = {}
  \/ /\ f = Blocking("scope.pr_requires_milestone", {n})
     /\ n \in PullSafe(e) /\ LinkedPulls(e, n) # {} /\ MilestonePulls(e, n) = {}
  \/ /\ f = Blocking("scope.pr_requires_main_merge", {n})
     /\ n \in PullSafe(e) /\ MilestonePulls(e, n) # {} /\ MergedPulls(e, n) = {}
  \/ /\ f = Blocking("scope.change_requires_candidate_inclusion", {n})
     /\ n \in CandidateSafe(e) /\ MergedPulls(e, n) # {} /\ IncludedPulls(e, n) = {}

(* What the scope rules report is an issue that is stuck.                  *)
LEMMA ScopeFindingsOf ==
  ASSUME NEW e, NEW f
  PROVE  f \in ScopeFindings(e) <=> \E n : Stuck(e, f, n)
<1>1. \A rule, numbers : f \in StuckAt(rule, numbers) <=>
                           \E n \in numbers : f = Blocking(rule, {n})
  BY DEF StuckAt
<1>2. f \in ScopeFindings(e) <=>
        \/ f \in StuckAt("scope.exactly_one_type",
                   {x.number : x \in {y \in ScopedIssues(e) : ~Typed(e, y)}})
        \/ f \in StuckAt("scope.code_change_requires_pr",
                   {n \in LinkSafe(e) : LinkedPulls(e, n) = {}})
        \/ f \in StuckAt("scope.pr_requires_milestone",
                   {n \in PullSafe(e) : LinkedPulls(e, n) # {} /\ MilestonePulls(e, n) = {}})
        \/ f \in StuckAt("scope.pr_requires_main_merge",
                   {n \in PullSafe(e) : MilestonePulls(e, n) # {} /\ MergedPulls(e, n) = {}})
        \/ f \in StuckAt("scope.change_requires_candidate_inclusion",
                   {n \in CandidateSafe(e) : MergedPulls(e, n) # {} /\ IncludedPulls(e, n) = {}})
  BY DEF ScopeFindings
<1>3. \A n : n \in {x.number : x \in {y \in ScopedIssues(e) : ~Typed(e, y)}} <=>
               \E x \in ScopedIssues(e) : x.number = n /\ ~Typed(e, x)
  OBVIOUS
<1>4. ASSUME f \in ScopeFindings(e)
      PROVE  \E n : Stuck(e, f, n)
  <2>1. CASE f \in StuckAt("scope.exactly_one_type",
                   {x.number : x \in {y \in ScopedIssues(e) : ~Typed(e, y)}})
    BY <1>1, <1>3, <2>1 DEF Stuck
  <2>2. CASE f \in StuckAt("scope.code_change_requires_pr",
                   {n \in LinkSafe(e) : LinkedPulls(e, n) = {}})
    <3>1. PICK n \in {n \in LinkSafe(e) : LinkedPulls(e, n) = {}} :
            f = Blocking("scope.code_change_requires_pr", {n})
      BY <1>1, <2>2
    <3>2. Stuck(e, f, n)
      BY <3>1 DEF Stuck
    <3>. QED  BY <3>2
  <2>3. CASE f \in StuckAt("scope.pr_requires_milestone",
                   {n \in PullSafe(e) : LinkedPulls(e, n) # {} /\ MilestonePulls(e, n) = {}})
    <3>1. PICK n \in {n \in PullSafe(e) : LinkedPulls(e, n) # {} /\ MilestonePulls(e, n) = {}} :
            f = Blocking("scope.pr_requires_milestone", {n})
      BY <1>1, <2>3
    <3>2. Stuck(e, f, n)
      BY <3>1 DEF Stuck
    <3>. QED  BY <3>2
  <2>4. CASE f \in StuckAt("scope.pr_requires_main_merge",
                   {n \in PullSafe(e) : MilestonePulls(e, n) # {} /\ MergedPulls(e, n) = {}})
    <3>1. PICK n \in {n \in PullSafe(e) : MilestonePulls(e, n) # {} /\ MergedPulls(e, n) = {}} :
            f = Blocking("scope.pr_requires_main_merge", {n})
      BY <1>1, <2>4
    <3>2. Stuck(e, f, n)
      BY <3>1 DEF Stuck
    <3>. QED  BY <3>2
  <2>5. CASE f \in StuckAt("scope.change_requires_candidate_inclusion",
                   {n \in CandidateSafe(e) : MergedPulls(e, n) # {} /\ IncludedPulls(e, n) = {}})
    <3>1. PICK n \in {n \in CandidateSafe(e) : MergedPulls(e, n) # {} /\ IncludedPulls(e, n) = {}} :
            f = Blocking("scope.change_requires_candidate_inclusion", {n})
      BY <1>1, <2>5
    <3>2. Stuck(e, f, n)
      BY <3>1 DEF Stuck
    <3>. QED  BY <3>2
  <2>. QED  BY <1>2, <1>4, <2>1, <2>2, <2>3, <2>4, <2>5
<1>5. ASSUME NEW n, Stuck(e, f, n)
      PROVE  f \in ScopeFindings(e)
  <2>1. CASE /\ f = Blocking("scope.exactly_one_type", {n})
             /\ \E x \in ScopedIssues(e) : x.number = n /\ ~Typed(e, x)
    BY <1>1, <1>2, <1>3, <2>1
  <2>2. CASE /\ f = Blocking("scope.code_change_requires_pr", {n})
             /\ n \in LinkSafe(e) /\ LinkedPulls(e, n) = {}
    BY <1>1, <1>2, <2>2
  <2>3. CASE /\ f = Blocking("scope.pr_requires_milestone", {n})
             /\ n \in PullSafe(e) /\ LinkedPulls(e, n) # {} /\ MilestonePulls(e, n) = {}
    BY <1>1, <1>2, <2>3
  <2>4. CASE /\ f = Blocking("scope.pr_requires_main_merge", {n})
             /\ n \in PullSafe(e) /\ MilestonePulls(e, n) # {} /\ MergedPulls(e, n) = {}
    BY <1>1, <1>2, <2>4
  <2>5. CASE /\ f = Blocking("scope.change_requires_candidate_inclusion", {n})
             /\ n \in CandidateSafe(e) /\ MergedPulls(e, n) # {} /\ IncludedPulls(e, n) = {}
    BY <1>1, <1>2, <2>5
  <2>. QED  BY <1>5, <2>1, <2>2, <2>3, <2>4, <2>5 DEF Stuck
<1>. QED  BY <1>4, <1>5

(* So it is stuck at the same stage.                                       *)
LEMMA LocalScope ==
  ASSUME NEW d, NEW e, NEW t, Agree(d, e, t),
         NEW f \in ScopeFindings(d), Chain(f.subject.numbers) \cap t = {}
  PROVE  f \in ScopeFindings(e)
<1>1. PICK n : Stuck(d, f, n)
  BY ScopeFindingsOf
<1>2. f.subject.numbers = {n}
  BY <1>1 DEF Stuck, Blocking, Finding
<1>3. Apart(n, t)
  BY <1>2, ChainIsApart
<1>4. Stuck(e, f, n)
  BY <1>1, <1>3, SameStages, SameDoubts DEF Stuck
<1>. QED  BY <1>4, ScopeFindingsOf

(***************************************************************************)
(* The back-merge rule reads the pull requests and the links of a number   *)
(* outside t alike.                                                        *)
(***************************************************************************)
LEMMA SamePulls ==
  ASSUME NEW d, NEW e, NEW t, Agree(d, e, t), NEW p, p \notin t
  PROVE  /\ \A r : r.number = p => (r \in PullsOf(d) <=> r \in PullsOf(e))
         /\ \A x : x.number = p => (x \in ItemsOf(d) <=> x \in ItemsOf(e))
         /\ p \in DistrustedPulls(d) <=> p \in DistrustedPulls(e)
         /\ Recorded(d, p) <=> Recorded(e, p)
<1>1. /\ \A x : x.number = p => (x \in PullItems(d) <=> x \in PullItems(e))
      /\ \A r : r.number = p => (r \in d.pulls <=> r \in e.pulls)
  BY SameRecords
<1>2. \A x : x.number = p => (x \in FitItems(d) <=> x \in FitItems(e))
  BY <1>1 DEF FitItems
<1>3. \A x : x.number = p => (x \in ItemsOf(d) <=> x \in ItemsOf(e))
  BY <1>2 DEF ItemsOf, Alone
<1>4. /\ p \in UnfitItems(d) <=> p \in UnfitItems(e)
      /\ p \in TwiceIn(FitItems(d)) <=> p \in TwiceIn(FitItems(e))
  BY <1>1, <1>2 DEF UnfitItems, TwiceIn, Alone
<1>5. p \in UnfitPulls(d) <=> p \in UnfitPulls(e)
  BY <1>1 DEF UnfitPulls
<1>6. \A s \in {d, e} : \A r \in s.pulls : Unmilestoned(r).number = r.number
  BY DEF Agree, EvidenceOK, PullRecords, Unmilestoned
<1>7. \A s : FitPulls(s) = {Unmilestoned(r) : r \in {q \in s.pulls : WellFormed(q) /\ MergeIsCoherent(q)}}
  BY DEF FitPulls, Unmilestoned
<1>8. \A r : r.number = p => (r \in FitPulls(d) <=> r \in FitPulls(e))
  BY <1>1, <1>6, <1>7
<1>9. \A r : r.number = p => (r \in PullsOf(d) <=> r \in PullsOf(e))
  BY <1>8 DEF PullsOf, Alone
<1>10. p \in TwiceIn(FitPulls(d)) <=> p \in TwiceIn(FitPulls(e))
  BY <1>8 DEF TwiceIn, Alone
<1>11. Aliased(d.items) = {} /\ Aliased(e.items) = {}
  BY DEF Aliased, Agree
<1>12. p \notin Aliased(d.pulls) /\ p \notin Aliased(e.pulls)
  BY DEF Aliased, Agree
<1>13. p \in Mismatched(d) <=> p \in Mismatched(e)
  BY <1>3, <1>9 DEF Mismatched
<1>14. p \in DistrustedPulls(d) <=> p \in DistrustedPulls(e)
  BY <1>4, <1>5, <1>10, <1>11, <1>12, <1>13 DEF DistrustedPulls
<1>15. Recorded(d, p) <=> Recorded(e, p)
  BY <1>9 DEF Recorded
<1>. QED  BY <1>3, <1>9, <1>14, <1>15

(* The candidates of a number outside t are the same.                      *)
LEMMA SameCandidates ==
  ASSUME NEW d, NEW e, NEW t, Agree(d, e, t), NEW q, q.number \notin t
  PROVE  q \in BackmergeCandidates(d) <=> q \in BackmergeCandidates(e)
<1>1. \A x : x.number = q.number => (x \in PreviousItems(d) <=> x \in PreviousItems(e))
  BY SamePulls DEF PreviousItems
<1>. QED  BY <1>1, SamePulls DEF BackmergeCandidates

(* So are the links of an issue outside t, and its doubts.                 *)
LEMMA SameLinks ==
  ASSUME NEW d, NEW e, NEW t, Agree(d, e, t)
  PROVE  /\ \A l : l.issue \notin t => (l \in Links(d) <=> l \in Links(e))
         /\ \A n : n \notin t => (n \in UncertainIssues(d) <=> n \in UncertainIssues(e))
         /\ \A n : n \notin t => (n \in DistrustedIssues(d) <=> n \in DistrustedIssues(e))
<1>1. AliasedPairs(d) = {} /\ AliasedPairs(e) = {}
  BY DEF AliasedPairs, Agree
<1>2. ASSUME NEW l, l.issue \notin t
      PROVE  l \in d.links <=> l \in e.links
  BY <1>2, SameRecords
<1>3. ASSUME NEW n, n \notin t
      PROVE  (\E x \in ValidIssues(d) : x.number = n) <=> (\E x \in ValidIssues(e) : x.number = n)
  BY <1>3, SameIssues
<1>4. ASSUME NEW l, l.issue \notin t
      PROVE  Pair(l) \in DistrustedPairs(d) <=> Pair(l) \in DistrustedPairs(e)
  <2> DEFINE unfit(s, k) == \/ ~WellFormed(k) \/ ~ToValidIssue(s, k)
                            \/ \E j \in s.links : Pair(j) = Pair(k) /\ j # k
  <2>1. \A s \in {d, e} : Pair(l) \in DistrustedPairs(s) <=>
           \E k \in s.links : Pair(k) = Pair(l) /\ unfit(s, k)
    BY <1>1 DEF DistrustedPairs
  <2>2. \A k : Pair(k) = Pair(l) => k.issue = l.issue
    BY DEF Pair
  <2>3. \A k : Pair(k) = Pair(l) => (ToValidIssue(d, k) <=> ToValidIssue(e, k))
    BY <1>3, <1>4, <2>2 DEF ToValidIssue
  <2>4. \A k : Pair(k) = Pair(l) => (k \in d.links <=> k \in e.links)
    BY <1>2, <1>4, <2>2
  <2>5. \A k : Pair(k) = Pair(l) => (unfit(d, k) <=> unfit(e, k))
    BY <2>3, <2>4
  <2>. HIDE DEF unfit
  <2>. QED  BY <2>1, <2>4, <2>5
<1>5. \A l : l.issue \notin t => (l \in Links(d) <=> l \in Links(e))
  BY <1>2, <1>4 DEF Links
<1>6. \A n : n \notin t => (n \in UncertainIssues(d) <=> n \in UncertainIssues(e))
  BY <1>2, <1>4 DEF UncertainIssues
<1>7. Aliased(d.items) = {} /\ Aliased(e.items) = {}
  BY DEF Aliased, Agree
<1>8. \A n : n \notin t => (n \in DistrustedIssues(d) <=> n \in DistrustedIssues(e))
  BY <1>7, SameIssues DEF DistrustedIssues
<1>. QED  BY <1>5, <1>6, <1>8

(* So is what a pull request apart from t shipped.                         *)
LEMMA SameChain ==
  ASSUME NEW d, NEW e, NEW t, Agree(d, e, t), NEW p, Apart(p, t)
  PROVE  /\ IssuesOf(d, p) = IssuesOf(e, p)
         /\ Shipped(d, p) = Shipped(e, p)
         /\ ChainUncertain(d, p) <=> ChainUncertain(e, p)
<1>1. \A s \in {d, e} : \A l \in s.links : l.pull = p => l.issue \notin t
  BY DEF Agree, Apart
<1>2. \A l : l.pull = p => (l \in Links(d) <=> l \in Links(e))
  BY <1>1, SameLinks DEF Links
<1>3. IssuesOf(d, p) = IssuesOf(e, p)
  BY <1>2 DEF IssuesOf
<1>4. \A n \in IssuesOf(d, p) : n \notin t
  BY <1>1 DEF IssuesOf, Links
<1>5. \A n \in IssuesOf(d, p) : n \in DistrustedIssues(d) <=> n \in DistrustedIssues(e)
  BY <1>4, SameLinks
<1>6. ASSUME NEW n, n \notin t
      PROVE  \A x : x.number = n => (x \in ValidIssues(d) <=> x \in ValidIssues(e))
  BY <1>6, SameIssues
<1>7. Shipped(d, p) = Shipped(e, p)
  BY <1>3, <1>4, <1>5, <1>6 DEF Shipped
<1>8. p \in UncertainPulls(d) <=> p \in UncertainPulls(e)
  <2>1. p \notin t /\ \A l : l.pull = p => (l \in d.links <=> l \in e.links)
    BY SameRecords DEF Apart
  <2>2. \A s \in {d, e} : p \in UncertainPulls(s) <=>
          \E k \in s.links : k.pull = p /\ k \notin Links(s)
    BY DEF UncertainPulls, Links
  <2>. QED  BY <1>2, <2>1, <2>2
<1>9. ChainUncertain(d, p) <=> ChainUncertain(e, p)
  BY <1>3, <1>5, <1>8 DEF ChainUncertain
<1>. QED  BY <1>3, <1>7, <1>9

(* So is whether an issue apart from t reached main.                       *)
LEMMA SameReach ==
  ASSUME NEW d, NEW e, NEW t, Agree(d, e, t), NEW n, Apart(n, t)
  PROVE  /\ ReachedMain(d, n) <=> ReachedMain(e, n)
         /\ IssueUncertain(d, n) <=> IssueUncertain(e, n)
<1>1. n \notin t
  BY DEF Apart
<1>2. PullsLinkedTo(d, n) = PullsLinkedTo(e, n)
  BY <1>1, SameLinks DEF PullsLinkedTo
<1>3. \A p \in PullsLinkedTo(d, n) : p \notin t
  BY DEF PullsLinkedTo, Links, Agree, Apart
<1>4. TrustedPulls(d, n) = TrustedPulls(e, n)
  BY <1>2, <1>3, SamePulls DEF TrustedPulls
<1>5. ReachedMain(d, n) <=> ReachedMain(e, n)
  BY <1>4 DEF ReachedMain
<1>6. IssueUncertain(d, n) <=> IssueUncertain(e, n)
  BY <1>1, <1>2, <1>3, SameLinks, SamePulls DEF IssueUncertain
<1>. QED  BY <1>5, <1>6

(* So an accusation apart from t is the same.                              *)
LEMMA LocalBackmerge ==
  ASSUME NEW d, NEW e, NEW t, Agree(d, e, t),
         NEW f \in BackmergeFindings(d), Chain(f.subject.numbers) \cap t = {}
  PROVE  f \in BackmergeFindings(e)
<1>1. CASE \E q : ShipsNothing(d, q) /\ f = Blocking(BackmergeRule, {q.number})
  <2>1. PICK q : ShipsNothing(d, q) /\ f = Blocking(BackmergeRule, {q.number})
    BY <1>1
  <2>2. f.subject.numbers = {q.number}
    BY <2>1 DEF Blocking, Finding
  <2>3. Apart(q.number, t)
    BY <2>2, ChainIsApart
  <2>4. ShipsNothing(e, q)
    BY <2>1, <2>3, SameCandidates, SameChain DEF ShipsNothing, Apart
  <2>. QED  BY <2>1, <2>4, BackmergeFindingsOf DEF Accusation
<1>2. CASE \E q, n : IsMissing(d, q, n) /\ f = Blocking(BackmergeRule, {q.number, n})
  <2>1. PICK q, n : IsMissing(d, q, n) /\ f = Blocking(BackmergeRule, {q.number, n})
    BY <1>2
  <2>2. f.subject.numbers = {q.number, n}
    BY <2>1 DEF Blocking, Finding
  <2>3. Apart(q.number, t) /\ Apart(n, t)
    BY <2>2, ChainIsApart
  <2>4. n \in MissingMain(e, q.number)
    BY <2>1, <2>3, SameChain, SameReach DEF IsMissing, MissingMain
  <2>5. IsMissing(e, q, n)
    BY <2>1, <2>3, <2>4, SameCandidates DEF IsMissing, Apart
  <2>. QED  BY <2>1, <2>5, BackmergeFindingsOf DEF Accusation
<1>3. Accusation(d, f)
  BY BackmergeFindingsOf
<1>. QED  BY <1>1, <1>2, <1>3 DEF Accusation

(* What is said apart from t is the same.                                  *)
LEMMA LocalSaid ==
  ASSUME NEW d, NEW e, NEW t, Agree(d, e, t),
         NEW f \in Said(d), Chain(f.subject.numbers) \cap t = {}
  PROVE  f \in Said(e)
BY SaidUnfolded, LocalScope, LocalBlocker, LocalOperation, LocalBackmerge

(***************************************************************************)
(* A wrong record changes nothing of what is said of the issues and pull   *)
(* requests whose chain it is not in.                                      *)
(***************************************************************************)
THEOREM QuarantineIsLocalHolds == Spec => []QuarantineIsLocal
<1>1. IInv /\ Kept => QuarantineIsLocal
  <2>. SUFFICES ASSUME IInv, Kept, phase = "assessed", NEW f,
                       f \in (Business(verdict.findings) \ truth)
                               \cup (truth \ Business(verdict.findings))
                PROVE  Chain(f.subject.numbers) \cap touched # {}
    BY DEF QuarantineIsLocal
  <2>1. /\ Business(verdict.findings) = Said(evidence) /\ truth = Said(Window)
        /\ Agree(evidence, Window, touched)
    BY WhatIsKept, TracedMeansAgree
  <2>2. Agree(Window, evidence, touched)
    BY <2>1, AgreeIsSymmetric
  <2>3. ASSUME Chain(f.subject.numbers) \cap touched = {}
        PROVE  f \in Said(evidence) <=> f \in Said(Window)
    BY <2>1, <2>2, <2>3, LocalSaid
  <2>. QED  BY <2>1, <2>3
<1>. QED  BY <1>1, Bookkeeping, PTL

-----------------------------------------------------------------------------
(***************************************************************************)
(* NothingWithheldSilently.  Evidence that gives no reason for doubt holds *)
(* the issue records of GitHub, and accuses whatever is not in order.      *)
(***************************************************************************)
Undoubted(e) ==
  /\ ScopeCodes(e) = {} /\ EvaluateBlockers(e).codes = {} /\ OperationsCodes(e) = {}
  /\ HasPrevious => BackmergeCodes(e) = {}
  /\ Usable(e.checks, e.candidate) = e.checks

(* Sufficient data means that no rule reported a code.                     *)
LEMMA SufficientIsUndoubted ==
  ASSUME NEW e, Verdict(e).status # "INSUFFICIENT_DATA"
  PROVE  Undoubted(e)
<1> DEFINE s == Snapshot(e)
<1>1. FromGitHub(s) /\ s.checks = e.checks /\ s.candidate = e.candidate
  BY DEF Snapshot, FromGitHub
<1>2. EvidenceCodes(e.checks, e.candidate) = {} /\ s.restCodes = {}
  BY <1>1, SufficientMeansClean DEF Verdict
<1>3. Usable(e.checks, e.candidate) = e.checks
  BY <1>2, CleanMeansUsable
<1>. QED  BY <1>2, <1>3, CodesUnfolded DEF Undoubted

(* Then no issue record is put aside, and none is blanked.                 *)
LEMMA UndoubtedIssues ==
  ASSUME TypeOK, NEW e, Sane(e), Undoubted(e)
  PROVE  /\ IssuesAreValid(e)
         /\ Issues(e) = Issues(Window)
         /\ ValidIssues(e) = ValidIssues(Window)
         /\ InvalidOwners(Window) = {} /\ InvalidBodies(Window) = {}
<1>0. EvidenceOK(e) /\ FaithfulItems(e) /\ EvidenceOK(Window) /\ FaithfulItems(Window)
  BY WindowIsTyped, WindowIsFaithful DEF Sane, Faithful
<1>1. IssuesAreValid(e)
  BY <1>0, IssuesValid DEF Undoubted
<1>2. Issues(e) = Issues(Window)
  <2>1. ASSUME NEW x \in Issues(e)
        PROVE  x \in Issues(Window)
    BY <1>0, <1>1, NoneAmbiguous, IssueIsRead, WindowRecords
  <2>2. ASSUME NEW x \in Issues(Window)
        PROVE  x \in Issues(e)
    BY <1>0, <1>1, IssueIsRead, WindowRecords
  <2>. QED  BY <2>1, <2>2
<1>3. InvalidOwners(Window) = {} /\ InvalidBodies(Window) = {}
  BY <1>1, <1>2 DEF IssuesAreValid, InvalidOwners, InvalidBodies
<1>4. \A x \in ValidIssues(e) : x \in ValidIssues(Window)
  BY <1>0, InvalidIsRead
<1>5. ASSUME NEW x \in ValidIssues(Window)
      PROVE  x \in ValidIssues(e)
  <2>1. x.number \in ListedIssues(Milestones) /\ x = Safe(IssueItem(x.number))
    BY <1>0, ValidIsRead
  <2> DEFINE y == IssueItem(x.number)
  <2>2. y \in ValidIssues(e)
    BY <1>0, <1>1, <2>1, IssueIsRead DEF IssuesAreValid
  <2>3. y.number = x.number
    BY WindowRecords
  <2>4. y = Safe(IssueItem(y.number))
    BY <1>0, <2>2, ValidIsRead
  <2>. QED  BY <2>1, <2>2, <2>3, <2>4
<1>. QED  BY <1>1, <1>2, <1>3, <1>4, <1>5

(* A release blocker is reported.                                          *)
LEMMA BlockerIsReported ==
  ASSUME TypeOK, NEW e, Sane(e), Undoubted(e),
         NEW f \in EvaluateBlockers(Window).findings
  PROVE  f \in EvaluateBlockers(e).findings
BY UndoubtedIssues DEF EvaluateBlockers

(* So is an issue that is badly prepared.                                  *)
LEMMA OperationIsReported ==
  ASSUME TypeOK, NEW e, Sane(e), Undoubted(e), NEW t, Traced(e, Window, t),
         NEW f \in OperationsFindings(Window)
  PROVE  f \in OperationsFindings(e)
<1>1. OperationsIssues(e) = OperationsIssues(Window)
  BY UndoubtedIssues DEF OperationsIssues
<1>2. /\ InvalidOwners(e) = InvalidOwners(Window)
      /\ InvalidBodies(e) = InvalidBodies(Window)
  BY UndoubtedIssues DEF IssuesAreValid
<1>3. ReadableOperations(e) = ReadableOperations(Window)
  BY <1>1, <1>2 DEF ReadableOperations
<1>4. e.checks = Window.checks /\ e.candidate = Window.candidate
  BY ChecksReadOrAside DEF Undoubted, Sane, Faithful
<1>5. UnprovedMigrations(e) = UnprovedMigrations(Window)
  BY <1>3, <1>4 DEF UnprovedMigrations, Migrations, Proved, Undecided
<1>. QED  BY <1>1, <1>2, <1>3, <1>5 DEF OperationsFindings

(* An issue stuck at some stage is stuck at one, if maybe another.         *)
LEMMA StuckIsReported ==
  ASSUME TypeOK, ContainsItself, Lineage, NEW e, Sane(e), Undoubted(e),
         NEW f, NEW n, Stuck(Window, f, n)
  PROVE  \E g : Stuck(e, g, n)
<1>0. CurrentIssues(e) = CurrentIssues(Window)
  BY UndoubtedIssues DEF CurrentIssues
<1>1. /\ MisplacedIssues(e) = {}
      /\ BadLinkIssues(e) = {} /\ BadPullIssues(e) = {} /\ BadComparisonIssues(e) = {}
  BY ScopeIsTrusted DEF Undoubted
<1>2. ScopedIssues(e) = CurrentIssues(e)
  BY <1>1 DEF ScopedIssues
<1>3. \A x : Typed(e, x) <=> Typed(Window, x)
  BY <1>0 DEF Typed
<1>4. CASE \E x \in ScopedIssues(Window) : x.number = n /\ ~Typed(Window, x)
  <2>1. \E x \in ScopedIssues(e) : x.number = n /\ ~Typed(e, x)
    BY <1>0, <1>2, <1>3, <1>4 DEF ScopedIssues
  <2>. QED  BY <2>1 DEF Stuck
<1>5. CASE n \in LinkSafe(Window) /\ IncludedPulls(Window, n) = {}
  <2>1. PICK x \in CodeChanges(Window) : x.number = n
    BY <1>5 DEF LinkSafe
  <2>2. x \in CodeChanges(e) /\ x \in CurrentIssues(Window)
    BY <1>0, <1>2, <1>3, <2>1 DEF CodeChanges, ScopedIssues
  <2>3. n \in LinkSafe(e) /\ n \in PullSafe(e) /\ n \in CandidateSafe(e)
    BY <1>1, <2>1, <2>2 DEF LinkSafe, PullSafe, CandidateSafe
  <2>4. n \in IssueNumbers /\ Due(n)
    BY <2>1, <2>2, CurrentIsDue
  <2>5. IncludedPulls(e, n) = {}
    BY <1>5, <2>4, IncludedIsDelivered, DeliveredIsIncluded DEF Sane
  <2>. QED  BY <2>3, <2>5 DEF Stuck
<1>6. \/ \E x \in ScopedIssues(Window) : x.number = n /\ ~Typed(Window, x)
      \/ n \in LinkSafe(Window) /\ IncludedPulls(Window, n) = {}
  BY StagesNest DEF Stuck, PullSafe, CandidateSafe
<1>. QED  BY <1>4, <1>5, <1>6

(* So is what was shipped and is missing in main.                          *)
LEMMA BackmergeIsReported ==
  ASSUME TypeOK, HasPrevious, NEW e, Sane(e), Undoubted(e),
         NEW f \in BackmergeFindings(Window)
  PROVE  f \in BackmergeFindings(e)
<1>0. /\ EvidenceOK(e) /\ Faithful(e) /\ FaithfulLinks(e) /\ FaithfulPulls(e)
      /\ EvidenceOK(Window) /\ FaithfulPulls(Window)
  BY WindowIsTyped, WindowIsFaithful DEF Sane, Faithful
<1>1. IssuesAreValid(e) /\ NothingDistrusted(e)
  BY UndoubtedIssues, BackmergeIsTrusted DEF Undoubted
<1>2. DistrustedIssues(Window) = {}
  BY UndoubtedIssues, WindowIsTrusted
<1>3. UncertainIssues(e) = {} /\ UncertainPulls(e) = {}
  BY <1>1 DEF UncertainIssues, UncertainPulls, NothingDistrusted
<1>4. ASSUME NEW q \in BackmergeCandidates(Window)
      PROVE  /\ q.number \in PullNumbers
             /\ \E r \in BackmergeCandidates(e) : r.number = q.number
             /\ \A n : n \in Shipped(e, q.number) <=> n \in Shipped(Window, q.number)
  <2> DEFINE p == q.number
  <2>1. /\ p \in ListedPulls(Milestones)
        /\ pulls[p].milestone = PreviousMilestone
        /\ MergedTo(p, PreviousBranch)
    BY WindowCandidates
  <2>2. p \in PullNumbers /\ ShippedPull(p)
    BY <2>1 DEF ListedPulls, ShippedPull
  <2>3. \E r \in BackmergeCandidates(e) : r.number = p
    BY <1>0, <1>1, <2>2, ShippedIsCandidate
  <2>4. ASSUME NEW n
        PROVE  n \in Shipped(Window, p) <=> n \in IssueNumbers /\ ShippedBy(p, n)
    <3>1. n \in Shipped(Window, p) => n \in IssueNumbers /\ ShippedBy(p, n)
      BY WindowShipped DEF ReadLinks, ListedIssues, ShippedBy
    <3>2. n \in IssueNumbers /\ ShippedBy(p, n) => n \in Shipped(Window, p)
      BY <1>2, <2>2, ShippedInWindow, WindowShipped DEF ShippedBy
    <3>. QED  BY <3>1, <3>2
  <2>5. \A n : n \in Shipped(e, p) <=> n \in Shipped(Window, p)
    BY <1>0, <1>1, <2>2, <2>4, ShippedIsFound
  <2>. QED  BY <2>2, <2>3, <2>5
<1>5. CASE \E q : ShipsNothing(Window, q) /\ f = Blocking(BackmergeRule, {q.number})
  <2>1. PICK q : ShipsNothing(Window, q) /\ f = Blocking(BackmergeRule, {q.number})
    BY <1>5
  <2>2. PICK r \in BackmergeCandidates(e) : r.number = q.number
    BY <1>4, <2>1 DEF ShipsNothing
  <2>3. Shipped(e, r.number) = {}
    BY <1>4, <2>1, <2>2 DEF ShipsNothing
  <2>4. ~ChainUncertain(e, r.number)
    BY <1>1, <1>3 DEF ChainUncertain, NothingDistrusted
  <2>5. ShipsNothing(e, r)
    BY <2>2, <2>3, <2>4 DEF ShipsNothing
  <2>. QED  BY <2>1, <2>2, <2>5, BackmergeFindingsOf DEF Accusation
<1>6. CASE \E q, n : IsMissing(Window, q, n) /\ f = Blocking(BackmergeRule, {q.number, n})
  <2>1. PICK q, n : IsMissing(Window, q, n) /\ f = Blocking(BackmergeRule, {q.number, n})
    BY <1>6
  <2>2. PICK r \in BackmergeCandidates(e) : r.number = q.number
    BY <1>4, <2>1 DEF IsMissing
  <2>3. n \in Shipped(Window, q.number) /\ ~ReachedMain(Window, n)
    BY <2>1 DEF IsMissing, MissingMain
  <2>4. n \in Shipped(e, r.number) /\ n \in ListedIssues(Milestones)
    BY <1>4, <2>1, <2>2, <2>3, WindowShipped DEF IsMissing, ReadLinks
  <2>5. ASSUME NEW p \in PullsLinkedTo(e, n)
        PROVE  <<n, p>> \in ReadLinks(Milestones) /\ p \in RelatedPulls(Milestones)
    <3>1. PICK l \in e.links : l.issue = n /\ l.pull = p
      BY DEF PullsLinkedTo, Links
    <3>2. <<n, p>> \in ReadLinks(Milestones)
      BY <1>0, <2>4, <3>1 DEF FaithfulLinks, ReadLinks
    <3>. QED  BY <3>2 DEF RelatedPulls
  <2>6. ~ReachedMain(e, n)
    <3>. SUFFICES ASSUME ReachedMain(e, n)
                  PROVE  FALSE
      OBVIOUS
    <3>1. PICK x \in PullsOf(e) : MergedInto(x, Main) /\ x.number \in PullsLinkedTo(e, n)
      BY DEF ReachedMain, TrustedPulls
    <3>2. MergedTo(x.number, Main)
      BY <1>0, <3>1, PullIsRead
    <3>3. PICK y \in PullsOf(Window) : y.number = x.number
      BY <2>5, <3>1, WindowPulls
    <3>4. MergedInto(y, Main)
      BY <1>0, <3>2, <3>3, PullIsRead
    <3>5. y.number \in PullsLinkedTo(Window, n) /\ y.number \notin DistrustedPulls(Window)
      BY <2>5, <3>1, <3>3, WindowLinks, WindowIsTrusted
    <3>6. ReachedMain(Window, n)
      BY <3>3, <3>4, <3>5 DEF ReachedMain, TrustedPulls
    <3>. QED  BY <2>3, <3>6
  <2>7. ~IssueUncertain(e, n)
    <3>1. ASSUME NEW p \in PullsLinkedTo(e, n)
          PROVE  Recorded(e, p)
      <4>1. PICK x \in e.pulls : x.number = p
        BY <1>0, <2>5 DEF FaithfulPulls
      <4>2. Unmilestoned(x) \in PullsOf(e)
        BY <1>1 DEF NothingDistrusted
      <4>3. Unmilestoned(x).number = p
        BY <1>0, <4>1 DEF Unmilestoned, EvidenceOK, PullRecords
      <4>. QED  BY <4>2, <4>3 DEF Recorded
    <3>. QED  BY <1>1, <1>3, <3>1 DEF IssueUncertain, NothingDistrusted
  <2>8. IsMissing(e, r, n)
    BY <2>2, <2>4, <2>6, <2>7 DEF IsMissing, MissingMain
  <2>. QED  BY <2>1, <2>2, <2>8, BackmergeFindingsOf DEF Accusation
<1>7. Accusation(Window, f)
  BY BackmergeFindingsOf
<1>. QED  BY <1>5, <1>6, <1>7 DEF Accusation

(***************************************************************************)
(* A verdict that rests on sufficient data accuses every issue and every   *)
(* pull request that blocks the release on GitHub.                         *)
(***************************************************************************)
THEOREM NothingWithheldSilentlyHolds == Spec => []NothingWithheldSilently
<1>1. IInv /\ Kept => NothingWithheldSilently
  <2>. SUFFICES ASSUME IInv, Kept, phase = "assessed",
                       verdict.status # "INSUFFICIENT_DATA", NEW f \in Said(Window)
                PROVE  \E g \in Said(evidence) : g.subject = f.subject
    BY WhatIsKept DEF NothingWithheldSilently, Accused
  <2>1. /\ TypeOK /\ ContainsItself /\ Lineage /\ Sane(evidence)
        /\ Traced(evidence, Window, touched)
    BY WhatIsKept DEF IInv
  <2>2. Undoubted(evidence)
    BY WhatIsKept, SufficientIsUndoubted
  <2>3. CASE f \in ScopeFindings(Window)
    <3>1. PICK n : Stuck(Window, f, n)
      BY <2>3, ScopeFindingsOf
    <3>2. PICK g : Stuck(evidence, g, n)
      BY <2>1, <2>2, <3>1, StuckIsReported
    <3>3. f.subject = [numbers |-> {n}] /\ g.subject = [numbers |-> {n}]
      <4>1. \A e, h : Stuck(e, h, n) => \E rule : h = Blocking(rule, {n})
        BY DEF Stuck
      <4>2. \A rule : Blocking(rule, {n}).subject = [numbers |-> {n}]
        BY DEF Blocking, Finding
      <4>. QED  BY <3>1, <3>2, <4>1, <4>2
    <3>. QED  BY <3>2, <3>3, ScopeFindingsOf, SaidUnfolded
  <2>4. CASE f \notin ScopeFindings(Window)
    <3>1. f \in Said(evidence)
      BY <2>1, <2>2, <2>4, SaidUnfolded, BlockerIsReported, OperationIsReported,
         BackmergeIsReported
    <3>. QED  BY <3>1
  <2>. QED  BY <2>3, <2>4
<1>. QED  BY <1>1, Bookkeeping, PTL
=============================================================================
