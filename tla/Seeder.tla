------------------------------- MODULE Seeder -------------------------------
(***************************************************************************)
(* demo/seed_state.py: the script that builds the public demo repository,  *)
(* or repairs it, while it may be stopped at any request and people edit   *)
(* what it has made.                                                       *)
(*                                                                         *)
(* seed_repository keeps no state of its own: every run first looks at     *)
(* GitHub (the repository, one search per title marker, the refs), refuses *)
(* a topology it does not understand, and only then makes what is missing, *)
(* each request after the other.  Each action below is one request, or the *)
(* reads between two requests that change something; a run may stop after  *)
(* any of them, as when the request fails, its answer is lost or the       *)
(* process is killed.                                                      *)
(*                                                                         *)
(* A commit is what it is made from, because the script fixes author and   *)
(* date: the same parent and title make the same commit again.             *)
(***************************************************************************)
EXTENDS Naturals, Sequences, FiniteSets

CONSTANTS
  Milestones,    \* the titles in the order of their numbers
  Labels,        \* the managed labels of the repository
  Issues,        \* the keys of the issues, in the order of the manifest
  Closed,        \* those the manifest wants closed
  Operations,    \* the one that is given the migration evidence
  Attempts,      \* the polls of _wait_for_migration_check
  Bounds         \* bounds on what may go wrong: records of the runs that
                 \* stop half-way, of the edits of other people, and of the
                 \* new records that the search does not find yet

Elements(seq) == {seq[k] : k \in DOMAIN seq}

ASSUME ManifestAssumption ==
  /\ \A s \in {Milestones, Labels, Issues} : s \in Seq(Elements(s)) \ {<<>>}
  /\ Elements(Issues) \cap {"previous_release", "previous_main", "current_main"} = {}
  /\ \A j, k \in DOMAIN Issues : Issues[j] = Issues[k] => j = k
  /\ Operations \in Elements(Issues) \ Closed
  /\ Closed \subseteq Elements(Issues)
  /\ Attempts \in Nat \ {0}
  /\ Bounds \subseteq [stops : Nat, edits : Nat, lag : Nat]

(* The pull requests, which are made in this order, each from a branch of  *)
(* its own.                                                                *)
Stages == <<"previous_release", "previous_main", "current_main">>
Pulls  == Elements(Stages)

Markers == Issues \o Stages

Base(p) == IF p = "previous_release" THEN "previous" ELSE "main"

Branches == {"main", "previous", "candidate"} \cup Pulls

(* Commits, and the absence of one.                                        *)
Absent    == <<>>
Bootstrap == <<"bootstrap">>
Feature(p, parent)          == <<"feature", p, parent>>
MergeOf(n, parent, head)    == <<"merge", n, parent, head>>

VARIABLES
  repo,        \* "none", "empty" or "pushed"
  refs,        \* what each branch points to
  milestones,  \* the titles, by number
  labels,      \* the managed labels that are as they should be
  issues,      \* the issues, by number
  pulls,       \* the pull requests, by number
  indexed,     \* the numbers of each kind that the search finds
  ci,          \* the two check runs on the candidate commit
  pc,          \* where the run stands
  item,        \* the element of a list it is at
  known,       \* what it knows of the record of each marker
  attempt,     \* its polls of the check runs
  left,        \* the stops, edits and lag that may still happen
  touched,     \* history: somebody edited something during this run
  hasty        \* history: a search has missed a record that was there

github == <<repo, refs, milestones, labels, issues, pulls, indexed, ci>>
seeder == <<pc, item, known, attempt>>
others == <<left, touched, hasty>>
vars == <<github, seeder, others>>

Nothing == [number |-> 0]

Missing(x) == known[x].number = 0

-----------------------------------------------------------------------------
(***************************************************************************)
(* Looking: what a run finds on GitHub before it changes anything.         *)
(***************************************************************************)
(* search_marker, and the detail of each hit.  A search is for issues or   *)
(* for pull requests, open and closed ones alike.                          *)
Carrying(x) ==
  IF x \in Pulls THEN {n \in DOMAIN pulls : pulls[n].stage = x}
                 ELSE {n \in DOMAIN issues : issues[n].key = x}

Kind(x) == IF x \in Pulls THEN "pr" ELSE "issue"

OpenHits(x) ==
  {n \in Carrying(x) \cap indexed[Kind(x)] : x \in Pulls \/ ~issues[n].closed}

Hits(x) == Carrying(x) \cap indexed[Kind(x)]

IssueAt(n) == [number |-> n, closed |-> issues[n].closed,
               labels |-> issues[n].labels, body |-> issues[n].body]

PullAt(n) == [number |-> n, base |-> pulls[n].base, open |-> pulls[n].open,
              head |-> pulls[n].head, merge |-> pulls[n].merge,
              text |-> pulls[n].text, labelled |-> pulls[n].labelled,
              made |-> FALSE]

Detail(x, n) == IF x \in Pulls THEN PullAt(n) ELSE IssueAt(n)

(* _validate_pull_topology of the pull request o of stage p.               *)
PullTopologyWithBranch(p, o, parent) ==
  /\ o.base = Base(p) /\ o.head = Feature(p, parent)
  /\ refs[p] = o.head
  /\ o.merge \in {Absent, MergeOf(o.number, parent, o.head)}
  /\ o.open = (o.merge = Absent)

PullTopology(p, o, parent) ==
  /\ o.base = Base(p) /\ o.head = Feature(p, parent)
  /\ refs[p] \in {Absent, o.head}
  /\ o.merge \in {Absent, MergeOf(o.number, parent, o.head)}
  /\ o.open = (o.merge = Absent)

MergeKnown(p) == IF Missing(p) THEN Absent ELSE known[p].merge

Else(commit, otherwise) == IF commit = Absent THEN otherwise ELSE commit

Parent(p) ==
  IF p = "current_main" THEN MergeKnown("previous_main") ELSE Bootstrap

(* _validate_existing_topology.                                            *)
ExistingTopology ==
  /\ \A p \in Pulls : ~Missing(p) => /\ Parent(p) # Absent
                                     /\ PullTopology(p, known[p], Parent(p))
  /\ refs["previous"] \in {Absent, Else(MergeKnown("previous_release"), Bootstrap)}
  /\ refs["main"] = Else(MergeKnown("current_main"),
                         Else(MergeKnown("previous_main"), Bootstrap))
  /\ refs["candidate"] # Absent =>
       /\ MergeKnown("current_main") # Absent
       /\ refs["candidate"] = MergeKnown("current_main")

-----------------------------------------------------------------------------
(***************************************************************************)
(* Wanting: what the manifest says of an issue and a pull request.         *)
(***************************************************************************)
(* A draft carries the labels wanted; the issue is opened by the request   *)
(* that makes it, whatever state it is to have.                            *)
Drafted(key) == [key |-> key, closed |-> FALSE, labels |-> {"wanted"},
                 body |-> "defined"]

(* An update puts title, labels, state, milestone and body right, keeps    *)
(* the labels seen but those managed and unwanted, and leaves the body of  *)
(* the operations issue alone.                                                 *)
LabelsReplaced(seen) == {"wanted"}

LabelsFor(seen) == (seen \ {"unwanted"}) \cup {"wanted"}

BodyPreservedForNone(key) == FALSE

BodyPreservedFor(key) == key = Operations

PatchedWithoutState(issue, key, seen) ==
  [issue EXCEPT !.labels = LabelsFor(seen.labels),
                !.body = IF BodyPreservedFor(key) THEN @ ELSE "defined"]

Patched(issue, key, seen) ==
  [issue EXCEPT !.labels = LabelsFor(seen.labels),
                !.closed = key \in Closed,
                !.body = IF BodyPreservedFor(key) THEN @ ELSE "defined"]

UpToDate(key, seen) ==
  /\ BodyPreservedFor(key) \/ seen.body = "defined"
  /\ seen.labels = LabelsFor(seen.labels)
  /\ seen.closed = (key \in Closed)

(* The check runs of the candidate: EXPECTED_MIGRATION_CHECKS.             *)
Expected == [blocking |-> "success", synthetic |-> "failure"]

Pending(name) == ci[name] = "pending"

PairConflicts == \E name \in DOMAIN ci : ~Pending(name) /\ ci[name] # Expected[name]

PairCompleteWithoutAdvisory == ~Pending("blocking")

PairComplete == \A name \in DOMAIN ci : ~Pending(name)

MorePolls(n) == n < Attempts

(* The branch the previous release is restored to when it is gone.         *)
RestoredToParent(p) == Parent(p)

Restored(p) == Else(MergeKnown(p), Parent(p))

-----------------------------------------------------------------------------
(***************************************************************************)
(* GitHub, and the people who use it.                                      *)
(***************************************************************************)
(* The search index takes up a record some time after it was made.         *)
Behind == (Len(issues) + Len(pulls))
            - Cardinality(indexed["issue"]) - Cardinality(indexed["pr"])

IndexAfter(kind, n) ==
  {[indexed EXCEPT ![kind] = @ \cup {n}]}
  \cup (IF Behind < left.lag THEN {indexed} ELSE {})

Index(kind, n) ==
  /\ n \notin indexed[kind]
  /\ n \in IF kind = "pr" THEN DOMAIN pulls ELSE DOMAIN issues
  /\ indexed' = [indexed EXCEPT ![kind] = @ \cup {n}]
  /\ UNCHANGED <<repo, refs, milestones, labels, issues, pulls, ci, seeder,
                 others>>

(* The workflow runs once the candidate branch is there, and each of its   *)
(* two jobs ends in its own way; until then it is not listed, or pending.  *)
Check(name) ==
  /\ refs["candidate"] # Absent
  /\ Pending(name)
  /\ \E conclusion \in {"success", "failure"} :
       ci' = [ci EXCEPT ![name] = conclusion]
  /\ UNCHANGED <<repo, refs, milestones, labels, issues, pulls, indexed, seeder,
                 others>>

Edited ==
  /\ left.edits > 0
  /\ left' = [left EXCEPT !.edits = @ - 1]
  /\ touched' = TRUE
  /\ UNCHANGED <<repo, milestones, labels, indexed, ci, seeder, hasty>>

EditIssue(n) ==
  /\ Edited
  /\ \/ \E l \in {"foreign", "unwanted"} :
          issues' = [issues EXCEPT ![n].labels = @ \cup {l}]
     \/ issues' = [issues EXCEPT ![n].labels = @ \ {"wanted"}]
     \/ issues' = [issues EXCEPT ![n].closed = ~@]
     \/ issues' = [issues EXCEPT ![n].body = "edited"]
  /\ UNCHANGED <<refs, pulls>>

(* GitHub has no two open pull requests from one branch to another, and    *)
(* none to a branch that has merged it already.                            *)
Taken(p, base) ==
  \E n \in DOMAIN pulls : /\ pulls[n].stage = p /\ pulls[n].base = base
                          /\ pulls[n].open \/ pulls[n].merge # Absent

(* An open pull request is closed or given another base; a closed one is   *)
(* opened again while its branches are there.                              *)
EditPull(n) ==
  LET pull == pulls[n]
  IN  /\ Edited
      /\ \/ pulls' = [pulls EXCEPT ![n].text = FALSE]
         \/ pulls' = [pulls EXCEPT ![n].labelled = FALSE]
         \/ pull.open /\ pulls' = [pulls EXCEPT ![n].open = FALSE]
         \/ /\ ~pull.open /\ pull.merge = Absent
            /\ refs[pull.stage] = pull.head /\ refs[pull.base] # Absent
            /\ ~Taken(pull.stage, pull.base)
            /\ pulls' = [pulls EXCEPT ![n].open = TRUE]
         \/ /\ pull.open
            /\ \E b \in {"main", "previous"} \ {pull.base} :
                 /\ refs[b] # Absent /\ ~Taken(pull.stage, b)
                 /\ pulls' = [pulls EXCEPT ![n].base = b]
      /\ UNCHANGED <<refs, issues>>

(* Every branch but the default one may be deleted, which closes the open  *)
(* pull requests from it and to it.                                        *)
ClosedBy(b, pull) == pull.open /\ b \in {pull.stage, pull.base}

DeleteBranch(b) ==
  /\ Edited
  /\ refs[b] # Absent /\ b # "main"
  /\ refs' = [refs EXCEPT ![b] = Absent]
  /\ pulls' = [n \in DOMAIN pulls |->
                [pulls[n] EXCEPT !.open = @ /\ ~ClosedBy(b, pulls[n])]]
  /\ UNCHANGED issues

-----------------------------------------------------------------------------
(***************************************************************************)
(* The run.                                                                *)
(***************************************************************************)
Resting == {"off", "conflict", "unavailable", "done"}

At(step) == pc = step /\ UNCHANGED others

Goto(step, k) == pc' = step /\ item' = k

Advance(list, k, step, after) ==
  IF k < Len(list) THEN Goto(step, k + 1) ELSE Goto(after, 1)

Quietly == UNCHANGED <<github, known, attempt>>

(* The process ends, and what it knew goes with it.                        *)
Blank == [x \in Elements(Markers) |-> Nothing]

End(step) == Goto(step, 1) /\ known' = Blank /\ attempt' = 1

(* A SeedError: nothing more is asked of GitHub.                           *)
Fail(step) == End(step) /\ UNCHANGED github

Conflict == Fail("conflict")

Start ==
  /\ pc \in Resting
  /\ Goto("repository", 1)
  /\ touched' = FALSE
  /\ UNCHANGED <<github, known, attempt, left, hasty>>

(* The process is killed, a request fails or its answer is lost.           *)
Stop ==
  /\ pc \notin Resting
  /\ left.stops > 0
  /\ left' = [left EXCEPT !.stops = @ - 1]
  /\ Fail("off")
  /\ UNCHANGED <<touched, hasty>>

(* ensure_repository: gh repo create makes the repository and then pushes. *)
EnsureRepository ==
  /\ At("repository")
  /\ \/ repo # "none" /\ Goto("find", 1) /\ UNCHANGED repo
     \/ repo = "none" /\ Goto("push", 1) /\ repo' = "empty"
  /\ UNCHANGED <<refs, milestones, labels, issues, pulls, indexed, ci, known,
                 attempt>>

Push ==
  /\ At("push")
  /\ repo' = "pushed"
  /\ refs' = [refs EXCEPT !["main"] = Bootstrap]
  /\ Goto("find", 1)
  /\ UNCHANGED <<milestones, labels, issues, pulls, indexed, ci, known, attempt>>

(* _find_issue and _find_pull, one marker after the other.                 *)
Find ==
  LET x == Markers[item]
  IN  /\ pc = "find"
      /\ hasty' = (hasty \/ ~(Carrying(x) \subseteq indexed[Kind(x)]))
      /\ UNCHANGED <<left, touched>>
      /\ \/ Cardinality(Hits(x)) > 1 /\ Conflict
         \/ /\ Cardinality(Hits(x)) <= 1
            /\ known' = [known EXCEPT ![x] =
                            IF Hits(x) = {} THEN Nothing
                            ELSE Detail(x, CHOOSE n \in Hits(x) : TRUE)]
            /\ Advance(Markers, item, "find", "topology")
            /\ UNCHANGED <<github, attempt>>

Topology ==
  /\ At("topology")
  /\ \/ ExistingTopology /\ Goto("milestones", 1) /\ Quietly
     \/ ~ExistingTopology /\ Conflict

(* _ensure_milestones: GitHub gives the next number.                       *)
EnsureMilestone ==
  /\ At("milestones")
  /\ milestones' = IF item \in DOMAIN milestones THEN milestones
                   ELSE Append(milestones, Milestones[item])
  /\ Advance(Milestones, item, "milestones", "labels")
  /\ UNCHANGED <<repo, refs, labels, issues, pulls, indexed, ci, known, attempt>>

UpsertLabel ==
  /\ At("labels")
  /\ labels' = labels \cup {Labels[item]}
  /\ Advance(Labels, item, "labels", "issues")
  /\ UNCHANGED <<repo, refs, milestones, issues, pulls, indexed, ci, known,
                 attempt>>

NextIssue == Advance(Issues, item, "issues", "base")

(* _reconcile_issues: create_issue.                                        *)
CreateIssue ==
  LET key == Issues[item]
      n   == Len(issues) + 1
  IN  /\ At("issues")
      /\ Missing(key)
      /\ issues' = Append(issues, Drafted(key))
      /\ indexed' \in IndexAfter("issue", n)
      /\ known' = [known EXCEPT ![key] = [number |-> n, closed |-> FALSE,
                      labels |-> {"wanted"}, body |-> "defined"]]
      /\ IF key \in Closed THEN Goto("close", item) ELSE NextIssue
      /\ UNCHANGED <<repo, refs, milestones, labels, pulls, ci, attempt>>

(* update_issue, of an issue found or of one just made that is to be       *)
(* closed, and its answer.                                                 *)
UpdateIssue ==
  LET key   == Issues[item]
      n     == known[key].number
      after == Patched(issues[n], key, known[key])
  IN  /\ \/ At("close")
         \/ At("issues") /\ ~Missing(key) /\ ~UpToDate(key, known[key])
      /\ issues' = [issues EXCEPT ![n] = after]
      /\ known' = [known EXCEPT ![key] = [number |-> n, closed |-> after.closed,
                      labels |-> after.labels, body |-> after.body]]
      /\ NextIssue
      /\ UNCHANGED <<repo, refs, milestones, labels, pulls, indexed, ci, attempt>>

LeaveIssue ==
  /\ At("issues")
  /\ ~Missing(Issues[item]) /\ UpToDate(Issues[item], known[Issues[item]])
  /\ NextIssue
  /\ Quietly

(* _ensure_pull_stage, from here to Validate.  Only the branch of the      *)
(* previous release is made again when it is gone.                         *)
EnsureBase ==
  LET p == Stages[item]
      b == Base(p)
  IN  /\ At("base")
      /\ \/ refs[b] # Absent /\ Goto("head", item) /\ Quietly
         \/ refs[b] = Absent /\ b # "previous" /\ Conflict
         \/ /\ refs[b] = Absent /\ b = "previous"
            /\ refs' = [refs EXCEPT ![b] = Restored(p)]
            /\ Goto("head", item)
            /\ UNCHANGED <<repo, milestones, labels, issues, pulls, indexed, ci,
                           known, attempt>>

EnsureHead ==
  LET p    == Stages[item]
      head == IF Missing(p) THEN Feature(p, Parent(p)) ELSE known[p].head
  IN  /\ At("head")
      /\ \/ refs[p] \notin {Absent, head} /\ Conflict
         \/ /\ refs[p] \in {Absent, head}
            /\ refs' = [refs EXCEPT ![p] = head]
            /\ Goto(IF Missing(p) THEN "open" ELSE "describe", item)
            /\ UNCHANGED <<repo, milestones, labels, issues, pulls, indexed, ci,
                           known, attempt>>

(* GitHub refuses a second open pull request between two branches, one     *)
(* whose branch is gone, and one whose base holds its commits already: a   *)
(* base that has left the parent of the head has merged it.                *)
Refused(p) ==
  \/ refs[p] = Absent
  \/ \E n \in DOMAIN pulls :
       pulls[n].stage = p /\ pulls[n].base = Base(p) /\ pulls[n].open
  \/ refs[Base(p)] # Parent(p)

OpenPull ==
  LET p == Stages[item]
      n == Len(pulls) + 1
  IN  /\ At("open")
      /\ \/ Refused(p) /\ Conflict
         \/ /\ ~Refused(p)
            /\ pulls' = Append(pulls, [stage |-> p, base |-> Base(p),
                          open |-> TRUE, head |-> refs[p], merge |-> Absent,
                          text |-> TRUE, labelled |-> FALSE])
            /\ indexed' \in IndexAfter("pr", n)
            /\ known' = [known EXCEPT ![p] =
                           [number |-> n, base |-> Base(p), open |-> TRUE,
                            head |-> refs[p], merge |-> Absent,
                            text |-> TRUE, labelled |-> FALSE, made |-> TRUE]]
            /\ Goto("text", item)
            /\ UNCHANGED <<repo, refs, milestones, labels, issues, ci, attempt>>

(* _reconcile_pull_metadata: update_pull is two requests and a read, and   *)
(* a pull request just made is updated before it is compared at all; its   *)
(* base has to be the one it was made with.                                *)
Describe ==
  LET p == Stages[item]
  IN  /\ At("describe")
      /\ \/ known[p].base # Base(p) /\ Conflict
         \/ /\ known[p].base = Base(p)
            /\ Goto(IF known[p].text /\ known[p].labelled THEN "merge" ELSE "text",
                    item)
            /\ Quietly

PatchText ==
  /\ At("text")
  /\ pulls' = [pulls EXCEPT ![known[Stages[item]].number].text = TRUE]
  /\ Goto("label", item)
  /\ UNCHANGED <<repo, refs, milestones, labels, issues, indexed, ci, known,
                 attempt>>

PatchLabels ==
  LET p == Stages[item]
      n == known[p].number
  IN  /\ At("label")
      /\ pulls' = [pulls EXCEPT ![n].labelled = TRUE]
      /\ known' = [known EXCEPT ![p] = [PullAt(n) EXCEPT !.labelled = TRUE]]
      /\ Goto(IF known[p].made THEN "describe" ELSE "merge", item)
      /\ UNCHANGED <<repo, refs, milestones, labels, issues, indexed, ci, attempt>>

(* The branch of the manifest is looked at just before, but GitHub merges  *)
(* an open pull request onto the base that it has.                         *)
BaseMoved(p) == refs[Base(p)] # Parent(p)

MergePull ==
  LET p     == Stages[item]
      n     == known[p].number
      base  == pulls[n].base
      merge == MergeOf(n, refs[base], known[p].head)
  IN  /\ At("merge")
      /\ \/ known[p].merge # Absent /\ Goto("validate", item) /\ Quietly
         \/ known[p].merge = Absent /\ (BaseMoved(p) \/ ~pulls[n].open) /\ Conflict
         \/ /\ known[p].merge = Absent /\ ~BaseMoved(p) /\ pulls[n].open
            /\ refs' = [refs EXCEPT ![base] = merge]
            /\ pulls' = [pulls EXCEPT ![n].merge = merge, ![n].open = FALSE]
            /\ known' = [known EXCEPT ![p] = [PullAt(n) EXCEPT !.merge = merge,
                                                             !.open = FALSE]]
            /\ Goto("validate", item)
            /\ UNCHANGED <<repo, milestones, labels, issues, indexed, ci, attempt>>

Validate ==
  LET p == Stages[item]
  IN  /\ At("validate")
      /\ \/ /\ PullTopology(p, known[p], Parent(p))
            /\ Advance(Stages, item, "base", "candidate")
            /\ Quietly
         \/ ~PullTopology(p, known[p], Parent(p)) /\ Conflict

EnsureCandidate ==
  /\ At("candidate")
  /\ refs' = [refs EXCEPT !["candidate"] = Else(@, MergeKnown("current_main"))]
  /\ Goto("verify", 1)
  /\ UNCHANGED <<repo, milestones, labels, issues, pulls, indexed, ci, known,
                 attempt>>

FinalRefs ==
  /\ refs["candidate"] = MergeKnown("current_main")
  /\ refs["main"] = MergeKnown("current_main")
  /\ refs["previous"] = MergeKnown("previous_release")
  /\ \A p \in Pulls : refs[p] = known[p].head

Verify ==
  /\ At("verify")
  /\ \/ FinalRefs /\ Goto("poll", 1) /\ Quietly
     \/ ~FinalRefs /\ Conflict

(* _wait_for_migration_check.                                              *)
Poll ==
  /\ At("poll")
  /\ \/ PairConflicts /\ Fail("unavailable")
     \/ /\ ~PairConflicts /\ PairComplete
        /\ Goto("evidence", 1) /\ Quietly
     \/ /\ ~PairConflicts /\ ~PairComplete /\ MorePolls(attempt)
        /\ attempt' = attempt + 1
        /\ UNCHANGED <<github, pc, item, known>>
     \/ /\ ~PairConflicts /\ ~PairComplete /\ ~MorePolls(attempt)
        /\ Fail("unavailable")

(* The body of the operations issue is written last.                       *)
WriteEvidence ==
  LET n == known[Operations].number
  IN  /\ At("evidence")
      /\ issues' = IF known[Operations].body = "evidence" THEN issues
                   ELSE [issues EXCEPT ![n].body = "evidence"]
      /\ End("done")
      /\ UNCHANGED <<repo, refs, milestones, labels, pulls, indexed, ci>>

Init ==
  /\ repo = "none"
  /\ refs = [b \in Branches |-> Absent]
  /\ milestones = <<>> /\ labels = {}
  /\ issues = <<>> /\ pulls = <<>>
  /\ indexed = [kind \in {"issue", "pr"} |-> {}]
  /\ ci = [name \in {"blocking", "synthetic"} |-> "pending"]
  /\ pc = "off" /\ item = 1
  /\ known = Blank
  /\ attempt = 1
  /\ left \in Bounds
  /\ touched = FALSE /\ hasty = FALSE

Run ==
  \/ Start \/ EnsureRepository \/ Push \/ Find \/ Topology
  \/ EnsureMilestone \/ UpsertLabel
  \/ CreateIssue \/ UpdateIssue \/ LeaveIssue
  \/ EnsureBase \/ EnsureHead \/ OpenPull \/ Describe \/ PatchText \/ PatchLabels
  \/ MergePull \/ Validate \/ EnsureCandidate \/ Verify \/ Poll \/ WriteEvidence

Edit ==
  \/ \E n \in DOMAIN issues : EditIssue(n)
  \/ \E n \in DOMAIN pulls : EditPull(n)
  \/ \E b \in Branches : DeleteBranch(b)

IndexSome ==
  \/ \E n \in DOMAIN issues : Index("issue", n)
  \/ \E n \in DOMAIN pulls : Index("pr", n)

CheckSome == \E name \in DOMAIN ci : Check(name)

Next == Run \/ Stop \/ Edit \/ IndexSome \/ CheckSome

Spec == Init /\ [][Next]_vars

(* A run that is not stopped goes on, and whoever started it starts it     *)
(* again when it did not end well; GitHub indexes and runs the workflow.   *)
FairSpec ==
  Spec /\ WF_vars(Run) /\ WF_vars(IndexSome) /\ WF_vars(CheckSome)

-----------------------------------------------------------------------------
(***************************************************************************)
(* The repository as the manifest describes it: every record once, every   *)
(* pull request merged on the commit of the one before it, both release    *)
(* branches where the analysis of the demo expects them                    *)
(* (_assert_exact_topology of demo/test_seed_state.py).                    *)
(***************************************************************************)
IssueDone(key) ==
  \E n \in DOMAIN issues :
    /\ Carrying(key) = {n}
    /\ issues[n].closed = (key \in Closed)
    /\ "wanted" \in issues[n].labels /\ "unwanted" \notin issues[n].labels
    /\ issues[n].body = IF key = Operations THEN "evidence" ELSE "defined"

PullDone(p, n, parent) ==
  /\ Carrying(p) = {n}
  /\ pulls[n].base = Base(p) /\ pulls[n].head = Feature(p, parent)
  /\ pulls[n].merge = MergeOf(n, parent, pulls[n].head)
  /\ pulls[n].text /\ pulls[n].labelled
  /\ refs[p] = pulls[n].head

Complete ==
  /\ repo = "pushed"
  /\ milestones = Milestones
  /\ labels = Elements(Labels)
  /\ \A key \in Elements(Issues) : IssueDone(key)
  /\ \E i, j, k \in DOMAIN pulls :
       /\ PullDone("previous_release", i, Bootstrap)
       /\ PullDone("previous_main", j, Bootstrap)
       /\ PullDone("current_main", k, pulls[j].merge)
       /\ refs["previous"] = pulls[i].merge
       /\ refs["main"] = pulls[k].merge
       /\ refs["candidate"] = pulls[k].merge

(***************************************************************************)
(* A run that reports success has left the repository complete, whatever   *)
(* earlier runs had left half-made and whatever people had changed before  *)
(* it started (seed_repository).                                           *)
(***************************************************************************)
SuccessIsComplete == pc = "done" /\ ~touched /\ ~hasty => Complete

(***************************************************************************)
(* Whatever stops a run, and whichever of the edits above people make      *)
(* between two runs, no run is refused for what is there: every half-made  *)
(* repository is one the next run understands.  The exceptions are a       *)
(* repository that was created but never pushed, a search that has missed  *)
(* a record, and a managed pull request that is closed without a merge or  *)
(* has another base than its own, which the code refuses for as long as it *)
(* is so (_validate_pull_topology, _validate_existing_topology,            *)
(* _ensure_pull_stage).                                                    *)
(***************************************************************************)
Displaced ==
  \E n \in DOMAIN pulls : \/ pulls[n].base # Base(pulls[n].stage)
                          \/ ~pulls[n].open /\ pulls[n].merge = Absent

NeverRefused ==
  pc = "conflict" => touched \/ hasty \/ repo = "empty" \/ Displaced

(***************************************************************************)
(* A title marker is carried by one issue or pull request only, although   *)
(* each run decides by a search whether to make it.  Even when that search *)
(* lags, two pull requests of a stage are never both open or merged onto   *)
(* the main branch, because the topology of the branches gives the first   *)
(* away (_find_pull, _validate_existing_topology).                         *)
(***************************************************************************)
InForce(p) ==
  {n \in Carrying(p) : /\ pulls[n].base = Base(p)
                       /\ pulls[n].open \/ pulls[n].merge # Absent}

OneOfEach ==
  /\ \A p \in Pulls : Base(p) = "main" => Cardinality(InForce(p)) <= 1
  /\ ~hasty => \A x \in Elements(Markers) : Cardinality(Carrying(x)) <= 1

(***************************************************************************)
(* The operations issue cites the migration evidence only when the check   *)
(* pair of the candidate has ended as the manifest expects, and on the     *)
(* commit that merged the current change (seed_repository).                *)
(***************************************************************************)
EvidenceIsEarned ==
  (\E n \in DOMAIN issues : issues[n].body = "evidence") =>
    /\ ci = Expected
    /\ \E n \in DOMAIN pulls : pulls[n].stage = "current_main"
                                /\ pulls[n].merge # Absent

(***************************************************************************)
(* A run undoes nothing: a branch moves only by a merge onto what it       *)
(* pointed to, a pull request stays merged, and an issue keeps the labels  *)
(* that the run has seen and the manifest does not manage, although it is  *)
(* updated from what was read many requests earlier.                       *)
(***************************************************************************)
Extends(after, before) ==
  \/ after = before
  \/ before = Absent
  \/ after[1] = "merge" /\ after[3] = before

Unseen(n) == known[issues[n].key].number = n => "foreign" \notin known[issues[n].key].labels

NothingIsUndone ==
  [][Run =>
       /\ \A b \in Branches : Extends(refs'[b], refs[b])
       /\ \A n \in DOMAIN pulls : pulls[n].merge # Absent =>
            pulls'[n].merge = pulls[n].merge
       /\ \A n \in DOMAIN issues :
            /\ issues[n].body = "evidence" => issues'[n].body = "evidence"
            /\ "foreign" \in issues[n].labels =>
                 "foreign" \in issues'[n].labels \/ Unseen(n)]_vars

(***************************************************************************)
(* Stopped, edited and started again, the seeder ends with the complete    *)
(* repository, once nobody stops it or edits any more and the workflow has *)
(* ended as it should; unless it is refused for good, which the exceptions *)
(* of NeverRefused name.                                                   *)
(***************************************************************************)
Spoilt == hasty \/ repo = "empty" \/ PairConflicts \/ Displaced

Converges == <>[](Complete \/ Spoilt)
=============================================================================
