----------------------------- MODULE SeederProofs -----------------------------
(***************************************************************************)
(* Proofs of the safety properties of module Seeder, for every manifest,   *)
(* any number of runs, stops, edits and records the search has not found   *)
(* yet.  The inductive invariant IInv says what any half-made repository   *)
(* looks like (every branch and every merge is made from the parent of its *)
(* stage, the tip of main tells which pull requests are merged) and what a *)
(* run knows of it at each of its steps.  A pull request whose base was    *)
(* changed just before the run merged it is merged astray: the branch it   *)
(* moved tells so for good.                                                *)
(***************************************************************************)
EXTENDS Seeder, FiniteSetTheorems, SequenceTheorems, TLAPS

Building  == {"base", "head", "open", "describe", "text", "label", "merge",
              "validate"}
Finishing == {"candidate", "verify", "poll", "evidence"}
Looking   == {"repository", "push", "find", "topology"}
Filing    == {"issues", "close"}
Making    == {"milestones", "labels"} \cup Filing \cup Building \cup Finishing

(* The element of a list that a run is at.                                 *)
ItemPart ==
  /\ pc \in Resting \cup Looking \cup Making
  /\ pc = "find" => item \in 1..Len(Markers)
  /\ pc = "milestones" => item \in 1..Len(Milestones)
  /\ pc = "labels" => item \in 1..Len(Labels)
  /\ pc \in Filing => item \in 1..Len(Issues)
  /\ pc \in Building => item \in 1..3

LabelNames == {"wanted", "unwanted", "foreign"}
Bodies     == {"defined", "evidence", "edited"}

IssueRecord ==
  [key : Elements(Issues), closed : BOOLEAN, labels : SUBSET LabelNames,
   body : Bodies]

KnownIssue ==
  [number : Nat \ {0}, closed : BOOLEAN, labels : SUBSET LabelNames,
   body : Bodies]

IsPull(r) ==
  /\ r = [stage |-> r.stage, base |-> r.base, open |-> r.open, head |-> r.head,
          merge |-> r.merge, text |-> r.text, labelled |-> r.labelled]
  /\ r.stage \in Pulls /\ r.base \in {"main", "previous"}
  /\ r.open \in BOOLEAN /\ (r.open => r.merge = Absent)

IsKnownPull(r) ==
  /\ r = [number |-> r.number, base |-> r.base, open |-> r.open, head |-> r.head,
          merge |-> r.merge, text |-> r.text, labelled |-> r.labelled,
          made |-> r.made]
  /\ r.open \in BOOLEAN

TypePart ==
  /\ repo \in {"none", "empty", "pushed"}
  /\ DOMAIN refs = Branches /\ refs = [b \in Branches |-> refs[b]]
  /\ issues \in Seq(IssueRecord)
  /\ pulls \in Seq(Elements(pulls)) /\ \A n \in DOMAIN pulls : IsPull(pulls[n])
  /\ DOMAIN known = Elements(Markers)
  /\ known = [x \in Elements(Markers) |-> known[x]]
  /\ \A key \in Elements(Issues) : known[key] \in KnownIssue \cup {Nothing}
  /\ \A p \in Pulls : known[p] = Nothing \/ (/\ IsKnownPull(known[p])
                                             /\ known[p].number \in Nat \ {0})
  /\ touched \in BOOLEAN /\ hasty \in BOOLEAN

(* Nothing is made before the repository is pushed.                        *)
RepoPart ==
  /\ repo # "pushed" => /\ issues = <<>> /\ pulls = <<>>
                        /\ \A b \in Branches : refs[b] = Absent
                        /\ pc \in Resting \cup Looking
  /\ pc = "push" => repo = "empty"
  /\ repo = "none" => pc \in Resting \cup {"repository"}

(* The pull requests of a stage that are merged where they belong, and     *)
(* those merged onto the base b although they belong elsewhere.            *)
Merged(ps, p) ==
  {n \in DOMAIN ps : /\ ps[n].stage = p /\ ps[n].base = Base(p)
                     /\ ps[n].merge # Absent}

Astray(ps, b) ==
  {n \in DOMAIN ps : /\ ps[n].base = b /\ Base(ps[n].stage) # b
                     /\ ps[n].merge # Absent}

(* The commits that the branch of a stage may start from.                  *)
Parents(ps, p) ==
  IF p = "current_main" THEN {ps[n].merge : n \in Merged(ps, "previous_main")}
                        ELSE {Bootstrap}

PullPart ==
  \A n \in DOMAIN pulls :
    \E parent \in Parents(pulls, pulls[n].stage) :
      /\ pulls[n].head = Feature(pulls[n].stage, parent)
      /\ pulls[n].merge # Absent => \E c : pulls[n].merge = MergeOf(n, c, pulls[n].head)
      /\ n \in Merged(pulls, pulls[n].stage) =>
           pulls[n].merge = MergeOf(n, parent, pulls[n].head)

(* What the branches point to, if they are there; main always is.          *)
StageBranches ==
  \A p \in Pulls : refs[p] # Absent =>
    \E parent \in Parents(pulls, p) : refs[p] = Feature(p, parent)

CandidateBranch ==
  refs["candidate"] # Absent =>
    \E n \in Merged(pulls, "current_main") : refs["candidate"] = pulls[n].merge

MainBranch ==
  repo = "pushed" =>
    \/ \E n \in Merged(pulls, "current_main") : refs["main"] = pulls[n].merge
    \/ /\ Merged(pulls, "current_main") = {}
       /\ \E n \in Merged(pulls, "previous_main") : refs["main"] = pulls[n].merge
    \/ /\ Merged(pulls, "current_main") = {}
       /\ Merged(pulls, "previous_main") = {}
       /\ refs["main"] = Bootstrap
    \/ \E n \in Astray(pulls, "main") : refs["main"] = pulls[n].merge

PreviousBranch ==
  ~hasty /\ refs["previous"] # Absent =>
    \/ \E n \in Merged(pulls, "previous_release") : refs["previous"] = pulls[n].merge
    \/ Merged(pulls, "previous_release") = {} /\ refs["previous"] = Bootstrap
    \/ \E n \in Astray(pulls, "previous") : refs["previous"] = pulls[n].merge

BranchPart == StageBranches /\ CandidateBranch /\ MainBranch /\ PreviousBranch

Sole(x) == \A m, n \in Carrying(x) : m = n

SoleInForce(p) == \A m, n \in InForce(p) : m = n

SolePart ==
  /\ SoleInForce("previous_main") /\ SoleInForce("current_main")
  /\ ~hasty => \A x \in Elements(Markers) : Sole(x)

(* What a run knows is so: of issues until somebody edits them, of the     *)
(* commits of a pull request whatever is edited.                           *)
Looked(x) ==
  \/ pc \in Making \cup {"topology"}
  \/ pc = "find" /\ \E k \in 1..item - 1 : Markers[k] = x

Seen ==
  \A x \in Elements(Markers) :
    /\ ~Missing(x) => known[x].number \in Carrying(x)
    /\ ~hasty /\ Looked(x) /\ Missing(x) => Carrying(x) = {}

PullsKnown ==
  \A p \in Pulls : ~Missing(p) =>
    /\ known[p].head = pulls[known[p].number].head
    /\ known[p].merge = pulls[known[p].number].merge
    /\ ~touched \/ known[p].merge # Absent =>
         /\ known[p].base = pulls[known[p].number].base
         /\ known[p].open = pulls[known[p].number].open
    /\ ~touched => /\ known[p].text => pulls[known[p].number].text
                   /\ known[p].labelled => pulls[known[p].number].labelled

IssuesKnown ==
  \A key \in Elements(Issues) : ~Missing(key) /\ ~touched =>
    /\ known[key].closed = issues[known[key].number].closed
    /\ known[key].labels = issues[known[key].number].labels
    /\ known[key].body = issues[known[key].number].body

(* What a run goes by is merged where it belongs, but for the pull request *)
(* that it has just merged.                                                *)
Placed(p) == Missing(p) \/ known[p].merge = Absent \/ known[p].base = Base(p)

InPlace ==
  pc \in Making =>
    \A p \in Pulls : Placed(p) \/ (pc = "validate" /\ p = Stages[item])

KnownPart ==
  /\ pc \in Resting \cup {"repository", "push"} => known = Blank
  /\ Seen /\ PullsKnown /\ IssuesKnown /\ InPlace

(* What the steps taken for the stage k have achieved.                     *)
Past(k, steps) ==
  pc \in Finishing \/ (pc \in Building /\ (k < item \/ (k = item /\ pc \in steps)))

Staged(k) ==
  /\ Past(k, {"describe", "text", "label", "merge", "validate"}) =>
       ~Missing(Stages[k])
  /\ pc = "open" /\ k = item => Missing(Stages[k])
  /\ Past(k, {"validate"}) => known[Stages[k]].merge # Absent

Standing(k) ==
  /\ Past(k, Building \ {"base"}) => refs[Base(Stages[k])] # Absent
  /\ Past(k, Building \ {"base", "head"}) => refs[Stages[k]] # Absent

Described(k) ==
  /\ Past(k, {"label", "merge", "validate"}) =>
       pulls[known[Stages[k]].number].text
  /\ Past(k, {"merge", "validate"}) => pulls[known[Stages[k]].number].labelled

StagePart ==
  \A k \in 1..3 : Staged(k) /\ (~touched => Standing(k) /\ Described(k))

FinalPart ==
  ~touched =>
    /\ pc \in {"verify", "poll", "evidence"} => refs["candidate"] # Absent
    /\ pc \in {"poll", "evidence"} => FinalRefs

ListPart ==
  /\ milestones = SubSeq(Milestones, 1, Len(milestones))
  /\ Len(milestones) \in 0..Len(Milestones)
  /\ pc = "milestones" => item <= Len(milestones) + 1
  /\ pc \in (Making \cup {"done"}) \ {"milestones"} =>
       Len(milestones) = Len(Milestones)
  /\ labels \subseteq Elements(Labels)
  /\ pc = "labels" => \A k \in 1..item - 1 : Labels[k] \in labels
  /\ pc \in (Making \cup {"done"}) \ {"milestones", "labels"} =>
       labels = Elements(Labels)

(* Everything of an issue but the evidence is as the manifest says.        *)
Settled(key) ==
  \E n \in DOMAIN issues :
    /\ issues[n].key = key
    /\ issues[n].closed = (key \in Closed)
    /\ "wanted" \in issues[n].labels /\ "unwanted" \notin issues[n].labels
    /\ key # Operations => issues[n].body = "defined"

Filed(k) == pc \in Building \cup Finishing \/ (pc \in Filing /\ k < item)

IssuePart ==
  /\ pc = "close" => ~Missing(Issues[item])
  /\ \A k \in DOMAIN Issues : Filed(k) =>
       /\ ~Missing(Issues[k])
       /\ ~touched /\ ~hasty => Settled(Issues[k])

EvidencePart ==
  /\ DOMAIN ci = {"blocking", "synthetic"}
  /\ ci = [name \in DOMAIN ci |-> ci[name]]
  /\ pc = "evidence" => ci = Expected
  /\ \A n \in DOMAIN issues : issues[n].body = "evidence" =>
       issues[n].key = Operations
  /\ EvidenceIsEarned

IInv ==
  /\ ItemPart /\ TypePart /\ RepoPart /\ PullPart /\ BranchPart /\ SolePart
  /\ KnownPart /\ StagePart /\ FinalPart /\ ListPart /\ IssuePart /\ EvidencePart
  /\ SuccessIsComplete /\ NeverRefused

-----------------------------------------------------------------------------
(***************************************************************************)
(* Commits are different when they are made from different things.         *)
(***************************************************************************)
LEMMA Commits ==
  /\ Bootstrap # Absent
  /\ \A p, c : Feature(p, c) # Absent
  /\ \A n, c, h : /\ MergeOf(n, c, h) # Absent /\ MergeOf(n, c, h) # Bootstrap
                  /\ MergeOf(n, c, h)[1] = "merge" /\ MergeOf(n, c, h)[3] = c
  /\ \A n, c, h, m, d, i : MergeOf(n, c, h) = MergeOf(m, d, i) => n = m
BY DEF Bootstrap, Absent, Feature, MergeOf

(***************************************************************************)
(* The stages and their branches.                                          *)
(***************************************************************************)
LEMMA StageFacts ==
  /\ Len(Stages) = 3 /\ DOMAIN Stages = 1..3
  /\ Stages[1] = "previous_release" /\ Stages[2] = "previous_main"
  /\ Stages[3] = "current_main"
  /\ Pulls = {"previous_release", "previous_main", "current_main"}
  /\ \A k \in 1..3 : Stages[k] \in Pulls
  /\ \A j, k \in 1..3 : Stages[j] = Stages[k] => j = k
  /\ Branches = {"main", "previous", "candidate"} \cup Pulls
  /\ Pulls \cap {"main", "previous", "candidate"} = {}
  /\ \A p \in Pulls : Base(p) \in {"main", "previous"}
  /\ Base("previous_release") = "previous"
  /\ Base("previous_main") = "main" /\ Base("current_main") = "main"
<1>1. /\ Len(Stages) = 3 /\ DOMAIN Stages = 1..3
      /\ Stages[1] = "previous_release" /\ Stages[2] = "previous_main"
      /\ Stages[3] = "current_main"
  BY DEF Stages
<1>2. Pulls = {"previous_release", "previous_main", "current_main"}
  BY <1>1 DEF Pulls, Elements
<1>3. QED
  BY <1>1, <1>2 DEF Branches, Base

(***************************************************************************)
(* The markers: those of the issues, then those of the stages.             *)
(***************************************************************************)
LEMMA MarkerFacts ==
  /\ Issues \in Seq(Elements(Issues)) /\ Len(Issues) \in Nat \ {0}
  /\ DOMAIN Issues = 1..Len(Issues)
  /\ Len(Milestones) \in Nat \ {0} /\ DOMAIN Milestones = 1..Len(Milestones)
  /\ Len(Labels) \in Nat \ {0} /\ DOMAIN Labels = 1..Len(Labels)
  /\ Len(Markers) = Len(Issues) + 3 /\ DOMAIN Markers = 1..Len(Markers)
  /\ Elements(Markers) = Elements(Issues) \cup Pulls
  /\ Elements(Issues) \cap Pulls = {}
  /\ \A k \in 1..Len(Issues) : Issues[k] \in Elements(Issues)
  /\ \A k \in 1..Len(Markers) : Markers[k] \in Elements(Markers)
  /\ Operations \in Elements(Issues) /\ Operations \notin Closed
<1>1. /\ Issues \in Seq(Elements(Issues)) /\ Issues # <<>>
      /\ Milestones \in Seq(Elements(Milestones)) /\ Milestones # <<>>
      /\ Labels \in Seq(Elements(Labels)) /\ Labels # <<>>
  BY ManifestAssumption
<1>2. \A S : \A s \in Seq(S) : s # <<>> => /\ Len(s) \in Nat \ {0}
                                           /\ DOMAIN s = 1..Len(s)
  OBVIOUS
<1>3. /\ Len(Issues) \in Nat \ {0} /\ DOMAIN Issues = 1..Len(Issues)
      /\ Len(Milestones) \in Nat \ {0} /\ DOMAIN Milestones = 1..Len(Milestones)
      /\ Len(Labels) \in Nat \ {0} /\ DOMAIN Labels = 1..Len(Labels)
  BY <1>1, <1>2
<1>4. Stages \in Seq(Pulls)
  BY StageFacts DEF Stages
<1>5. /\ Len(Markers) = Len(Issues) + 3 /\ DOMAIN Markers = 1..Len(Markers)
      /\ \A k \in 1..Len(Markers) :
           Markers[k] = IF k <= Len(Issues) THEN Issues[k]
                                            ELSE Stages[k - Len(Issues)]
  <2>1. /\ Issues \in Seq(Elements(Issues) \cup Pulls)
        /\ Stages \in Seq(Elements(Issues) \cup Pulls)
    BY <1>1, <1>4
  <2>2. /\ Markers \in Seq(Elements(Issues) \cup Pulls)
        /\ Len(Markers) = Len(Issues) + Len(Stages)
        /\ \A k \in 1..(Len(Issues) + Len(Stages)) :
             Markers[k] = IF k <= Len(Issues) THEN Issues[k]
                                              ELSE Stages[k - Len(Issues)]
    BY <2>1, ConcatProperties DEF Markers
  <2>3. DOMAIN Markers = 1..Len(Markers)
    BY <2>2, LenProperties
  <2>4. QED
    BY <2>2, <2>3, StageFacts
<1>6. Elements(Markers) = Elements(Issues) \cup Pulls
  <2>1. Elements(Markers) \subseteq Elements(Issues) \cup Pulls
    <3>1. SUFFICES ASSUME NEW k \in 1..Len(Markers)
                   PROVE  Markers[k] \in Elements(Issues) \cup Pulls
      BY <1>5 DEF Elements
    <3>2. CASE k <= Len(Issues)
      BY <3>2, <1>3, <1>5 DEF Elements
    <3>3. CASE k > Len(Issues)
      <4>1. k - Len(Issues) \in 1..3
        BY <3>3, <1>3, <1>5
      <4>2. Markers[k] = Stages[k - Len(Issues)]
        BY <3>3, <1>3, <1>5
      <4>3. QED
        BY <4>1, <4>2, StageFacts
    <3>4. QED
      BY <1>3, <1>5, <3>2, <3>3
  <2>2. ASSUME NEW x \in Elements(Issues) PROVE x \in Elements(Markers)
    BY <1>3, <1>5 DEF Elements
  <2>3. ASSUME NEW x \in Pulls PROVE x \in Elements(Markers)
    <3>1. PICK j \in 1..3 : x = Stages[j]
      BY StageFacts DEF Pulls, Elements
    <3>2. Markers[Len(Issues) + j] = x
      BY <1>3, <1>5, <3>1
    <3>3. QED
      BY <1>3, <1>5, <3>2 DEF Elements
  <2>4. QED
    BY <2>1, <2>2, <2>3
<1>7. Elements(Issues) \cap Pulls = {}
  BY StageFacts, ManifestAssumption
<1>8. /\ \A k \in 1..Len(Issues) : Issues[k] \in Elements(Issues)
      /\ \A k \in 1..Len(Markers) : Markers[k] \in Elements(Markers)
  BY <1>3, <1>5 DEF Elements
<1>9. Operations \in Elements(Issues) /\ Operations \notin Closed
  BY ManifestAssumption
<1>10. QED
  BY <1>1, <1>3, <1>5, <1>6, <1>7, <1>8, <1>9

(***************************************************************************)
(* Which steps change what.                                                *)
(***************************************************************************)
LEMMA RunFrame ==
  ASSUME Run
  PROVE  /\ repo' = repo \/ EnsureRepository \/ Push
         /\ \/ refs' = refs
            \/ Push \/ EnsureBase \/ EnsureHead \/ MergePull \/ EnsureCandidate
         /\ milestones' = milestones \/ EnsureMilestone
         /\ labels' = labels \/ UpsertLabel
         /\ issues' = issues \/ CreateIssue \/ UpdateIssue \/ WriteEvidence
         /\ \/ pulls' = pulls
            \/ OpenPull \/ PatchText \/ PatchLabels \/ MergePull
         /\ \/ known' = known \/ (known' = Blank /\ pc' \in Resting)
            \/ Find \/ CreateIssue \/ UpdateIssue \/ OpenPull \/ PatchLabels
            \/ MergePull
         /\ ci' = ci
         /\ touched' = touched \/ Start
         /\ hasty' = hasty \/ Find
<1> USE DEF github, seeder, others, At, Quietly, Conflict, Fail, End, Goto, Resting
<1>1. ASSUME Start \/ EnsureRepository \/ Push \/ Topology
      PROVE  /\ UNCHANGED <<milestones, labels, issues, pulls, ci>>
             /\ refs' = refs \/ Push
             /\ repo' = repo \/ EnsureRepository \/ Push
             /\ known' = known \/ (known' = Blank /\ pc' \in Resting)
             /\ touched' = touched \/ Start
             /\ hasty' = hasty
  BY <1>1 DEF Start, EnsureRepository, Push, Topology
<1>2. ASSUME Find
      PROVE  UNCHANGED <<github, touched>>
  BY <1>2 DEF Find
<1>3. ASSUME EnsureMilestone \/ UpsertLabel \/ LeaveIssue
      PROVE  UNCHANGED <<repo, refs, issues, pulls, ci, known, touched, hasty>>
             /\ (milestones' = milestones \/ EnsureMilestone)
             /\ (labels' = labels \/ UpsertLabel)
  BY <1>3 DEF EnsureMilestone, UpsertLabel, LeaveIssue
<1>4. ASSUME CreateIssue \/ UpdateIssue
      PROVE  UNCHANGED <<repo, refs, milestones, labels, pulls, ci, touched, hasty>>
  BY <1>4 DEF CreateIssue, UpdateIssue
<1>5. ASSUME EnsureBase \/ EnsureHead \/ EnsureCandidate
      PROVE  /\ UNCHANGED <<repo, milestones, labels, issues, pulls, ci, touched,
                            hasty>>
             /\ known' = known \/ (known' = Blank /\ pc' \in Resting)
  BY <1>5 DEF EnsureBase, EnsureHead, EnsureCandidate
<1>6. ASSUME OpenPull \/ PatchText \/ PatchLabels
      PROVE  /\ UNCHANGED <<repo, refs, milestones, labels, issues, ci, touched,
                            hasty>>
             /\ known' = known \/ OpenPull \/ PatchLabels
  BY <1>6 DEF OpenPull, PatchText, PatchLabels
<1>7. ASSUME MergePull
      PROVE  UNCHANGED <<repo, milestones, labels, issues, ci, touched, hasty>>
  BY <1>7 DEF MergePull
<1>8. ASSUME Describe \/ Validate \/ Verify \/ Poll
      PROVE  /\ UNCHANGED <<github, touched, hasty>>
             /\ known' = known \/ (known' = Blank /\ pc' \in Resting)
  BY <1>8 DEF Describe, Validate, Verify, Poll
<1>9. ASSUME WriteEvidence
      PROVE  /\ UNCHANGED <<repo, refs, milestones, labels, pulls, ci, touched,
                            hasty>>
             /\ known' = Blank /\ pc' \in Resting
  BY <1>9 DEF WriteEvidence
<1> USE Run DEF Run
<1>10. QED
  BY <1>1, <1>2, <1>3, <1>4, <1>5, <1>6, <1>7, <1>8, <1>9

(***************************************************************************)
(* What GitHub and the people do outside the run leaves the run, and what  *)
(* the search has missed, alone; whoever edits is noticed.                 *)
(***************************************************************************)
LEMMA OutsideFrame ==
  ASSUME Edit \/ IndexSome \/ CheckSome
  PROVE  /\ UNCHANGED <<repo, milestones, labels, seeder, hasty>>
         /\ touched' = touched \/ touched' = TRUE
         /\ ~touched' => UNCHANGED <<touched, issues, pulls, refs>>
         /\ ci' = ci \/ CheckSome
         /\ refs' = refs \/ \E b \in Branches : DeleteBranch(b)
         /\ issues' = issues \/ \E n \in DOMAIN issues : EditIssue(n)
         /\ \/ pulls' = pulls \/ \E n \in DOMAIN pulls : EditPull(n)
            \/ \E b \in Branches : DeleteBranch(b)
<1>1. ASSUME Edit
      PROVE  /\ UNCHANGED <<repo, milestones, labels, seeder, hasty, ci>>
             /\ touched' = TRUE
             /\ refs' = refs \/ \E b \in Branches : DeleteBranch(b)
             /\ issues' = issues \/ \E n \in DOMAIN issues : EditIssue(n)
             /\ \/ pulls' = pulls \/ \E n \in DOMAIN pulls : EditPull(n)
                \/ \E b \in Branches : DeleteBranch(b)
  BY <1>1 DEF Edit, EditIssue, EditPull, DeleteBranch, Edited, seeder
<1>2. ASSUME IndexSome
      PROVE  UNCHANGED <<repo, milestones, labels, seeder, hasty, touched, ci, refs,
                         issues, pulls>>
  BY <1>2 DEF IndexSome, Index, others, seeder
<1>3. ASSUME CheckSome
      PROVE  UNCHANGED <<repo, milestones, labels, seeder, hasty, touched, refs,
                         issues, pulls>>
  BY <1>3 DEF CheckSome, Check, others, seeder
<1>4. QED
  BY <1>1, <1>2, <1>3

(***************************************************************************)
(* A step is one of the run, one outside it, its end, or none.             *)
(***************************************************************************)
Outside == Edit \/ IndexSome \/ CheckSome

LEMMA Steps ==
  ASSUME [Next]_vars
  PROVE  Run \/ Outside \/ Stop \/ UNCHANGED vars
BY DEF Next, Outside

LEMMA StopFrame ==
  ASSUME Stop
  PROVE  /\ UNCHANGED <<github, touched, hasty>>
         /\ pc' = "off" /\ item' = 1 /\ known' = Blank
BY DEF Stop, Fail, End, Goto

LEMMA StillFrame ==
  ASSUME UNCHANGED vars
  PROVE  UNCHANGED <<github, seeder, touched, hasty>>
BY DEF vars, others

(***************************************************************************)
(* The elements of the lists.                                              *)
(***************************************************************************)
LEMMA ItemPartKept ==
  ASSUME IInv, [Next]_vars
  PROVE  ItemPart'
<1> USE DEF Resting, Looking, Making, Filing, Building, Finishing
<1>1. /\ Len(Issues) \in Nat \ {0} /\ Len(Milestones) \in Nat \ {0}
      /\ Len(Labels) \in Nat \ {0} /\ Len(Markers) = Len(Issues) + 3
      /\ Len(Stages) = 3
  BY MarkerFacts, StageFacts
<1>2. ItemPart
  BY DEF IInv
<1>3. ASSUME UNCHANGED seeder PROVE ItemPart'
  BY <1>2, <1>3 DEF seeder, ItemPart
<1>4. ASSUME NEW s \in Resting \cup {"repository", "push", "topology"} \cup Finishing,
             Goto(s, 1)
      PROVE  ItemPart'
  BY <1>4 DEF Goto, ItemPart
<1>5. ASSUME NEW s \in {"find", "milestones", "labels", "issues"} \cup Building,
             Goto(s, 1)
      PROVE  ItemPart'
  BY <1>1, <1>5 DEF Goto, ItemPart
<1>6. ASSUME NEW s \in Building, pc \in Building, Goto(s, item)
      PROVE  ItemPart'
  BY <1>2, <1>6 DEF Goto, ItemPart
<1>7. ASSUME Fail("conflict") \/ Fail("off") \/ Fail("unavailable") \/ End("done")
      PROVE  ItemPart'
  BY <1>7, <1>4 DEF Fail, End
<1>8. CASE Run
  <2>1. CASE Start \/ EnsureRepository \/ Push
    BY <2>1, <1>4, <1>5 DEF Start, EnsureRepository, Push
  <2>2. CASE Find
    <3>1. pc = "find" /\ (Conflict \/ Advance(Markers, item, "find", "topology"))
      BY <2>2 DEF Find
    <3>2. CASE Advance(Markers, item, "find", "topology")
      BY <1>1, <1>2, <1>4, <3>1, <3>2 DEF Advance, Goto, ItemPart
    <3>3. QED
      BY <1>7, <3>1, <3>2 DEF Conflict
  <2>3. CASE Topology
    BY <2>3, <1>5, <1>7 DEF Topology, Conflict
  <2>4. CASE EnsureMilestone
    BY <2>4, <1>1, <1>2, <1>5 DEF EnsureMilestone, Advance, At, Goto, ItemPart
  <2>5. CASE UpsertLabel
    BY <2>5, <1>1, <1>2, <1>5 DEF UpsertLabel, Advance, At, Goto, ItemPart
  <2>6. CASE CreateIssue
    BY <2>6, <1>1, <1>2, <1>5
       DEF CreateIssue, NextIssue, Advance, At, Goto, ItemPart
  <2>7. CASE UpdateIssue \/ LeaveIssue
    <3>1. pc \in Filing /\ NextIssue
      BY <2>7 DEF UpdateIssue, LeaveIssue, At
    <3>2. QED
      BY <1>1, <1>2, <1>5, <3>1 DEF NextIssue, Advance, Goto, ItemPart
  <2>8. CASE EnsureBase \/ EnsureHead \/ OpenPull
    BY <2>8, <1>6, <1>7 DEF EnsureBase, EnsureHead, OpenPull, Conflict, At
  <2>9. CASE Describe \/ PatchText \/ PatchLabels \/ MergePull
    BY <2>9, <1>6, <1>7 DEF Describe, PatchText, PatchLabels, MergePull, Conflict, At
  <2>10. CASE Validate
    <3>1. pc = "validate" /\ (Conflict \/ Advance(Stages, item, "base", "candidate"))
      BY <2>10 DEF Validate, At
    <3>2. CASE Advance(Stages, item, "base", "candidate")
      BY <1>1, <1>2, <1>4, <3>1, <3>2 DEF Advance, Goto, ItemPart
    <3>3. QED
      BY <1>7, <3>1, <3>2 DEF Conflict
  <2>11. CASE EnsureCandidate \/ Verify
    BY <2>11, <1>4, <1>7 DEF EnsureCandidate, Verify, Conflict
  <2>12. CASE Poll
    BY <2>12, <1>2, <1>4, <1>7 DEF Poll, ItemPart
  <2>13. CASE WriteEvidence
    BY <2>13, <1>7 DEF WriteEvidence
  <2>14. QED
    BY <1>8, <2>1, <2>2, <2>3, <2>4, <2>5, <2>6, <2>7, <2>8, <2>9, <2>10, <2>11,
       <2>12, <2>13 DEF Run
<1>9. QED
  BY <1>3, <1>4, <1>8, Steps, OutsideFrame, StopFrame, StillFrame
     DEF Outside, Goto

-----------------------------------------------------------------------------
(***************************************************************************)
(* What is known of a marker is a record of it.                            *)
(***************************************************************************)
LEMMA CarryingFacts ==
  /\ \A p \in Pulls : Carrying(p) = {n \in DOMAIN pulls : pulls[n].stage = p}
  /\ \A key \in Elements(Issues) :
       Carrying(key) = {n \in DOMAIN issues : issues[n].key = key}
BY MarkerFacts DEF Carrying

(* The elements of the lists that a run is at.                             *)
LEMMA ItemFacts ==
  ASSUME IInv
  PROVE  /\ pc \in Filing => /\ item \in 1..Len(Issues)
                              /\ Issues[item] \in Elements(Issues)
         /\ pc \in Building => item \in 1..3 /\ Stages[item] \in Pulls
         /\ pc = "find" => /\ item \in 1..Len(Markers)
                           /\ Markers[item] \in Elements(Markers)
         /\ pc = "milestones" => item \in 1..Len(Milestones)
         /\ pc = "labels" => item \in 1..Len(Labels)
BY StageFacts, MarkerFacts DEF IInv, ItemPart

LEMMA KnownNumbers ==
  ASSUME IInv
  PROVE  /\ \A p \in Pulls : ~Missing(p) =>
              /\ IsKnownPull(known[p]) /\ known[p].number \in DOMAIN pulls
              /\ pulls[known[p].number].stage = p
         /\ \A key \in Elements(Issues) : ~Missing(key) =>
              /\ known[key] \in KnownIssue /\ known[key].number \in DOMAIN issues
              /\ issues[known[key].number].key = key
<1>1. \A x \in Elements(Markers) : ~Missing(x) => known[x].number \in Carrying(x)
  BY DEF IInv, KnownPart, Seen
<1>2. \A x : known[x] = Nothing => Missing(x)
  BY DEF Missing, Nothing
<1>3. TypePart
  BY DEF IInv
<1>4. \A p \in Pulls : ~Missing(p) => IsKnownPull(known[p])
  BY <1>2, <1>3 DEF TypePart
<1>5. \A key \in Elements(Issues) : ~Missing(key) => known[key] \in KnownIssue
  BY <1>2, <1>3 DEF TypePart
<1>6. QED
  BY <1>1, <1>4, <1>5, CarryingFacts, MarkerFacts

LEMMA BlankFacts ==
  /\ DOMAIN Blank = Elements(Markers)
  /\ \A x \in Elements(Markers) : Blank[x] = Nothing
  /\ Blank = [x \in Elements(Markers) |-> Blank[x]]
BY DEF Blank

(***************************************************************************)
(* The pull requests after a step: as they were, with one more, with one   *)
(* of them merged, or described and edited.                                *)
(***************************************************************************)
Same(n) ==
  /\ pulls'[n].stage = pulls[n].stage /\ pulls'[n].head = pulls[n].head
  /\ pulls'[n].merge = pulls[n].merge
  /\ pulls[n].merge # Absent => /\ pulls'[n].base = pulls[n].base
                                /\ pulls'[n].open = pulls[n].open

Redescribed ==
  DOMAIN pulls' = DOMAIN pulls /\ \A n \in DOMAIN pulls : Same(n)

(* The sequence s with the record r in the place of the n-th.              *)
LEMMA Replaced ==
  ASSUME NEW S, NEW s \in Seq(S), NEW n \in DOMAIN s, NEW t,
         t = [s EXCEPT ![n] = t[n]]
  PROVE  /\ DOMAIN t = DOMAIN s /\ Len(t) = Len(s)
         /\ t \in Seq(S \cup {t[n]})
         /\ \A m \in DOMAIN s : m # n => t[m] = s[m]
<1> DEFINE T == S \cup {t[n]}
<1>1. s \in Seq(T) /\ n \in 1..Len(s) /\ t[n] \in T
  BY LenProperties
<1>2. [s EXCEPT ![n] = t[n]] \in Seq(T) /\ Len([s EXCEPT ![n] = t[n]]) = Len(s)
  BY <1>1, ExceptSeq
<1>3. QED
  BY <1>2, LenProperties

(* An issue updated.                                                       *)
LEMMA PatchedFields ==
  ASSUME NEW issue \in IssueRecord, NEW key, NEW seen,
         LabelsFor(seen.labels) \in SUBSET LabelNames
  PROVE  /\ Patched(issue, key, seen) \in IssueRecord
         /\ Patched(issue, key, seen).key = issue.key
         /\ Patched(issue, key, seen).closed = (key \in Closed)
         /\ Patched(issue, key, seen).labels = LabelsFor(seen.labels)
         /\ Patched(issue, key, seen).body =
              IF BodyPreservedFor(key) THEN issue.body ELSE "defined"
<1> DEFINE a == [issue EXCEPT !.labels = LabelsFor(seen.labels)]
           b == [a EXCEPT !.closed = (key \in Closed)]
           c == [b EXCEPT !.body = IF BodyPreservedFor(key) THEN issue.body
                                                           ELSE "defined"]
<1>1. a \in IssueRecord /\ a.body = issue.body
  BY DEF IssueRecord
<1>2. b \in IssueRecord /\ b.body = issue.body
  <2>1. (key \in Closed) \in BOOLEAN
    OBVIOUS
  <2> HIDE DEF a
  <2>2. QED
    BY <1>1, <2>1 DEF IssueRecord
<1>3. c \in IssueRecord
  <2> HIDE DEF b
  <2>1. QED
    BY <1>2 DEF IssueRecord, Bodies
<1>4. Patched(issue, key, seen) = c
  BY DEF Patched
<1>5. /\ Patched(issue, key, seen).key = issue.key
      /\ Patched(issue, key, seen).labels = LabelsFor(seen.labels)
  BY DEF Patched, IssueRecord
<1>6. Patched(issue, key, seen).closed = (key \in Closed)
  BY DEF Patched, IssueRecord
<1>7. Patched(issue, key, seen).body =
        IF BodyPreservedFor(key) THEN issue.body ELSE "defined"
  BY DEF Patched, IssueRecord
<1>8. QED
  BY <1>3, <1>4, <1>5, <1>6, <1>7

LEMMA IssuesTyped ==
  ASSUME IInv, [Next]_vars
  PROVE  /\ issues' \in Seq(IssueRecord)
         /\ \/ issues' = issues
            \/ /\ CreateIssue
               /\ Len(issues') = Len(issues) + 1
               /\ \A n \in DOMAIN issues : issues'[n] = issues[n]
               /\ issues'[Len(issues) + 1] = Drafted(Issues[item])
            \/ /\ Len(issues') = Len(issues)
               /\ \A n \in DOMAIN issues : issues'[n].key = issues[n].key
<1> DEFINE after(n) == /\ Len(issues') = Len(issues)
                       /\ issues' \in Seq(IssueRecord \cup {issues'[n]})
                       /\ \A m \in DOMAIN issues : m # n => issues'[m] = issues[m]
<1>1. issues \in Seq(IssueRecord) /\ Len(issues) \in Nat
      /\ DOMAIN issues = 1..Len(issues)
  <2>1. issues \in Seq(IssueRecord)
    BY DEF IInv, TypePart
  <2>2. QED
    BY <2>1, LenProperties
<1>2. ASSUME NEW n \in DOMAIN issues, issues' = [issues EXCEPT ![n] = issues'[n]]
      PROVE  after(n)
  BY <1>1, <1>2, Replaced
<1>3. ASSUME CreateIssue
      PROVE  /\ issues' \in Seq(IssueRecord)
             /\ Len(issues') = Len(issues) + 1
             /\ \A n \in DOMAIN issues : issues'[n] = issues[n]
             /\ issues'[Len(issues) + 1] = Drafted(Issues[item])
  <2>1. Issues[item] \in Elements(Issues)
    <3>1. pc = "issues"
      BY <1>3 DEF CreateIssue, At
    <3>2. QED
      BY <3>1, ItemFacts DEF Filing
  <2>2. Drafted(Issues[item]) \in IssueRecord
    BY <2>1 DEF Drafted, IssueRecord, LabelNames, Bodies
  <2>3. issues' = Append(issues, Drafted(Issues[item]))
    BY <1>3 DEF CreateIssue
  <2>4. QED
    BY <1>1, <2>2, <2>3, AppendProperties
<1>4. ASSUME UpdateIssue
      PROVE  \E n \in DOMAIN issues :
               after(n) /\ issues'[n] \in IssueRecord
                        /\ issues'[n].key = issues[n].key
  <2> DEFINE key == Issues[item]
             n   == known[key].number
  <2>1. pc \in Filing /\ (pc = "close" \/ ~Missing(key))
    BY <1>4 DEF UpdateIssue, At, Filing
  <2>2. key \in Elements(Issues)
    BY <2>1, ItemFacts
  <2>3. ~Missing(key)
    BY <2>1 DEF IInv, IssuePart
  <2>4. n \in DOMAIN issues /\ known[key] \in KnownIssue /\ issues[n].key = key
    BY <2>2, <2>3, KnownNumbers
  <2>5. /\ issues' = [issues EXCEPT ![n] = Patched(issues[n], key, known[key])]
        /\ issues'[n] = Patched(issues[n], key, known[key])
    BY <1>4, <2>4 DEF UpdateIssue
  <2>6. issues[n] \in IssueRecord
    BY <1>1, <2>4, ElementOfSeq
  <2>7. LabelsFor(known[key].labels) \in SUBSET LabelNames
    BY <2>4 DEF LabelsFor, KnownIssue, LabelNames
  <2>8. /\ Patched(issues[n], key, known[key]) \in IssueRecord
        /\ Patched(issues[n], key, known[key]).key = issues[n].key
    BY <2>6, <2>7, PatchedFields
  <2>9. QED
    BY <1>2, <2>4, <2>5, <2>8
<1>5. ASSUME WriteEvidence, issues' # issues
      PROVE  \E n \in DOMAIN issues :
               after(n) /\ issues'[n] \in IssueRecord
                        /\ issues'[n].key = issues[n].key
  <2> DEFINE n == known[Operations].number
  <2>1. Operations \in Elements(Issues) /\ pc = "evidence"
    BY <1>5, MarkerFacts DEF WriteEvidence, At
  <2>2. ~Missing(Operations)
    BY <2>1, MarkerFacts DEF IInv, IssuePart, Filed, Finishing, Elements
  <2>3. n \in DOMAIN issues
    BY <2>1, <2>2, KnownNumbers
  <2>4. issues[n] \in IssueRecord
    BY <1>1, <2>3, ElementOfSeq
  <2>5. /\ issues' = [issues EXCEPT ![n].body = "evidence"]
        /\ issues'[n] = [issues[n] EXCEPT !.body = "evidence"]
    BY <1>5, <2>3 DEF WriteEvidence
  <2>6. issues'[n] \in IssueRecord /\ issues'[n].key = issues[n].key
    BY <2>4, <2>5 DEF IssueRecord, Bodies
  <2>7. QED
    BY <1>2, <2>3, <2>5, <2>6
<1>6. ASSUME NEW n \in DOMAIN issues, EditIssue(n)
      PROVE  after(n) /\ issues'[n] \in IssueRecord
                      /\ issues'[n].key = issues[n].key
  <2>1. issues[n] \in IssueRecord
    BY <1>1, ElementOfSeq
  <2>2. \/ \E l \in {"foreign", "unwanted"} :
             issues' = [issues EXCEPT ![n] =
               [issues[n] EXCEPT !.labels = issues[n].labels \cup {l}]]
        \/ issues' = [issues EXCEPT ![n] =
             [issues[n] EXCEPT !.labels = issues[n].labels \ {"wanted"}]]
        \/ issues' = [issues EXCEPT ![n] =
             [issues[n] EXCEPT !.closed = ~issues[n].closed]]
        \/ issues' = [issues EXCEPT ![n] = [issues[n] EXCEPT !.body = "edited"]]
    BY <1>6 DEF EditIssue
  <2>3. /\ issues' = [issues EXCEPT ![n] = issues'[n]]
        /\ \/ \E l \in {"foreign", "unwanted"} :
                issues'[n] = [issues[n] EXCEPT !.labels = @ \cup {l}]
           \/ issues'[n] = [issues[n] EXCEPT !.labels = @ \ {"wanted"}]
           \/ issues'[n] = [issues[n] EXCEPT !.closed = ~@]
           \/ issues'[n] = [issues[n] EXCEPT !.body = "edited"]
    BY <2>2
  <2>4. issues'[n] \in IssueRecord /\ issues'[n].key = issues[n].key
    <3>1. CASE \E l \in {"foreign", "unwanted"} :
                 issues'[n] = [issues[n] EXCEPT !.labels = issues[n].labels \cup {l}]
      <4>1. PICK l \in {"foreign", "unwanted"} :
              issues'[n] = [issues[n] EXCEPT !.labels = issues[n].labels \cup {l}]
        BY <3>1
      <4>2. issues[n].labels \cup {l} \in SUBSET LabelNames
        BY <2>1 DEF IssueRecord, LabelNames
      <4>3. QED
        BY <2>1, <4>1, <4>2 DEF IssueRecord
    <3>2. CASE issues'[n] = [issues[n] EXCEPT !.labels = issues[n].labels \ {"wanted"}]
      <4>1. issues[n].labels \ {"wanted"} \in SUBSET LabelNames
        BY <2>1 DEF IssueRecord
      <4>2. QED
        BY <2>1, <3>2, <4>1 DEF IssueRecord
    <3>3. CASE \/ issues'[n] = [issues[n] EXCEPT !.closed = ~issues[n].closed]
               \/ issues'[n] = [issues[n] EXCEPT !.body = "edited"]
      BY <2>1, <3>3 DEF IssueRecord, Bodies
    <3>4. QED
      BY <2>3, <3>1, <3>2, <3>3
  <2>5. QED
    BY <1>2, <2>3, <2>4
<1>7. ASSUME NEW n \in DOMAIN issues, after(n), issues'[n] \in IssueRecord,
             issues'[n].key = issues[n].key
      PROVE  /\ issues' \in Seq(IssueRecord) /\ Len(issues') = Len(issues)
             /\ \A m \in DOMAIN issues : issues'[m].key = issues[m].key
  <2>1. IssueRecord \cup {issues'[n]} = IssueRecord
    BY <1>7
  <2>2. QED
    BY <1>7, <2>1
<1> HIDE DEF after
<1>8. CASE issues' = issues
  BY <1>1, <1>8
<1>9. CASE CreateIssue
  BY <1>3, <1>9
<1>10. CASE UpdateIssue \/ (WriteEvidence /\ issues' # issues)
            \/ \E n \in DOMAIN issues : EditIssue(n)
  BY <1>4, <1>5, <1>6, <1>7, <1>10
<1>11. QED
  BY <1>8, <1>9, <1>10, Steps, RunFrame, OutsideFrame, StopFrame, StillFrame
     DEF Outside, github

(* A pull request just opened.                                             *)
Opened(p) ==
  [stage |-> p, base |-> Base(p), open |-> TRUE, head |-> refs[p],
   merge |-> Absent, text |-> TRUE, labelled |-> FALSE]

(* A pull request merged onto the base that it has.                        *)
MergedNow(n, head) ==
  /\ n \in DOMAIN pulls /\ pulls[n].open /\ pulls[n].merge = Absent
  /\ DOMAIN pulls' = DOMAIN pulls
  /\ \A m \in DOMAIN pulls : m # n => pulls'[m] = pulls[m]
  /\ pulls'[n] = [pulls[n] EXCEPT
                    !.merge = MergeOf(n, refs[pulls[n].base], head),
                    !.open = FALSE]
  /\ pulls'[n].merge = MergeOf(n, refs[pulls[n].base], head)
  /\ pulls'[n].stage = pulls[n].stage /\ pulls'[n].head = pulls[n].head
  /\ pulls'[n].base = pulls[n].base /\ ~pulls'[n].open
  /\ pulls'[n].text = pulls[n].text
  /\ pulls'[n].labelled = pulls[n].labelled

(***************************************************************************)
(* One field of a pull request changed.                                    *)
(***************************************************************************)
LEMMA PullChanged ==
  ASSUME NEW r, IsPull(r), NEW t,
         \/ t \in {[r EXCEPT !.text = TRUE], [r EXCEPT !.text = FALSE],
                   [r EXCEPT !.labelled = TRUE], [r EXCEPT !.labelled = FALSE],
                   [r EXCEPT !.open = FALSE]}
         \/ r.merge = Absent /\ t = [r EXCEPT !.open = TRUE]
         \/ r.open /\ \E b \in {"main", "previous"} : t = [r EXCEPT !.base = b]
  PROVE  /\ IsPull(t) /\ t.stage = r.stage /\ t.head = r.head /\ t.merge = r.merge
         /\ r.merge # Absent => t.base = r.base /\ t.open = r.open
<1>1. CASE t \in {[r EXCEPT !.text = TRUE], [r EXCEPT !.text = FALSE],
                  [r EXCEPT !.labelled = TRUE], [r EXCEPT !.labelled = FALSE]}
  BY <1>1 DEF IsPull
<1>2. CASE t = [r EXCEPT !.open = FALSE]
  BY <1>2 DEF IsPull
<1>3. CASE r.merge = Absent /\ t = [r EXCEPT !.open = TRUE]
  BY <1>3 DEF IsPull
<1>4. CASE r.open /\ \E b \in {"main", "previous"} : t = [r EXCEPT !.base = b]
  BY <1>4 DEF IsPull
<1>5. QED
  BY <1>1, <1>2, <1>3, <1>4

(***************************************************************************)
(* What people do to a pull request: one that they open again, or give     *)
(* another base, has no twin there.                                        *)
(***************************************************************************)
LEMMA EditedPull ==
  ASSUME IInv, NEW n \in DOMAIN pulls, EditPull(n)
  PROVE  /\ pulls' = [pulls EXCEPT ![n] = pulls'[n]]
         /\ IsPull(pulls'[n]) /\ Same(n)
         /\ \/ pulls'[n].base = pulls[n].base /\ (pulls'[n].open => pulls[n].open)
            \/ ~Taken(pulls[n].stage, pulls'[n].base)
<1>1. IsPull(pulls[n])
  BY DEF IInv, TypePart
<1>2. \/ pulls' = [pulls EXCEPT ![n] = [pulls[n] EXCEPT !.text = FALSE]]
      \/ pulls' = [pulls EXCEPT ![n] = [pulls[n] EXCEPT !.labelled = FALSE]]
      \/ pulls' = [pulls EXCEPT ![n] = [pulls[n] EXCEPT !.open = FALSE]]
      \/ /\ pulls[n].merge = Absent /\ ~Taken(pulls[n].stage, pulls[n].base)
         /\ pulls' = [pulls EXCEPT ![n] = [pulls[n] EXCEPT !.open = TRUE]]
      \/ \E b \in {"main", "previous"} :
           /\ pulls[n].open /\ ~Taken(pulls[n].stage, b)
           /\ pulls' = [pulls EXCEPT ![n] = [pulls[n] EXCEPT !.base = b]]
  BY DEF EditPull
<1>3. /\ pulls' = [pulls EXCEPT ![n] = pulls'[n]]
      /\ \/ pulls'[n] \in {[pulls[n] EXCEPT !.text = FALSE],
                           [pulls[n] EXCEPT !.labelled = FALSE],
                           [pulls[n] EXCEPT !.open = FALSE]}
         \/ /\ pulls[n].merge = Absent /\ ~Taken(pulls[n].stage, pulls[n].base)
            /\ pulls'[n] = [pulls[n] EXCEPT !.open = TRUE]
         \/ \E b \in {"main", "previous"} :
              /\ pulls[n].open /\ ~Taken(pulls[n].stage, b)
              /\ pulls'[n] = [pulls[n] EXCEPT !.base = b]
  BY <1>2
<1>4. /\ IsPull(pulls'[n]) /\ Same(n)
  BY <1>1, <1>3, PullChanged DEF Same
<1>5. \/ pulls'[n].base = pulls[n].base /\ (pulls'[n].open => pulls[n].open)
      \/ ~Taken(pulls[n].stage, pulls'[n].base)
  BY <1>1, <1>3 DEF IsPull
<1>6. QED
  BY <1>3, <1>4, <1>5

(***************************************************************************)
(* Deleting a branch closes pull requests, and does nothing else to them.  *)
(***************************************************************************)
LEMMA DeletedPulls ==
  ASSUME IInv, NEW b \in Branches, DeleteBranch(b)
  PROVE  /\ DOMAIN pulls' = DOMAIN pulls
         /\ pulls' = [n \in DOMAIN pulls |-> pulls'[n]]
         /\ \A n \in DOMAIN pulls :
              /\ IsPull(pulls'[n]) /\ Same(n) /\ pulls'[n].base = pulls[n].base
              /\ pulls'[n].open => pulls[n].open
<1> DEFINE r(n) == [pulls[n] EXCEPT !.open = @ /\ ~ClosedBy(b, pulls[n])]
<1>1. pulls' = [n \in DOMAIN pulls |-> r(n)]
  BY DEF DeleteBranch
<1>2. SUFFICES ASSUME NEW n \in DOMAIN pulls
               PROVE  /\ IsPull(pulls'[n]) /\ Same(n)
                      /\ pulls'[n].base = pulls[n].base
                      /\ pulls'[n].open => pulls[n].open
  BY <1>1
<1>3. IsPull(pulls[n])
  BY DEF IInv, TypePart
<1>4. pulls'[n] = r(n)
  BY <1>1
<1>5. CASE pulls[n].open /\ ~ClosedBy(b, pulls[n])
  <2>1. pulls'[n] = [pulls[n] EXCEPT !.open = TRUE] /\ pulls[n].merge = Absent
    BY <1>3, <1>4, <1>5 DEF IsPull
  <2>2. pulls'[n].base = pulls[n].base /\ pulls'[n].open = TRUE
    BY <1>3, <2>1 DEF IsPull
  <2>3. IsPull(pulls'[n]) /\ Same(n)
    BY <1>3, <2>1, PullChanged DEF Same
  <2>4. QED
    BY <1>5, <2>2, <2>3
<1>6. CASE ~(pulls[n].open /\ ~ClosedBy(b, pulls[n]))
  <2>1. pulls'[n] = [pulls[n] EXCEPT !.open = FALSE]
    BY <1>4, <1>6
  <2>2. pulls'[n].base = pulls[n].base /\ pulls'[n].open = FALSE
    BY <1>3, <2>1 DEF IsPull
  <2>3. IsPull(pulls'[n]) /\ Same(n)
    BY <1>3, <2>1, PullChanged DEF Same
  <2>4. QED
    BY <2>2, <2>3
<1>7. QED
  BY <1>5, <1>6

(***************************************************************************)
(* The pull requests after a step: as they were, with one more, with one   *)
(* of them merged, or described.                                           *)
(***************************************************************************)
LEMMA PullsTyped ==
  ASSUME IInv, [Next]_vars
  PROVE  /\ pulls' \in Seq(Elements(pulls'))
         /\ \A n \in DOMAIN pulls' : IsPull(pulls'[n])
         /\ \/ pulls' = pulls
            \/ /\ OpenPull /\ ~Refused(Stages[item]) /\ Len(pulls') = Len(pulls) + 1
               /\ \A n \in DOMAIN pulls : pulls'[n] = pulls[n]
               /\ pulls'[Len(pulls) + 1] = Opened(Stages[item])
            \/ /\ MergePull /\ known[Stages[item]].merge = Absent
               /\ ~BaseMoved(Stages[item])
               /\ MergedNow(known[Stages[item]].number, known[Stages[item]].head)
            \/ /\ \/ PatchText \/ PatchLabels \/ \E n \in DOMAIN pulls : EditPull(n)
                  \/ \E b \in Branches : DeleteBranch(b)
               /\ Redescribed
<1>1. /\ pulls \in Seq(Elements(pulls)) /\ Len(pulls) \in Nat
      /\ DOMAIN pulls = 1..Len(pulls) /\ \A n \in DOMAIN pulls : IsPull(pulls[n])
  <2>1. pulls \in Seq(Elements(pulls)) /\ \A n \in DOMAIN pulls : IsPull(pulls[n])
    BY DEF IInv, TypePart
  <2>2. QED
    BY <2>1, LenProperties
<1>2. ASSUME NEW S, pulls' \in Seq(S) PROVE pulls' \in Seq(Elements(pulls'))
  <2>1. pulls' \in [1..Len(pulls') -> Elements(pulls')] /\ Len(pulls') \in Nat
    BY <1>2, LenProperties DEF Elements
  <2>2. QED
    BY <2>1
<1>3. CASE OpenPull /\ pulls' # pulls
  <2> DEFINE p == Stages[item]
             r == Opened(p)
             S == Elements(pulls) \cup {r}
  <2>1. pc \in Building /\ p \in Pulls
    BY <1>3, ItemFacts DEF OpenPull, At, Building
  <2>2. pulls' = Append(pulls, r)
    BY <1>3 DEF OpenPull, Opened, Conflict, Fail, github
  <2>3. pulls \in Seq(S) /\ r \in S
    BY <1>1
  <2>4. /\ pulls' \in Seq(S) /\ Len(pulls') = Len(pulls) + 1
        /\ \A n \in 1..Len(pulls) : pulls'[n] = pulls[n]
        /\ pulls'[Len(pulls) + 1] = r
    BY <2>2, <2>3, AppendProperties
  <2>5. DOMAIN pulls' = 1..Len(pulls) + 1
    BY <2>4, LenProperties
  <2>6. IsPull(r)
    BY <2>1, StageFacts DEF IsPull, Opened
  <2>7. ~Refused(p)
    BY <1>3 DEF OpenPull, Conflict, Fail, github
  <2>8. \A n \in DOMAIN pulls' : IsPull(pulls'[n])
    BY <1>1, <2>4, <2>5, <2>6
  <2>9. QED
    BY <1>1, <1>2, <1>3, <2>4, <2>7, <2>8
<1>4. ASSUME NEW n \in DOMAIN pulls, pulls' = [pulls EXCEPT ![n] = pulls'[n]],
             IsPull(pulls'[n])
      PROVE  /\ pulls' \in Seq(Elements(pulls'))
             /\ \A m \in DOMAIN pulls' : IsPull(pulls'[m])
             /\ DOMAIN pulls' = DOMAIN pulls
             /\ \A m \in DOMAIN pulls : m # n => pulls'[m] = pulls[m]
  <2>1. /\ DOMAIN pulls' = DOMAIN pulls
        /\ pulls' \in Seq(Elements(pulls) \cup {pulls'[n]})
        /\ \A m \in DOMAIN pulls : m # n => pulls'[m] = pulls[m]
    BY <1>1, <1>4, Replaced
  <2>2. QED
    BY <1>1, <1>2, <1>4, <2>1
<1>5. CASE MergePull /\ pulls' # pulls
  <2> DEFINE p == Stages[item]
             n == known[p].number
             c == MergeOf(n, refs[pulls[n].base], known[p].head)
  <2>1. pc \in Building /\ p \in Pulls /\ pc = "merge"
    BY <1>5, ItemFacts DEF MergePull, At, Building
  <2>2. ~Missing(p)
    BY <2>1, ItemFacts DEF IInv, StagePart, Staged, Past, Building
  <2>3. n \in DOMAIN pulls /\ IsPull(pulls[n])
    BY <1>1, <2>1, <2>2, KnownNumbers
  <2>4. /\ known[p].merge = Absent /\ ~BaseMoved(p) /\ pulls[n].open
        /\ pulls' = [pulls EXCEPT ![n].merge = c, ![n].open = FALSE]
    BY <1>5 DEF MergePull, Conflict, Fail, Quietly, github
  <2> HIDE DEF c
  <2>5. /\ pulls'[n] = [pulls[n] EXCEPT !.merge = c, !.open = FALSE]
        /\ pulls' = [pulls EXCEPT ![n] = pulls'[n]]
    BY <1>1, <2>3, <2>4
  <2>6. /\ IsPull(pulls'[n]) /\ pulls'[n].merge = c
        /\ pulls'[n].stage = pulls[n].stage /\ pulls'[n].head = pulls[n].head
        /\ pulls'[n].base = pulls[n].base /\ pulls'[n].open = FALSE
        /\ pulls'[n].text = pulls[n].text /\ pulls'[n].labelled = pulls[n].labelled
    BY <2>3, <2>5 DEF IsPull
  <2>7. pulls[n].merge = Absent
    BY <2>3, <2>4 DEF IsPull
  <2>8. MergedNow(n, known[p].head)
    BY <1>4, <2>3, <2>4, <2>5, <2>6, <2>7 DEF MergedNow, c
  <2>9. QED
    BY <1>4, <1>5, <2>3, <2>4, <2>5, <2>6, <2>8
<1>6. ASSUME NEW n \in DOMAIN pulls, pulls' = [pulls EXCEPT ![n] = pulls'[n]],
             IsPull(pulls'[n]), Same(n)
      PROVE  /\ pulls' \in Seq(Elements(pulls'))
             /\ \A m \in DOMAIN pulls' : IsPull(pulls'[m])
             /\ Redescribed
  BY <1>4, <1>6 DEF Redescribed, Same
<1>7. CASE PatchText \/ PatchLabels
  <2> DEFINE p == Stages[item]
             n == known[p].number
  <2>1. pc \in Building /\ p \in Pulls /\ pc \in {"text", "label"}
    BY <1>7, ItemFacts DEF PatchText, PatchLabels, At, Building
  <2>2. ~Missing(p)
    BY <2>1, ItemFacts DEF IInv, StagePart, Staged, Past, Building
  <2>3. n \in DOMAIN pulls
    BY <2>1, <2>2, KnownNumbers
  <2>4. /\ pulls' = [pulls EXCEPT ![n] = pulls'[n]]
        /\ pulls'[n] \in {[pulls[n] EXCEPT !.text = TRUE],
                          [pulls[n] EXCEPT !.labelled = TRUE]}
    BY <1>1, <1>7, <2>3 DEF PatchText, PatchLabels
  <2>5. IsPull(pulls'[n]) /\ Same(n)
    BY <1>1, <2>3, <2>4, PullChanged DEF Same
  <2>6. QED
    BY <1>6, <1>7, <2>3, <2>4, <2>5
<1>8. CASE \E n \in DOMAIN pulls : EditPull(n)
  BY <1>6, <1>8, EditedPull
<1>9. CASE \E b \in Branches : DeleteBranch(b)
  <2>1. /\ DOMAIN pulls' = DOMAIN pulls
        /\ pulls' = [n \in DOMAIN pulls |-> pulls'[n]]
        /\ \A n \in DOMAIN pulls : IsPull(pulls'[n]) /\ Same(n)
    BY <1>9, DeletedPulls
  <2>2. pulls' \in Seq({pulls'[n] : n \in DOMAIN pulls})
    BY <1>1, <2>1
  <2>3. QED
    BY <1>2, <1>9, <2>1, <2>2 DEF Redescribed
<1>10. CASE pulls' = pulls
  BY <1>1, <1>10
<1>11. QED
  BY <1>3, <1>5, <1>7, <1>8, <1>9, <1>10, Steps, RunFrame, OutsideFrame, StopFrame,
     StillFrame DEF Outside, github

(***************************************************************************)
(* No record is lost, renamed or unmerged, and what is merged stays where  *)
(* it was merged.                                                          *)
(***************************************************************************)
LEMMA RecordsGrow ==
  ASSUME IInv, [Next]_vars
  PROVE  /\ \A n \in DOMAIN pulls :
              /\ n \in DOMAIN pulls'
              /\ pulls'[n].stage = pulls[n].stage /\ pulls'[n].head = pulls[n].head
              /\ pulls[n].merge # Absent => /\ pulls'[n].merge = pulls[n].merge
                                            /\ pulls'[n].base = pulls[n].base
                                            /\ pulls'[n].open = pulls[n].open
         /\ \A n \in DOMAIN issues :
              n \in DOMAIN issues' /\ issues'[n].key = issues[n].key
         /\ \A x \in Elements(Markers) : Carrying(x) \subseteq Carrying(x)'
         /\ \A p : /\ Merged(pulls, p) \subseteq Merged(pulls', p)
                   /\ Parents(pulls, p) \subseteq Parents(pulls', p)
                   /\ Astray(pulls, p) \subseteq Astray(pulls', p)
<1>1. /\ DOMAIN pulls = 1..Len(pulls) /\ Len(pulls) \in Nat
      /\ DOMAIN issues = 1..Len(issues) /\ Len(issues) \in Nat
  <2>1. pulls \in Seq(Elements(pulls)) /\ issues \in Seq(IssueRecord)
    BY DEF IInv, TypePart
  <2>2. QED
    BY <2>1, LenProperties
<1>2. DOMAIN pulls' = 1..Len(pulls') /\ DOMAIN issues' = 1..Len(issues')
  BY PullsTyped, IssuesTyped, LenProperties
<1>3. \A n \in DOMAIN issues : n \in DOMAIN issues' /\ issues'[n].key = issues[n].key
  <2>1. \/ issues' = issues
        \/ /\ Len(issues') = Len(issues) + 1
           /\ \A n \in DOMAIN issues : issues'[n] = issues[n]
        \/ /\ Len(issues') = Len(issues)
           /\ \A n \in DOMAIN issues : issues'[n].key = issues[n].key
    BY IssuesTyped
  <2>2. CASE issues' = issues
    BY <2>2
  <2>3. CASE /\ Len(issues') = Len(issues) + 1
             /\ \A n \in DOMAIN issues : issues'[n] = issues[n]
    <3>1. ASSUME NEW n \in 1..Len(issues)
          PROVE  n \in 1..Len(issues') /\ issues'[n] = issues[n]
      BY <1>1, <2>3
    <3>2. QED
      BY <1>1, <1>2, <3>1
  <2>4. CASE /\ Len(issues') = Len(issues)
             /\ \A n \in DOMAIN issues : issues'[n].key = issues[n].key
    BY <1>1, <1>2, <2>4
  <2>5. QED
    BY <2>1, <2>2, <2>3, <2>4
<1>4. \A n \in DOMAIN pulls :
        /\ n \in DOMAIN pulls'
        /\ pulls'[n].stage = pulls[n].stage /\ pulls'[n].head = pulls[n].head
        /\ pulls[n].merge # Absent => /\ pulls'[n].merge = pulls[n].merge
                                      /\ pulls'[n].base = pulls[n].base
                                      /\ pulls'[n].open = pulls[n].open
  <2>1. CASE pulls' = pulls
    BY <2>1
  <2>2. CASE /\ Len(pulls') = Len(pulls) + 1
             /\ \A n \in DOMAIN pulls : pulls'[n] = pulls[n]
    BY <2>2, <1>1, <1>2
  <2>3. CASE Redescribed
    BY <2>3 DEF Redescribed, Same
  <2>4. CASE MergedNow(known[Stages[item]].number, known[Stages[item]].head)
    BY <2>4 DEF MergedNow
  <2>5. QED
    BY <2>1, <2>2, <2>3, <2>4, PullsTyped
<1>5. \A p : Merged(pulls, p) \subseteq Merged(pulls', p)
  BY <1>4 DEF Merged
<1>6. \A p : Parents(pulls, p) \subseteq Parents(pulls', p)
  BY <1>4, <1>5 DEF Parents, Merged
<1>7. \A x : Carrying(x) \subseteq Carrying(x)'
  BY <1>3, <1>4 DEF Carrying
<1>8. \A b : Astray(pulls, b) \subseteq Astray(pulls', b)
  BY <1>4 DEF Astray
<1>9. QED
  BY <1>3, <1>4, <1>5, <1>6, <1>7, <1>8

LEMMA RefsTyped ==
  ASSUME IInv, [Next]_vars
  PROVE  DOMAIN refs' = Branches /\ refs' = [b \in Branches |-> refs'[b]]
<1>1. DOMAIN refs = Branches /\ refs = [b \in Branches |-> refs[b]]
  BY DEF IInv, TypePart
<1>2. ASSUME NEW b, NEW c, refs' = [refs EXCEPT ![b] = c]
      PROVE  DOMAIN refs' = Branches /\ refs' = [x \in Branches |-> refs'[x]]
  BY <1>1, <1>2
<1>3. CASE refs' = refs
  BY <1>1, <1>3
<1>4. CASE Push \/ EnsureCandidate \/ \E b \in Branches : DeleteBranch(b)
  BY <1>2, <1>4 DEF Push, EnsureCandidate, DeleteBranch
<1>5. CASE EnsureBase \/ EnsureHead \/ MergePull
  BY <1>2, <1>3, <1>5
     DEF EnsureBase, EnsureHead, MergePull, Conflict, Fail, Quietly, github
<1>6. QED
  BY <1>3, <1>4, <1>5, Steps, RunFrame, OutsideFrame, StopFrame, StillFrame
     DEF Outside, github

(***************************************************************************)
(* What the run knows after a step: as before, nothing, or something new   *)
(* of the marker it is at.                                                 *)
(***************************************************************************)
KnownShape(r, x) ==
  IF x \in Pulls THEN r = Nothing \/ (IsKnownPull(r) /\ r.number \in Nat \ {0})
                 ELSE r \in KnownIssue \cup {Nothing}

LEMMA KnownTyped ==
  ASSUME IInv, [Next]_vars
  PROVE  /\ DOMAIN known' = Elements(Markers)
         /\ known' = [x \in Elements(Markers) |-> known'[x]]
         /\ \A x \in Elements(Markers) : KnownShape(known'[x], x)
         /\ \/ known' = known \/ (known' = Blank /\ pc' \in Resting)
            \/ /\ Find /\ ~Conflict
               /\ known' = [known EXCEPT ![Markers[item]] = known'[Markers[item]]]
            \/ /\ CreateIssue \/ UpdateIssue
               /\ known' = [known EXCEPT ![Issues[item]] = known'[Issues[item]]]
            \/ /\ OpenPull \/ PatchLabels \/ MergePull
               /\ known' = [known EXCEPT ![Stages[item]] = known'[Stages[item]]]
<1>1. /\ DOMAIN known = Elements(Markers)
      /\ known = [x \in Elements(Markers) |-> known[x]]
      /\ \A x \in Elements(Markers) : KnownShape(known[x], x)
  BY MarkerFacts DEF IInv, TypePart, KnownShape
<1>2. ASSUME NEW x \in Elements(Markers), KnownShape(known'[x], x),
             known' = [known EXCEPT ![x] = known'[x]]
      PROVE  /\ DOMAIN known' = Elements(Markers)
             /\ known' = [y \in Elements(Markers) |-> known'[y]]
             /\ \A y \in Elements(Markers) : KnownShape(known'[y], y)
  BY <1>1, <1>2
<1>3. CASE known' = known
  BY <1>1, <1>3
<1>4. CASE known' = Blank /\ pc' \in Resting
  BY <1>4, BlankFacts DEF KnownShape
<1>5. CASE Find /\ ~Conflict
  <2> DEFINE x == Markers[item]
  <2>1. x \in Elements(Markers)
    BY <1>5, ItemFacts DEF Find
  <2>2. PICK r : /\ known' = [known EXCEPT ![x] = r]
                 /\ r = Nothing \/ \E n \in Hits(x) : r = Detail(x, n)
    BY <1>5 DEF Find
  <2>3. known'[x] = r
    BY <1>1, <2>1, <2>2
  <2>4. KnownShape(r, x)
    <3>1. SUFFICES ASSUME NEW n \in Hits(x), r = Detail(x, n)
                   PROVE  KnownShape(r, x)
      BY <2>2 DEF KnownShape
    <3>2. CASE x \in Pulls
      <4>1. n \in DOMAIN pulls
        BY <3>2, CarryingFacts DEF Hits
      <4>2. n \in Nat \ {0}
        BY <4>1, LenProperties DEF IInv, TypePart
      <4>3. QED
        BY <3>1, <3>2, <4>1, <4>2
           DEF Detail, PullAt, IsKnownPull, KnownShape, IInv, TypePart, IsPull
    <3>3. CASE x \notin Pulls
      <4>1. n \in 1..Len(issues) /\ issues \in Seq(IssueRecord)
        BY <2>1, <3>3, CarryingFacts, MarkerFacts, LenProperties
           DEF Hits, IInv, TypePart
      <4>2. issues[n] \in IssueRecord /\ n \in Nat \ {0}
        BY <4>1, ElementOfSeq, LenProperties
      <4>3. QED
        BY <3>1, <3>3, <4>2
           DEF Detail, IssueAt, IssueRecord, KnownIssue, KnownShape
    <3>4. QED
      BY <3>2, <3>3
  <2>5. QED
    BY <1>2, <1>5, <2>1, <2>2, <2>3, <2>4
<1>6. CASE CreateIssue \/ UpdateIssue
  <2> DEFINE x == Issues[item]
  <2>1. x \in Elements(Issues) /\ x \in Elements(Markers) /\ x \notin Pulls
    BY <1>6, ItemFacts, MarkerFacts DEF CreateIssue, UpdateIssue, At, Filing
  <2>2. issues \in Seq(IssueRecord) /\ Len(issues) \in Nat
    BY LenProperties DEF IInv, TypePart
  <2>3. CASE CreateIssue
    <3>1. known' = [known EXCEPT ![x] = [number |-> Len(issues) + 1,
             closed |-> FALSE, labels |-> {"wanted"}, body |-> "defined"]]
      BY <2>3 DEF CreateIssue
    <3>2. known'[x] = [number |-> Len(issues) + 1, closed |-> FALSE,
                       labels |-> {"wanted"}, body |-> "defined"]
      BY <1>1, <2>1, <3>1
    <3>3. known'[x] \in KnownIssue
      BY <2>2, <3>2 DEF KnownIssue, LabelNames, Bodies
    <3>4. QED
      BY <1>2, <1>6, <2>1, <3>1, <3>2, <3>3 DEF KnownShape
  <2>4. CASE UpdateIssue
    <3> DEFINE n     == known[x].number
               after == Patched(issues[n], x, known[x])
    <3>1. ~Missing(x)
      BY <2>4 DEF UpdateIssue, At, IInv, IssuePart
    <3>2. n \in 1..Len(issues) /\ known[x] \in KnownIssue /\ n \in Nat \ {0}
      BY <2>1, <2>2, <3>1, KnownNumbers, LenProperties DEF KnownIssue
    <3>3. issues[n] \in IssueRecord
      BY <2>2, <3>2, ElementOfSeq
    <3>4. LabelsFor(known[x].labels) \in SUBSET LabelNames
      BY <3>2 DEF LabelsFor, KnownIssue, LabelNames
    <3>5. after \in IssueRecord
      BY <3>3, <3>4, PatchedFields
    <3>6. known' = [known EXCEPT ![x] = [number |-> n, closed |-> after.closed,
                      labels |-> after.labels, body |-> after.body]]
      BY <2>4 DEF UpdateIssue
    <3> HIDE DEF after
    <3>7. known'[x] = [number |-> n, closed |-> after.closed,
                       labels |-> after.labels, body |-> after.body]
      BY <1>1, <2>1, <3>6
    <3>8. known'[x] \in KnownIssue
      BY <3>2, <3>5, <3>7 DEF KnownIssue, IssueRecord
    <3>9. QED
      BY <1>2, <1>6, <2>1, <3>6, <3>7, <3>8 DEF KnownShape
  <2>5. QED
    BY <1>6, <2>3, <2>4
<1>7. CASE (OpenPull \/ PatchLabels \/ MergePull) /\ pc' \notin Resting /\ known' # known
  <2> DEFINE x == Stages[item]
  <2>1. x \in Pulls /\ x \in Elements(Markers) /\ item \in 1..3 /\ pc \in Building
    BY <1>7, ItemFacts, MarkerFacts DEF OpenPull, PatchLabels, MergePull, At, Building
  <2>2. PICK r : known' = [known EXCEPT ![x] = r] /\ KnownShape(r, x)
    <3>1. CASE OpenPull
      <4> DEFINE r == [number |-> Len(pulls) + 1, base |-> Base(x), open |-> TRUE,
                       head |-> refs[x], merge |-> Absent, text |-> TRUE,
                       labelled |-> FALSE, made |-> TRUE]
      <4>1. known' = [known EXCEPT ![x] = r]
        BY <1>7, <3>1 DEF OpenPull, Conflict, Fail, End, Goto, Resting
      <4>2. Len(pulls) \in Nat
        BY LenProperties DEF IInv, TypePart
      <4>3. IsKnownPull(r) /\ r.number \in Nat \ {0}
        BY <4>2 DEF IsKnownPull
      <4>4. QED
        BY <2>1, <4>1, <4>3 DEF KnownShape
    <3>2. CASE PatchLabels \/ MergePull
      <4>1. ~Missing(x)
        BY <2>1, <3>2 DEF PatchLabels, MergePull, At, IInv, StagePart, Staged, Past
      <4> DEFINE n == known[x].number
                 c == MergeOf(n, refs[pulls[n].base], known[x].head)
      <4>2. n \in DOMAIN pulls /\ n \in Nat \ {0} /\ IsPull(pulls[n])
        <5>1. n \in DOMAIN pulls
          BY <2>1, <4>1, KnownNumbers
        <5>2. pulls \in Seq(Elements(pulls)) /\ IsPull(pulls[n])
          BY <5>1 DEF IInv, TypePart
        <5>3. QED
          BY <5>1, <5>2, LenProperties
      <4>3. PICK r : /\ known' = [known EXCEPT ![x] = r]
                     /\ \/ r = [PullAt(n) EXCEPT !.labelled = TRUE]
                        \/ r = [PullAt(n) EXCEPT !.merge = c, !.open = FALSE]
        BY <1>7, <3>2
           DEF PatchLabels, MergePull, Conflict, Fail, End, Goto, Resting, Quietly
      <4> HIDE DEF c
      <4>4. IsKnownPull(r) /\ r.number = n
        BY <4>2, <4>3 DEF IsKnownPull, PullAt, IsPull
      <4>5. QED
        BY <2>1, <4>2, <4>3, <4>4 DEF KnownShape
    <3>3. QED
      BY <1>7, <3>1, <3>2
  <2>3. known'[x] = r
    BY <1>1, <2>1, <2>2
  <2>4. QED
    BY <1>2, <1>7, <2>1, <2>2, <2>3
<1>8. CASE Conflict
  BY <1>4, <1>8 DEF Conflict, Fail, End, Goto, Resting
<1>9. OpenPull \/ PatchLabels \/ MergePull =>
        known' = known \/ Conflict \/ pc' \notin Resting
  BY DEF OpenPull, PatchLabels, MergePull, Goto, Resting
<1>10. QED
  BY <1>3, <1>4, <1>5, <1>6, <1>7, <1>8, <1>9, Steps, RunFrame, OutsideFrame,
     StopFrame, StillFrame DEF Outside, seeder, Resting

LEMMA TypePartKept ==
  ASSUME IInv, [Next]_vars
  PROVE  TypePart'
<1>1. /\ \A key \in Elements(Issues) : known'[key] \in KnownIssue \cup {Nothing}
      /\ \A p \in Pulls : known'[p] = Nothing \/ (/\ IsKnownPull(known'[p])
                                                  /\ known'[p].number \in Nat \ {0})
  BY KnownTyped, MarkerFacts DEF KnownShape
<1>2. repo' \in {"none", "empty", "pushed"}
  BY Steps, RunFrame, OutsideFrame, StopFrame, StillFrame
     DEF Outside, IInv, TypePart, EnsureRepository, Push, github
<1>3. touched' \in BOOLEAN
  BY Steps, RunFrame, OutsideFrame, StopFrame, StillFrame
     DEF Outside, IInv, TypePart, Start
<1>4. hasty' \in BOOLEAN
  BY Steps, RunFrame, OutsideFrame, StopFrame, StillFrame
     DEF Outside, IInv, TypePart, Find
<1>5. QED
  BY <1>1, <1>2, <1>3, <1>4, IssuesTyped, PullsTyped, RefsTyped, KnownTyped
     DEF TypePart

-----------------------------------------------------------------------------
(***************************************************************************)
(* The topology in any reachable state: every commit of a stage is made    *)
(* from the one parent of the stage, and the run knows that parent once it *)
(* knows any.                                                              *)
(***************************************************************************)
LEMMA PullsMade ==
  ASSUME IInv, NEW p \in Pulls, NEW n \in DOMAIN pulls, pulls[n].stage = p
  PROVE  \E c \in Parents(pulls, p) :
           /\ pulls[n].head = Feature(p, c)
           /\ pulls[n].merge # Absent =>
                \E d : pulls[n].merge = MergeOf(n, d, pulls[n].head)
           /\ n \in Merged(pulls, p) => pulls[n].merge = MergeOf(n, c, pulls[n].head)
BY DEF IInv, PullPart

LEMMA OneParent ==
  ASSUME IInv, NEW p \in Pulls
  PROVE  \A c, d \in Parents(pulls, p) : c = d
<1>1. SoleInForce("previous_main")
  BY DEF IInv, SolePart
<1>2. \A m, n \in Merged(pulls, "previous_main") : m = n
  BY <1>1, CarryingFacts, StageFacts DEF SoleInForce, InForce, Merged
<1>3. QED
  BY <1>2 DEF Parents

LEMMA MergedMade ==
  ASSUME IInv, NEW p \in Pulls, NEW n \in Merged(pulls, p)
  PROVE  /\ n \in DOMAIN pulls /\ pulls[n].stage = p /\ n \in Carrying(p)
         /\ pulls[n].merge # Absent /\ pulls[n].merge # Bootstrap
         /\ pulls[n].base = Base(p)
         /\ \E c \in Parents(pulls, p) :
              pulls[n].merge = MergeOf(n, c, pulls[n].head)
<1>1. /\ n \in DOMAIN pulls /\ pulls[n].stage = p /\ pulls[n].merge # Absent
      /\ pulls[n].base = Base(p)
  BY DEF Merged
<1>2. QED
  BY <1>1, PullsMade, Commits, CarryingFacts

(* A commit merged astray is none that a stage starts from or ends with.   *)
LEMMA AstrayMade ==
  ASSUME IInv, NEW b, NEW n \in Astray(pulls, b)
  PROVE  /\ pulls[n].merge # Absent /\ pulls[n].merge # Bootstrap
         /\ \A p \in Pulls : \A m \in Merged(pulls, p) :
              pulls[n].merge # pulls[m].merge
<1>1. /\ n \in DOMAIN pulls /\ pulls[n].merge # Absent
      /\ pulls[n].base # Base(pulls[n].stage)
  BY DEF Astray
<1>2. pulls[n].stage \in Pulls
  BY <1>1 DEF IInv, TypePart, IsPull
<1>3. PICK c : pulls[n].merge = MergeOf(n, c, pulls[n].head)
  BY <1>1, <1>2, PullsMade
<1>4. ASSUME NEW p \in Pulls, NEW m \in Merged(pulls, p),
             pulls[n].merge = pulls[m].merge
      PROVE  FALSE
  <2>1. PICK d : pulls[m].merge = MergeOf(m, d, pulls[m].head)
    BY <1>4, MergedMade
  <2>2. MergeOf(n, c, pulls[n].head) = MergeOf(m, d, pulls[m].head)
    BY <1>3, <1>4, <2>1
  <2>3. n = m
    BY <2>2, Commits
  <2>4. QED
    BY <1>1, <2>3 DEF Merged
<1>5. QED
  BY <1>1, <1>3, <1>4, Commits

LEMMA KnownMerged ==
  ASSUME IInv, NEW p \in Pulls
  PROVE  /\ ~Missing(p) =>
              /\ known[p].number \in Carrying(p)
              /\ known[p].head = pulls[known[p].number].head
              /\ known[p].merge = pulls[known[p].number].merge
         /\ MergeKnown(p) # Absent =>
              /\ ~Missing(p) /\ MergeKnown(p) = known[p].merge
              /\ known[p].base = pulls[known[p].number].base
              /\ Placed(p) => known[p].number \in Merged(pulls, p)
              /\ MergeKnown(p) = pulls[known[p].number].merge
         /\ ~Missing(p) => MergeKnown(p) = known[p].merge
<1>1. p \in Elements(Markers)
  BY MarkerFacts
<1>2. ~Missing(p) => /\ known[p].number \in Carrying(p)
                     /\ known[p].head = pulls[known[p].number].head
                     /\ known[p].merge = pulls[known[p].number].merge
                     /\ known[p].merge # Absent =>
                          known[p].base = pulls[known[p].number].base
  BY <1>1 DEF IInv, KnownPart, Seen, PullsKnown
<1>3. QED
  BY <1>2, CarryingFacts DEF MergeKnown, Merged, Placed

(* What a run that is past its looking goes by is where it belongs.        *)
LEMMA PlacedWhenMaking ==
  ASSUME IInv, pc \in Making, NEW p \in Pulls, pc # "validate" \/ p # Stages[item]
  PROVE  Placed(p)
BY DEF IInv, KnownPart, InPlace

LEMMA ParentKnown ==
  ASSUME IInv, NEW p \in Pulls, Parent(p) # Absent,
         p = "current_main" => Placed("previous_main")
  PROVE  Parents(pulls, p) = {Parent(p)}
<1>1. Parent(p) \in Parents(pulls, p)
  <2>1. CASE p = "current_main"
    <3>1. /\ "previous_main" \in Pulls
          /\ Parent(p) = MergeKnown("previous_main")
      BY <2>1, StageFacts DEF Parent
    <3>2. QED
      BY <2>1, <3>1, KnownMerged DEF Parents
  <2>2. CASE p # "current_main"
    BY <2>2 DEF Parent, Parents
  <2>3. QED
    BY <2>1, <2>2
<1>2. QED
  BY <1>1, OneParent

(* At a stage, its parent is known.                                        *)
LEMMA ParentAtStage ==
  ASSUME IInv, pc \in Building
  PROVE  /\ item \in 1..3 /\ Stages[item] \in Pulls
         /\ Parent(Stages[item]) # Absent
         /\ Parents(pulls, Stages[item]) = {Parent(Stages[item])}
<1>1. item \in 1..3 /\ Stages[item] \in Pulls
  BY ItemFacts
<1>2. CASE Stages[item] = "current_main"
  <2>1. item = 3
    BY <1>1, <1>2, StageFacts
  <2>2. Staged(2)
    BY DEF IInv, StagePart
  <2>3. known["previous_main"].merge # Absent /\ ~Missing("previous_main")
    BY <2>1, <2>2, StageFacts DEF Staged, Past
  <2>4. Parent(Stages[item]) # Absent
    BY <1>2, <2>3 DEF Parent, MergeKnown
  <2>5. Placed("previous_main")
    BY <1>2, StageFacts, PlacedWhenMaking DEF Making
  <2>6. QED
    BY <1>1, <2>4, <2>5, ParentKnown
<1>3. CASE Stages[item] # "current_main"
  <2>1. Parent(Stages[item]) # Absent
    BY <1>3, Commits DEF Parent
  <2>2. QED
    BY <1>1, <1>3, <2>1, ParentKnown
<1>4. QED
  BY <1>2, <1>3

LEMMA PushedWhenMaking ==
  ASSUME IInv, pc \in Making
  PROVE  repo = "pushed" /\ refs["main"] # Absent
<1>1. repo = "pushed"
  BY DEF IInv, RepoPart, Making, Resting, Looking, Filing, Building, Finishing
<1>2. \/ \E n \in Merged(pulls, "current_main") : refs["main"] = pulls[n].merge
      \/ \E n \in Merged(pulls, "previous_main") : refs["main"] = pulls[n].merge
      \/ refs["main"] = Bootstrap
      \/ \E n \in Astray(pulls, "main") : refs["main"] = pulls[n].merge
  BY <1>1 DEF IInv, BranchPart, MainBranch
<1>3. QED
  BY <1>1, <1>2, MergedMade, AstrayMade, Commits, StageFacts

-----------------------------------------------------------------------------
(***************************************************************************)
(* Pull requests are made from the parent of their stage.                  *)
(***************************************************************************)
LEMMA PullPartKept ==
  ASSUME IInv, [Next]_vars
  PROVE  PullPart'
<1> DEFINE Made(n, r) ==
             \E c \in Parents(pulls', r.stage) :
               /\ r.head = Feature(r.stage, c)
               /\ r.merge # Absent => \E d : r.merge = MergeOf(n, d, r.head)
               /\ r.merge # Absent /\ r.base = Base(r.stage) =>
                    r.merge = MergeOf(n, c, r.head)
<1>1. ASSUME NEW n \in DOMAIN pulls, Same(n)
      PROVE  Made(n, pulls'[n])
  <2>1. PICK c \in Parents(pulls, pulls[n].stage) :
          /\ pulls[n].head = Feature(pulls[n].stage, c)
          /\ pulls[n].merge # Absent =>
               \E d : pulls[n].merge = MergeOf(n, d, pulls[n].head)
          /\ n \in Merged(pulls, pulls[n].stage) =>
               pulls[n].merge = MergeOf(n, c, pulls[n].head)
    BY DEF IInv, PullPart
  <2>2. c \in Parents(pulls', pulls'[n].stage)
    BY <1>1, <2>1, RecordsGrow DEF Same
  <2>3. QED
    BY <1>1, <2>1, <2>2 DEF Same, Merged
<1>2. SUFFICES ASSUME NEW n \in DOMAIN pulls' PROVE Made(n, pulls'[n])
  BY DEF PullPart, Merged
<1> DEFINE p == Stages[item]
           m == known[p].number
<1>3. CASE pulls' = pulls
  BY <1>1, <1>3 DEF Same
<1>4. CASE /\ OpenPull /\ ~Refused(p) /\ Len(pulls') = Len(pulls) + 1
           /\ \A k \in DOMAIN pulls : pulls'[k] = pulls[k]
           /\ pulls'[Len(pulls) + 1] = Opened(p)
  <2>1. CASE n \in DOMAIN pulls
    BY <1>1, <1>4, <2>1 DEF Same
  <2>2. CASE n \notin DOMAIN pulls
    <3>1. n = Len(pulls) + 1
      <4>1. /\ DOMAIN pulls = 1..Len(pulls) /\ Len(pulls) \in Nat
            /\ DOMAIN pulls' = 1..Len(pulls')
        BY PullsTyped, LenProperties DEF IInv, TypePart
      <4>2. QED
        BY <1>2, <1>4, <2>2, <4>1
    <3>2. p \in Pulls
      BY <1>4, ItemFacts DEF OpenPull, At, Building
    <3>3. refs[p] # Absent
      BY <1>4 DEF Refused
    <3>4. PICK c \in Parents(pulls, p) : refs[p] = Feature(p, c)
      BY <3>2, <3>3 DEF IInv, BranchPart, StageBranches
    <3>5. c \in Parents(pulls', p)
      BY <3>4, RecordsGrow
    <3>6. QED
      BY <1>4, <3>1, <3>4, <3>5 DEF Opened
  <2>3. QED
    BY <2>1, <2>2
<1>5. CASE /\ MergePull /\ known[p].merge = Absent /\ ~BaseMoved(p)
           /\ MergedNow(m, known[p].head)
  <2> USE <1>5 DEF MergedNow
  <2>1. CASE n # m
    BY <1>1, <2>1 DEF Same
  <2>2. CASE n = m
    <3>1. pc = "merge" /\ pc \in Building
      BY DEF MergePull, At, Building
    <3>2. p \in Pulls /\ Parents(pulls, p) = {Parent(p)} /\ ~Missing(p)
      BY <3>1, ParentAtStage DEF IInv, StagePart, Staged, Past
    <3>3. m \in Carrying(p) /\ known[p].head = pulls[m].head /\ pulls[m].stage = p
      BY <3>2, KnownMerged, CarryingFacts
    <3>4. pulls[m].head = Feature(p, Parent(p))
      BY <3>2, <3>3, PullsMade
    <3>5. pulls'[m].merge = MergeOf(m, refs[pulls[m].base], pulls[m].head)
      BY <3>3
    <3>6. pulls[m].base = Base(p) => refs[pulls[m].base] = Parent(p)
      BY DEF BaseMoved
    <3>7. Parent(p) \in Parents(pulls', p)
      BY <3>2, RecordsGrow
    <3>8. QED
      BY <2>2, <3>3, <3>4, <3>5, <3>6, <3>7
  <2>3. QED
    BY <2>1, <2>2
<1>6. CASE Redescribed
  BY <1>1, <1>2, <1>6 DEF Redescribed
<1>7. QED
  BY <1>3, <1>4, <1>5, <1>6, PullsTyped

(***************************************************************************)
(* Nothing is opened or created twice.                                     *)
(***************************************************************************)
LEMMA CarryingAfter ==
  /\ \A p \in Pulls : Carrying(p)' = {n \in DOMAIN pulls' : pulls'[n].stage = p}
  /\ \A key \in Elements(Issues) :
       Carrying(key)' = {n \in DOMAIN issues' : issues'[n].key = key}
BY MarkerFacts DEF Carrying

LEMMA HastyStays ==
  ASSUME [Next]_vars, ~hasty'
  PROVE  ~hasty
BY Steps, RunFrame, OutsideFrame, StopFrame, StillFrame DEF Outside, Find

LEMMA CarryingStep ==
  ASSUME IInv, [Next]_vars, NEW x \in Elements(Markers)
  PROVE  \/ Carrying(x)' = Carrying(x)
         \/ /\ CreateIssue /\ x = Issues[item] /\ x \in Elements(Issues)
            /\ Carrying(x)' = Carrying(x) \cup {Len(issues) + 1}
         \/ /\ OpenPull /\ x = Stages[item] /\ ~Refused(x) /\ x \in Pulls
            /\ Carrying(x)' = Carrying(x) \cup {Len(pulls) + 1}
<1>1. /\ DOMAIN pulls = 1..Len(pulls) /\ Len(pulls) \in Nat
      /\ DOMAIN issues = 1..Len(issues) /\ Len(issues) \in Nat
      /\ DOMAIN pulls' = 1..Len(pulls') /\ DOMAIN issues' = 1..Len(issues')
  <2>1. pulls \in Seq(Elements(pulls)) /\ issues \in Seq(IssueRecord)
    BY DEF IInv, TypePart
  <2>2. QED
    BY <2>1, PullsTyped, IssuesTyped, LenProperties
<1>2. CASE x \in Pulls
  <2>1. /\ Carrying(x) = {n \in DOMAIN pulls : pulls[n].stage = x}
        /\ Carrying(x)' = {n \in DOMAIN pulls' : pulls'[n].stage = x}
    BY <1>2, CarryingFacts, CarryingAfter
  <2>2. CASE /\ DOMAIN pulls' = DOMAIN pulls
             /\ \A n \in DOMAIN pulls : pulls'[n].stage = pulls[n].stage
    BY <2>1, <2>2
  <2>3. CASE /\ OpenPull /\ ~Refused(Stages[item]) /\ Len(pulls') = Len(pulls) + 1
             /\ \A n \in DOMAIN pulls : pulls'[n] = pulls[n]
             /\ pulls'[Len(pulls) + 1] = Opened(Stages[item])
    <3>1. DOMAIN pulls' = DOMAIN pulls \cup {Len(pulls) + 1}
      BY <1>1, <2>3
    <3>2. pulls'[Len(pulls) + 1].stage = Stages[item]
      BY <2>3 DEF Opened
    <3>3. Carrying(x)' = IF x = Stages[item] THEN Carrying(x) \cup {Len(pulls) + 1}
                                              ELSE Carrying(x)
      BY <2>1, <2>3, <3>1, <3>2
    <3>4. QED
      BY <1>2, <2>3, <3>3
  <2>4. DOMAIN pulls' = DOMAIN pulls =>
          \A n \in DOMAIN pulls : pulls'[n].stage = pulls[n].stage
    BY RecordsGrow
  <2>5. QED
    BY <2>2, <2>3, <2>4, PullsTyped DEF Redescribed, MergedNow
<1>3. CASE x \notin Pulls
  <2>1. /\ x \in Elements(Issues)
        /\ Carrying(x) = {n \in DOMAIN issues : issues[n].key = x}
        /\ Carrying(x)' = {n \in DOMAIN issues' : issues'[n].key = x}
    BY <1>3, CarryingFacts, CarryingAfter, MarkerFacts
  <2>2. CASE DOMAIN issues' = DOMAIN issues
    BY <2>1, <2>2, RecordsGrow
  <2>3. CASE /\ CreateIssue /\ Len(issues') = Len(issues) + 1
             /\ \A n \in DOMAIN issues : issues'[n] = issues[n]
             /\ issues'[Len(issues) + 1] = Drafted(Issues[item])
    <3>1. DOMAIN issues' = DOMAIN issues \cup {Len(issues) + 1}
      BY <1>1, <2>3
    <3>2. issues'[Len(issues) + 1].key = Issues[item]
      BY <2>3 DEF Drafted
    <3>3. Carrying(x)' = IF x = Issues[item] THEN Carrying(x) \cup {Len(issues) + 1}
                                              ELSE Carrying(x)
      BY <2>1, <2>3, <3>1, <3>2
    <3>4. QED
      BY <2>1, <2>3, <3>3
  <2>4. DOMAIN issues' = DOMAIN issues \/ Len(issues') # Len(issues)
    BY <1>1
  <2>5. QED
    BY <2>2, <2>3, <2>4, IssuesTyped
<1>4. QED
  BY <1>2, <1>3

(***************************************************************************)
(* A pull request on main is opened only when none of its stage is in      *)
(* force there, even if the search has missed one: an open one is refused, *)
(* and a merged one has moved main away from the parent of the stage.      *)
(***************************************************************************)
LEMMA OpenedOnce ==
  ASSUME IInv, OpenPull, NEW p \in Pulls, p = Stages[item], ~Refused(p)
  PROVE  /\ ~hasty => Carrying(p) = {}
         /\ Base(p) = "main" => InForce(p) = {}
<1>1. pc = "open" /\ pc \in Building /\ pc \in Making
  BY DEF OpenPull, At, Building, Making
<1>2. /\ refs[Base(p)] = Parent(p)
      /\ \A n \in DOMAIN pulls :
           ~(pulls[n].stage = p /\ pulls[n].base = Base(p) /\ pulls[n].open)
  BY DEF Refused
<1>3. ASSUME ~hasty PROVE Carrying(p) = {}
  <2>1. Missing(p)
    BY <1>1, ItemFacts DEF IInv, StagePart, Staged
  <2>2. QED
    BY <1>1, <1>3, <2>1, MarkerFacts DEF IInv, KnownPart, Seen, Looked
<1>4. ASSUME Base(p) = "main", NEW n \in InForce(p) PROVE FALSE
  <2>1. n \in Merged(pulls, p)
    BY <1>2, <1>4, CarryingFacts DEF Merged, InForce
  <2>2. /\ refs["main"] = Parent(p) /\ Parent(p) # Absent
        /\ Parents(pulls, p) = {Parent(p)}
    BY <1>1, <1>2, <1>4, ParentAtStage
  <2>3. MainBranch /\ repo = "pushed"
    BY <1>1, PushedWhenMaking DEF IInv, BranchPart
  <2>4. CASE p = "previous_main"
    <3>1. refs["main"] = Bootstrap
      BY <2>2, <2>4 DEF Parent
    <3>2. QED
      BY <2>1, <2>3, <2>4, <3>1, MergedMade, AstrayMade, StageFacts DEF MainBranch
  <2>5. CASE p = "current_main"
    <3>1. PICK j \in Merged(pulls, "previous_main") : refs["main"] = pulls[j].merge
      BY <2>2, <2>5 DEF Parents
    <3>2. PICK m \in Merged(pulls, "current_main") : refs["main"] = pulls[m].merge
      BY <2>1, <2>3, <2>5, <3>1, AstrayMade, StageFacts DEF MainBranch
    <3>3. PICK c : pulls[m].merge = MergeOf(m, c, pulls[m].head)
      BY <3>2, MergedMade, StageFacts
    <3>4. PICK d : pulls[j].merge = MergeOf(j, d, pulls[j].head)
      BY <3>1, MergedMade, StageFacts
    <3>5. MergeOf(m, c, pulls[m].head) = MergeOf(j, d, pulls[j].head)
      BY <3>1, <3>2, <3>3, <3>4
    <3>6. m = j
      BY <3>5, Commits
    <3>7. QED
      BY <3>1, <3>2, <3>6, MergedMade, StageFacts
  <2>6. QED
    BY <1>4, <2>4, <2>5, StageFacts
<1>5. QED
  BY <1>3, <1>4

(***************************************************************************)
(* Which pull requests come into force on main: none, or one where there   *)
(* is none.                                                                *)
(***************************************************************************)
LEMMA InForceStep ==
  ASSUME IInv, [Next]_vars, NEW p \in Pulls, Base(p) = "main"
  PROVE  \/ InForce(p)' \subseteq InForce(p)
         \/ InForce(p) = {} /\ \E k : InForce(p)' \subseteq {k}
<1>1. /\ InForce(p) = {n \in DOMAIN pulls :
           /\ pulls[n].stage = p /\ pulls[n].base = Base(p)
           /\ pulls[n].open \/ pulls[n].merge # Absent}
      /\ InForce(p)' = {n \in DOMAIN pulls' :
           /\ pulls'[n].stage = p /\ pulls'[n].base = Base(p)
           /\ pulls'[n].open \/ pulls'[n].merge # Absent}
  BY CarryingFacts, CarryingAfter DEF InForce
<1>2. CASE pulls' = pulls
  BY <1>1, <1>2
<1>3. CASE /\ OpenPull /\ ~Refused(Stages[item]) /\ Len(pulls') = Len(pulls) + 1
           /\ \A n \in DOMAIN pulls : pulls'[n] = pulls[n]
           /\ pulls'[Len(pulls) + 1] = Opened(Stages[item])
  <2>1. /\ DOMAIN pulls = 1..Len(pulls) /\ Len(pulls) \in Nat
        /\ DOMAIN pulls' = 1..Len(pulls')
    BY PullsTyped, LenProperties DEF IInv, TypePart
  <2>2. DOMAIN pulls' = DOMAIN pulls \cup {Len(pulls) + 1}
    BY <1>3, <2>1
  <2>3. CASE p = Stages[item]
    <3>1. InForce(p) = {}
      BY <1>3, <2>3, OpenedOnce
    <3>2. \A n \in DOMAIN pulls : n \notin InForce(p)'
      BY <1>1, <1>3, <3>1
    <3>3. InForce(p)' \subseteq {Len(pulls) + 1}
      BY <1>1, <2>2, <3>2
    <3>4. QED
      BY <3>1, <3>3
  <2>4. CASE p # Stages[item]
    <3>1. pulls'[Len(pulls) + 1].stage # p
      BY <1>3, <2>4 DEF Opened
    <3>2. QED
      BY <1>1, <1>3, <2>2, <3>1
  <2>5. QED
    BY <2>3, <2>4
<1>4. ASSUME NEW n, NEW h, MergedNow(n, h)
      PROVE  InForce(p)' \subseteq InForce(p)
  BY <1>1, <1>4 DEF MergedNow
<1>5. CASE PatchText \/ PatchLabels
  <2> DEFINE n == known[Stages[item]].number
  <2>1. pc \in Building /\ pc \in {"text", "label"}
    BY <1>5 DEF PatchText, PatchLabels, At, Building
  <2>2. n \in DOMAIN pulls
    BY <2>1, ItemFacts, KnownNumbers DEF IInv, StagePart, Staged, Past
  <2>3. /\ DOMAIN pulls' = DOMAIN pulls
        /\ pulls'[n] \in {[pulls[n] EXCEPT !.text = TRUE],
                          [pulls[n] EXCEPT !.labelled = TRUE]}
        /\ \A m \in DOMAIN pulls : m # n => pulls'[m] = pulls[m]
    BY <1>5, <2>2 DEF PatchText, PatchLabels
  <2>4. IsPull(pulls[n])
    BY <2>2 DEF IInv, TypePart
  <2>5. /\ pulls'[n].stage = pulls[n].stage /\ pulls'[n].base = pulls[n].base
        /\ pulls'[n].open = pulls[n].open /\ pulls'[n].merge = pulls[n].merge
    BY <2>3, <2>4 DEF IsPull
  <2>6. QED
    BY <1>1, <2>3, <2>5
<1>6. ASSUME NEW n \in DOMAIN pulls, EditPull(n)
      PROVE  \/ InForce(p)' \subseteq InForce(p)
             \/ InForce(p) = {} /\ \E k : InForce(p)' \subseteq {k}
  <2>1. /\ pulls' = [pulls EXCEPT ![n] = pulls'[n]] /\ Same(n)
        /\ \/ pulls'[n].base = pulls[n].base /\ (pulls'[n].open => pulls[n].open)
           \/ ~Taken(pulls[n].stage, pulls'[n].base)
    BY <1>6, EditedPull
  <2>2. /\ DOMAIN pulls' = DOMAIN pulls
        /\ \A m \in DOMAIN pulls : m # n => pulls'[m] = pulls[m]
    BY <2>1
  <2>3. \A m \in InForce(p)' : m # n => m \in InForce(p)
    BY <1>1, <2>2
  <2>4. CASE n \notin InForce(p)'
    BY <2>3, <2>4
  <2>5. CASE n \in InForce(p)' /\ pulls'[n].base = pulls[n].base
             /\ (pulls'[n].open => pulls[n].open)
    <3>1. n \in InForce(p)
      BY <1>1, <2>1, <2>5 DEF Same
    <3>2. QED
      BY <2>3, <3>1
  <2>6. CASE n \in InForce(p)' /\ ~Taken(pulls[n].stage, pulls'[n].base)
    <3>1. ~Taken(p, Base(p))
      BY <1>1, <2>1, <2>6 DEF Same
    <3>2. InForce(p) = {}
      BY <1>1, <3>1 DEF Taken
    <3>3. QED
      BY <2>3, <3>2
  <2>7. QED
    BY <2>1, <2>4, <2>5, <2>6
<1>7. ASSUME NEW b \in Branches, DeleteBranch(b)
      PROVE  InForce(p)' \subseteq InForce(p)
  BY <1>1, <1>7, DeletedPulls DEF Same
<1>8. QED
  BY <1>2, <1>3, <1>4, <1>5, <1>6, <1>7, PullsTyped

LEMMA SolePartKept ==
  ASSUME IInv, [Next]_vars
  PROVE  SolePart'
<1>1. ASSUME ~hasty', NEW x \in Elements(Markers)
      PROVE  \A m, n \in Carrying(x)' : m = n
  <2>1. ~hasty /\ Sole(x)
    BY <1>1, HastyStays DEF IInv, SolePart
  <2>2. CASE Carrying(x)' = Carrying(x)
    BY <2>1, <2>2 DEF Sole
  <2>3. CASE /\ CreateIssue /\ x = Issues[item] /\ x \in Elements(Issues)
             /\ Carrying(x)' = Carrying(x) \cup {Len(issues) + 1}
    <3>1. Missing(x) /\ pc = "issues"
      BY <2>3 DEF CreateIssue, At
    <3>2. Carrying(x) = {}
      BY <2>1, <3>1 DEF IInv, KnownPart, Seen, Looked, Making, Filing
    <3>3. QED
      BY <2>3, <3>2
  <2>4. CASE /\ OpenPull /\ x = Stages[item] /\ ~Refused(x) /\ x \in Pulls
             /\ Carrying(x)' = Carrying(x) \cup {Len(pulls) + 1}
    <3>1. Carrying(x) = {}
      BY <2>1, <2>4, OpenedOnce
    <3>2. QED
      BY <2>4, <3>1
  <2>5. QED
    BY <2>2, <2>3, <2>4, CarryingStep
<1>2. ASSUME NEW p \in {"previous_main", "current_main"}
      PROVE  \A m, n \in InForce(p)' : m = n
  <2>1. p \in Pulls /\ Base(p) = "main" /\ SoleInForce(p)
    BY StageFacts DEF IInv, SolePart
  <2>2. QED
    BY <2>1, InForceStep DEF SoleInForce
<1>3. QED
  BY <1>1, <1>2 DEF SolePart, Sole, SoleInForce

-----------------------------------------------------------------------------
(***************************************************************************)
(* A topology that is in order has a main branch.                          *)
(***************************************************************************)
LEMMA RepoPartKept ==
  ASSUME IInv, [Next]_vars
  PROVE  RepoPart'
<1> USE DEF Resting, Looking, Making, Filing, Building, Finishing
<1>1. RepoPart /\ ItemPart
  BY DEF IInv
<1>2. CASE repo = "pushed"
  <2>1. repo' = "pushed"
    BY <1>1, <1>2, Steps, RunFrame, OutsideFrame, StopFrame, StillFrame
       DEF Outside, RepoPart, EnsureRepository, Push, At, github
  <2>2. pc' # "push"
    <3>1. CASE EnsureRepository
      BY <1>2, <2>1, <3>1 DEF EnsureRepository, Goto
    <3>2. CASE UNCHANGED seeder
      BY <1>1, <1>2, <3>2 DEF RepoPart, seeder
    <3>3. CASE Run /\ ~EnsureRepository
      BY <1>1, <1>2, <3>3, ItemPartKept
         DEF Run, RepoPart, ItemPart, Start, Push, Find, Topology, EnsureMilestone,
             UpsertLabel, CreateIssue, UpdateIssue, LeaveIssue, EnsureBase,
             EnsureHead, OpenPull, Describe, PatchText, PatchLabels, MergePull,
             Validate, EnsureCandidate, Verify, Poll, WriteEvidence, NextIssue,
             Advance, Goto, Conflict, Fail, End
    <3>4. QED
      BY <3>1, <3>2, <3>3, Steps, OutsideFrame, StopFrame, StillFrame DEF Outside
  <2>3. QED
    BY <2>1, <2>2 DEF RepoPart
<1>3. CASE repo # "pushed"
  <2>1. /\ issues = <<>> /\ pulls = <<>> /\ \A b \in Branches : refs[b] = Absent
        /\ pc \in Resting \cup Looking
    BY <1>1, <1>3 DEF RepoPart
  <2>2. CASE Push
    BY <2>2 DEF Push, Goto, RepoPart
  <2>3. CASE Start \/ EnsureRepository \/ Stop \/ UNCHANGED vars
    BY <1>1, <1>3, <2>1, <2>3
       DEF Start, EnsureRepository, Stop, Fail, End, vars, github, seeder, At,
           Goto, RepoPart
  <2>4. CASE Find
    <3>1. pc = "find" /\ UNCHANGED github /\ (Conflict \/ Advance(Markers, item, "find", "topology"))
      BY <2>4 DEF Find, Conflict, Fail
    <3>2. pc' \in {"conflict", "find", "topology"}
      BY <3>1 DEF Conflict, Fail, End, Goto, Advance
    <3>3. QED
      BY <1>1, <1>3, <2>1, <3>1, <3>2 DEF RepoPart, github
  <2>5. CASE Topology
    <3>1. refs["main"] = Absent /\ pc = "topology" /\ UNCHANGED github
      BY <2>1, <2>5, StageFacts DEF Topology, At, Quietly, Conflict, Fail
    <3>2. ~ExistingTopology
      BY <3>1, Commits DEF ExistingTopology, Else
    <3>3. pc' = "conflict"
      BY <2>5, <3>2 DEF Topology, Conflict, Fail, End, Goto
    <3>4. QED
      BY <1>1, <1>3, <2>1, <3>1, <3>3 DEF RepoPart, github
  <2>6. CASE Outside
    <3>1. UNCHANGED <<repo, pc>>
      BY <2>6, OutsideFrame DEF Outside, seeder
    <3>2. UNCHANGED <<issues, pulls, refs>>
      <4>1. \A n \in DOMAIN issues : FALSE
        BY <2>1
      <4>2. \A n \in DOMAIN pulls : FALSE
        BY <2>1
      <4>3. \A b \in Branches : ~DeleteBranch(b)
        BY <2>1 DEF DeleteBranch
      <4>4. QED
        BY <2>6, <4>1, <4>2, <4>3, OutsideFrame DEF Outside
    <3>3. QED
      BY <1>1, <2>1, <3>1, <3>2 DEF RepoPart
  <2>7. CASE Run
    BY <2>1, <2>2, <2>3, <2>4, <2>5, <2>7
       DEF Run, EnsureMilestone, UpsertLabel, CreateIssue, UpdateIssue, LeaveIssue,
           EnsureBase, EnsureHead, OpenPull, Describe, PatchText, PatchLabels,
           MergePull, Validate, EnsureCandidate, Verify, Poll, WriteEvidence, At
  <2>8. QED
    BY <2>3, <2>6, <2>7, Steps
<1>4. QED
  BY <1>2, <1>3

-----------------------------------------------------------------------------
(***************************************************************************)
(* How a branch moves in one step.                                         *)
(***************************************************************************)
LEMMA RefsStep ==
  ASSUME IInv, [Next]_vars, NEW b \in Branches
  PROVE  \/ refs'[b] = refs[b]
         \/ /\ b # "main" /\ refs'[b] = Absent /\ touched' = TRUE
            /\ \E c \in Branches : DeleteBranch(c)
         \/ Push /\ b = "main" /\ refs[b] = Absent /\ refs'[b] = Bootstrap
         \/ /\ EnsureBase /\ b = "previous" /\ Stages[item] = "previous_release"
            /\ refs[b] = Absent /\ refs'[b] = Restored("previous_release")
         \/ /\ EnsureHead /\ b = Stages[item] /\ b \in Pulls
            /\ refs'[b] = Feature(b, Parent(b)) /\ Parents(pulls, b) = {Parent(b)}
            /\ refs[b] \in {Absent, refs'[b]}
         \/ /\ MergePull /\ b \in {"main", "previous"} /\ ~BaseMoved(Stages[item])
            /\ known[Stages[item]].merge = Absent
            /\ refs'[b] = MergeOf(known[Stages[item]].number, refs[b],
                                  known[Stages[item]].head)
         \/ /\ EnsureCandidate /\ b = "candidate" /\ refs[b] = Absent
            /\ refs'[b] = MergeKnown("current_main")
<1>1. DOMAIN refs = Branches
  BY DEF IInv, TypePart
<1>2. CASE refs' = refs
  BY <1>2
<1>3. CASE Push
  <2>1. refs["main"] = Absent
    BY <1>3, StageFacts DEF Push, At, IInv, RepoPart
  <2>2. refs' = [refs EXCEPT !["main"] = Bootstrap]
    BY <1>3 DEF Push
  <2>3. QED
    BY <1>1, <1>3, <2>1, <2>2
<1>4. CASE EnsureBase /\ refs' # refs
  <2>1. pc \in Building
    BY <1>4 DEF EnsureBase, At, Building
  <2>2. /\ Base(Stages[item]) = "previous" /\ refs["previous"] = Absent
        /\ refs' = [refs EXCEPT !["previous"] = Restored(Stages[item])]
    BY <1>4 DEF EnsureBase, Quietly, Conflict, Fail, github
  <2>3. Stages[item] = "previous_release"
    BY <2>1, <2>2, ItemFacts, StageFacts
  <2>4. QED
    BY <1>1, <1>4, <2>2, <2>3
<1>5. CASE EnsureHead /\ refs' # refs
  <2> DEFINE p == Stages[item]
             head == IF Missing(p) THEN Feature(p, Parent(p)) ELSE known[p].head
  <2>1. pc \in Building
    BY <1>5 DEF EnsureHead, At, Building
  <2>2. refs[p] \in {Absent, head} /\ refs' = [refs EXCEPT ![p] = head]
    BY <1>5 DEF EnsureHead, Conflict, Fail, github
  <2>3. p \in Pulls /\ Parents(pulls, p) = {Parent(p)}
    BY <2>1, ParentAtStage
  <2>4. head = Feature(p, Parent(p))
    <3>1. CASE ~Missing(p)
      <4>1. /\ known[p].number \in DOMAIN pulls
            /\ pulls[known[p].number].stage = p
            /\ known[p].head = pulls[known[p].number].head
        BY <2>3, <3>1, KnownMerged, CarryingFacts
      <4>2. QED
        BY <2>3, <3>1, <4>1, PullsMade
    <3>2. QED
      BY <3>1
  <2>5. QED
    BY <1>1, <1>5, <2>2, <2>3, <2>4
<1>6. CASE MergePull /\ refs' # refs
  <2> DEFINE p == Stages[item]
             n == known[p].number
  <2>1. /\ known[p].merge = Absent /\ ~BaseMoved(p) /\ pc = "merge"
        /\ refs' = [refs EXCEPT ![pulls[n].base] =
                      MergeOf(n, refs[pulls[n].base], known[p].head)]
    BY <1>6 DEF MergePull, At, Quietly, Conflict, Fail, github
  <2>2. n \in DOMAIN pulls
    BY <2>1, ItemFacts, KnownNumbers DEF IInv, StagePart, Staged, Past, Building
  <2>3. pulls[n].base \in {"main", "previous"}
    BY <2>2 DEF IInv, TypePart, IsPull
  <2>4. QED
    BY <1>1, <1>6, <2>1, <2>3
<1>7. CASE EnsureCandidate
  BY <1>1, <1>7 DEF EnsureCandidate, Else
<1>8. CASE \E c \in Branches : DeleteBranch(c)
  BY <1>1, <1>8 DEF DeleteBranch, Edited
<1>9. QED
  BY <1>2, <1>3, <1>4, <1>5, <1>6, <1>7, <1>8, Steps, RunFrame, OutsideFrame,
     StopFrame, StillFrame DEF Outside, github

(***************************************************************************)
(* How a pull request is merged.                                           *)
(***************************************************************************)
LEMMA MergedStep ==
  ASSUME IInv, [Next]_vars
  PROVE  \/ /\ \A p : Merged(pulls', p) = Merged(pulls, p)
            /\ MergePull => refs' = refs
         \/ \E n \in DOMAIN pulls :
              /\ MergePull /\ \A p : Merged(pulls', p) = Merged(pulls, p)
              /\ n \in Astray(pulls', pulls[n].base)
              /\ refs' = [refs EXCEPT ![pulls[n].base] = pulls'[n].merge]
         \/ \E p \in Pulls : \E n \in Carrying(p) :
              /\ MergePull /\ p = Stages[item] /\ n = known[p].number
              /\ refs[Base(p)] = Parent(p) /\ Parents(pulls, p) = {Parent(p)}
              /\ pulls'[n].merge = MergeOf(n, Parent(p), pulls[n].head)
              /\ refs' = [refs EXCEPT ![Base(p)] = pulls'[n].merge]
              /\ \A q : Merged(pulls', q) = IF q = p THEN Merged(pulls, p) \cup {n}
                                                     ELSE Merged(pulls, q)
<1> DEFINE s == Stages[item]
           m == known[s].number
<1>1. ASSUME MergePull, refs' # refs
      PROVE  pulls' # pulls /\ ~Redescribed /\ DOMAIN pulls' = DOMAIN pulls
  <2>1. pc = "merge" /\ pc \in Building
    BY <1>1 DEF MergePull, At, Building
  <2>2. s \in Pulls /\ known[s].merge = Absent /\ ~Missing(s)
    BY <1>1, <2>1, ItemFacts
       DEF MergePull, Quietly, Conflict, Fail, github, IInv, StagePart, Staged, Past
  <2>3. m \in DOMAIN pulls /\ pulls[m].merge = Absent /\ IsPull(pulls[m])
    BY <2>2, KnownMerged, CarryingFacts DEF IInv, TypePart
  <2> DEFINE c == MergeOf(m, refs[pulls[m].base], known[s].head)
  <2>0. c # Absent
    BY Commits
  <2>4. pulls' = [pulls EXCEPT ![m].merge = c, ![m].open = FALSE]
    BY <1>1 DEF MergePull, Quietly, Conflict, Fail, github
  <2> HIDE DEF c
  <2>5. /\ pulls'[m] = [pulls[m] EXCEPT !.merge = c, !.open = FALSE]
        /\ DOMAIN pulls' = DOMAIN pulls
    BY <2>3, <2>4
  <2>6. pulls'[m].merge # pulls[m].merge
    BY <2>0, <2>3, <2>5 DEF IsPull
  <2>7. QED
    BY <2>3, <2>5, <2>6 DEF Redescribed, Same
<1>2. CASE pulls' = pulls
  BY <1>1, <1>2
<1>3. CASE /\ Len(pulls') = Len(pulls) + 1
           /\ \A n \in DOMAIN pulls : pulls'[n] = pulls[n]
           /\ pulls'[Len(pulls) + 1] = Opened(Stages[item])
  <2>1. /\ DOMAIN pulls = 1..Len(pulls) /\ Len(pulls) \in Nat
        /\ DOMAIN pulls' = 1..Len(pulls')
    BY PullsTyped, LenProperties DEF IInv, TypePart
  <2>2. DOMAIN pulls' = DOMAIN pulls \cup {Len(pulls) + 1}
    BY <1>3, <2>1
  <2> DEFINE k == Len(pulls) + 1
  <2>5. k \in DOMAIN pulls' /\ k \notin DOMAIN pulls
    BY <2>1, <2>2
  <2>6. DOMAIN pulls' # DOMAIN pulls
    BY <2>5
  <2>3. pulls'[Len(pulls) + 1].merge = Absent
    BY <1>3 DEF Opened
  <2>4. QED
    BY <1>1, <1>3, <2>2, <2>3, <2>6 DEF Merged
<1>4. CASE Redescribed
  <2>1. \A n \in DOMAIN pulls :
          /\ pulls'[n].stage = pulls[n].stage /\ pulls'[n].merge = pulls[n].merge
          /\ pulls[n].merge # Absent => pulls'[n].base = pulls[n].base
    BY <1>4 DEF Redescribed, Same
  <2>2. \A p : Merged(pulls', p) = Merged(pulls, p)
    BY <1>4, <2>1 DEF Redescribed, Merged
  <2>3. QED
    BY <1>1, <1>4, <2>2
<1>5. CASE /\ MergePull /\ known[s].merge = Absent /\ ~BaseMoved(s)
           /\ MergedNow(m, known[s].head)
  <2>1. pc = "merge" /\ pc \in Building
    BY <1>5 DEF MergePull, At, Building
  <2>2. s \in Pulls /\ Parents(pulls, s) = {Parent(s)} /\ ~Missing(s)
    BY <2>1, ParentAtStage DEF IInv, StagePart, Staged, Past
  <2>3. m \in Carrying(s) /\ known[s].head = pulls[m].head /\ pulls[m].stage = s
    BY <2>2, KnownMerged, CarryingFacts
  <2>4. refs[Base(s)] = Parent(s)
    BY <1>5 DEF BaseMoved
  <2>5. /\ m \in DOMAIN pulls /\ pulls[m].open /\ pulls[m].merge = Absent
        /\ DOMAIN pulls' = DOMAIN pulls
        /\ \A k \in DOMAIN pulls : k # m => pulls'[k] = pulls[k]
        /\ pulls'[m].merge = MergeOf(m, refs[pulls[m].base], pulls[m].head)
        /\ pulls'[m].stage = s /\ pulls'[m].base = pulls[m].base
    BY <1>5, <2>3 DEF MergedNow
  <2>6. pulls'[m].merge # Absent
    BY <2>5, Commits
  <2>11. pulls' # pulls
    BY <2>5, <2>6
  <2>12. refs' = [refs EXCEPT ![pulls[m].base] =
                    MergeOf(m, refs[pulls[m].base], known[s].head)]
    BY <1>5, <2>11 DEF MergePull, Quietly, Conflict, Fail, github
  <2>7. refs' = [refs EXCEPT ![pulls[m].base] = pulls'[m].merge]
    BY <2>3, <2>5, <2>12
  <2>8. CASE pulls[m].base = Base(s)
    <3>1. pulls'[m].merge = MergeOf(m, Parent(s), pulls[m].head)
      BY <2>4, <2>5, <2>8
    <3>2. \A q : Merged(pulls', q) = IF q = s THEN Merged(pulls, s) \cup {m}
                                              ELSE Merged(pulls, q)
      BY <2>3, <2>5, <2>6, <2>8 DEF Merged
    <3>3. refs' = [refs EXCEPT ![Base(s)] = pulls'[m].merge]
      BY <2>7, <2>8
    <3>4. QED
      BY <1>5, <2>2, <2>3, <2>4, <3>1, <3>2, <3>3
  <2>9. CASE pulls[m].base # Base(s)
    <3>1. \A q : Merged(pulls', q) = Merged(pulls, q)
      BY <2>3, <2>5, <2>9 DEF Merged
    <3>2. m \in Astray(pulls', pulls[m].base)
      BY <2>5, <2>6, <2>9 DEF Astray
    <3>3. QED
      BY <1>5, <2>5, <2>7, <3>1, <3>2
  <2>10. QED
    BY <2>8, <2>9
<1>6. QED
  BY <1>2, <1>3, <1>4, <1>5, PullsTyped

(***************************************************************************)
(* What the branches point to.                                             *)
(***************************************************************************)
LEMMA StageBranchesKept ==
  ASSUME IInv, [Next]_vars
  PROVE  StageBranches'
<1>1. SUFFICES ASSUME NEW p \in Pulls, refs'[p] # Absent
               PROVE  \E c \in Parents(pulls', p) : refs'[p] = Feature(p, c)
  BY DEF StageBranches
<1>2. Parents(pulls, p) \subseteq Parents(pulls', p)
  BY RecordsGrow
<1>3. CASE refs'[p] = refs[p]
  BY <1>1, <1>2, <1>3 DEF IInv, BranchPart, StageBranches
<1>4. CASE refs'[p] = Feature(p, Parent(p)) /\ Parents(pulls, p) = {Parent(p)}
  BY <1>2, <1>4
<1>5. p \in Branches /\ p \notin {"main", "previous", "candidate"}
  BY StageFacts
<1>6. QED
  BY <1>1, <1>3, <1>4, <1>5, RefsStep

LEMMA CandidateBranchKept ==
  ASSUME IInv, [Next]_vars
  PROVE  CandidateBranch'
<1>1. SUFFICES ASSUME refs'["candidate"] # Absent
               PROVE  \E n \in Merged(pulls', "current_main") :
                        refs'["candidate"] = pulls'[n].merge
  BY DEF CandidateBranch
<1>2. ASSUME NEW n \in Merged(pulls, "current_main"),
             refs'["candidate"] = pulls[n].merge
      PROVE  \E k \in Merged(pulls', "current_main") :
               refs'["candidate"] = pulls'[k].merge
  BY <1>2, RecordsGrow DEF Merged
<1>3. CASE refs'["candidate"] = refs["candidate"]
  BY <1>1, <1>2, <1>3 DEF IInv, BranchPart, CandidateBranch
<1>4. CASE EnsureCandidate /\ refs'["candidate"] = MergeKnown("current_main")
  <2>1. Placed("current_main")
    BY <1>4, StageFacts, PlacedWhenMaking
       DEF EnsureCandidate, At, Making, Finishing
  <2>2. QED
    BY <1>1, <1>2, <1>4, <2>1, KnownMerged, StageFacts
<1>5. "candidate" \in Branches /\ "candidate" \notin Pulls
  BY StageFacts
<1>6. QED
  BY <1>1, <1>3, <1>4, <1>5, RefsStep

LEMMA MainBranchKept ==
  ASSUME IInv, [Next]_vars
  PROVE  MainBranch'
<1>1. SUFFICES ASSUME repo' = "pushed"
               PROVE  \/ \E n \in Merged(pulls', "current_main") :
                           refs'["main"] = pulls'[n].merge
                      \/ /\ Merged(pulls', "current_main") = {}
                         /\ \E n \in Merged(pulls', "previous_main") :
                              refs'["main"] = pulls'[n].merge
                      \/ /\ Merged(pulls', "current_main") = {}
                         /\ Merged(pulls', "previous_main") = {}
                         /\ refs'["main"] = Bootstrap
                      \/ \E n \in Astray(pulls', "main") :
                           refs'["main"] = pulls'[n].merge
  BY DEF MainBranch
<1>2. \A p : \A n \in Merged(pulls, p) : pulls'[n].merge = pulls[n].merge
  BY RecordsGrow DEF Merged
<1> DEFINE astray == \E n \in Astray(pulls', "main") : refs'["main"] = pulls'[n].merge
<1>a. ASSUME NEW n \in Astray(pulls, "main"), refs'["main"] = pulls[n].merge
      PROVE  astray
  BY <1>a, RecordsGrow DEF Astray
<1>3. CASE Push
  <2>1. pulls' = <<>>
    BY <1>3 DEF Push, At, IInv, RepoPart
  <2>2. \A p : Merged(pulls', p) = {}
    BY <2>1 DEF Merged
  <2>3. refs'["main"] = Bootstrap
    BY <1>3, StageFacts DEF Push, IInv, TypePart
  <2>4. QED
    BY <2>2, <2>3
<1>4. CASE ~Push
  <2>1. repo = "pushed"
    BY <1>1, <1>4, Steps, RunFrame, OutsideFrame, StopFrame, StillFrame
       DEF Outside, EnsureRepository, github
  <2>2. MainBranch
    BY DEF IInv, BranchPart
  <2>3. CASE /\ \A p : Merged(pulls', p) = Merged(pulls, p)
             /\ MergePull => refs' = refs
    <3>1. "main" \in Branches /\ "main" \notin Pulls
      BY StageFacts
    <3>2. refs'["main"] = refs["main"]
      BY <1>4, <2>3, <3>1, RefsStep
    <3>3. QED
      BY <1>2, <1>a, <2>1, <2>2, <2>3, <3>2 DEF MainBranch
  <2>a. ASSUME NEW n \in DOMAIN pulls, n \in Astray(pulls', pulls[n].base),
               \A p : Merged(pulls', p) = Merged(pulls, p),
               refs' = [refs EXCEPT ![pulls[n].base] = pulls'[n].merge]
        PROVE  MainBranch'
    <3>1. DOMAIN refs = Branches /\ "main" \in Branches
      BY StageFacts DEF IInv, TypePart
    <3>2. CASE pulls[n].base = "main"
      BY <2>a, <3>1, <3>2 DEF MainBranch
    <3>3. CASE pulls[n].base # "main"
      <4>1. refs'["main"] = refs["main"]
        BY <2>a, <3>1, <3>3
      <4>2. QED
        BY <1>2, <1>a, <2>1, <2>2, <2>a, <4>1 DEF MainBranch
    <3>4. QED
      BY <3>2, <3>3
  <2>4. ASSUME NEW p \in Pulls, NEW n \in Carrying(p),
               refs[Base(p)] = Parent(p), Parents(pulls, p) = {Parent(p)},
               pulls'[n].merge = MergeOf(n, Parent(p), pulls[n].head),
               refs' = [refs EXCEPT ![Base(p)] = pulls'[n].merge],
               \A q : Merged(pulls', q) = IF q = p THEN Merged(pulls, p) \cup {n}
                                                   ELSE Merged(pulls, q)
        PROVE  \/ \E k \in Merged(pulls', "current_main") :
                    refs'["main"] = pulls'[k].merge
               \/ /\ Merged(pulls', "current_main") = {}
                  /\ \E k \in Merged(pulls', "previous_main") :
                       refs'["main"] = pulls'[k].merge
               \/ /\ Merged(pulls', "current_main") = {}
                  /\ Merged(pulls', "previous_main") = {}
                  /\ refs'["main"] = Bootstrap
               \/ astray
    <3>1. DOMAIN refs = Branches /\ "main" \in Branches /\ "previous" \in Branches
      BY StageFacts DEF IInv, TypePart
    <3>2. CASE p = "previous_release"
      <4>1. refs'["main"] = refs["main"]
        BY <2>4, <3>1, <3>2, StageFacts
      <4>2. /\ Merged(pulls', "current_main") = Merged(pulls, "current_main")
            /\ Merged(pulls', "previous_main") = Merged(pulls, "previous_main")
        BY <2>4, <3>2
      <4>3. QED
        BY <1>2, <1>a, <2>1, <2>2, <4>1, <4>2 DEF MainBranch
    <3>3. CASE p = "previous_main"
      <4>1. refs["main"] = Bootstrap /\ refs'["main"] = pulls'[n].merge
        BY <2>4, <3>1, <3>3, StageFacts DEF Parent
      <4>2. Merged(pulls, "current_main") = {}
        BY <2>1, <2>2, <4>1, MergedMade, AstrayMade, StageFacts DEF MainBranch
      <4>3. QED
        BY <2>4, <3>3, <4>1, <4>2
    <3>4. CASE p = "current_main"
      <4>1. refs'["main"] = pulls'[n].merge
        BY <2>4, <3>1, <3>4, StageFacts
      <4>2. QED
        BY <2>4, <3>4, <4>1
    <3>5. QED
      BY <3>2, <3>3, <3>4, StageFacts
  <2>5. QED
    BY <1>1, <2>3, <2>4, <2>a, MergedStep DEF MainBranch
<1>5. QED
  BY <1>3, <1>4

LEMMA PreviousBranchKept ==
  ASSUME IInv, [Next]_vars
  PROVE  PreviousBranch'
<1> DEFINE r == "previous_release"
<1>1. SUFFICES ASSUME ~hasty', refs'["previous"] # Absent
               PROVE  \/ \E n \in Merged(pulls', r) : refs'["previous"] = pulls'[n].merge
                      \/ Merged(pulls', r) = {} /\ refs'["previous"] = Bootstrap
                      \/ \E n \in Astray(pulls', "previous") :
                           refs'["previous"] = pulls'[n].merge
  BY DEF PreviousBranch
<1> DEFINE astray == \E n \in Astray(pulls', "previous") :
                       refs'["previous"] = pulls'[n].merge
<1>a. ASSUME NEW n \in Astray(pulls, "previous"), refs'["previous"] = pulls[n].merge
      PROVE  astray
  BY <1>a, RecordsGrow DEF Astray
<1>2. ~hasty
  BY <1>1, HastyStays
<1>3. /\ r \in Pulls /\ r \in Elements(Markers) /\ Base(r) = "previous"
      /\ "previous" \in Branches /\ "previous" \notin Pulls
      /\ Sole(r) /\ DOMAIN refs = Branches
  BY <1>2, StageFacts, MarkerFacts DEF IInv, SolePart, TypePart
<1>4. \A n \in Merged(pulls, r) : pulls'[n].merge = pulls[n].merge
  BY RecordsGrow DEF Merged
<1>5. PreviousBranch
  BY DEF IInv, BranchPart
<1>6. CASE /\ \A p : Merged(pulls', p) = Merged(pulls, p)
           /\ MergePull => refs' = refs
  <2>1. CASE refs'["previous"] = refs["previous"]
    BY <1>1, <1>2, <1>4, <1>5, <1>6, <1>a, <2>1 DEF PreviousBranch
  <2>2. CASE EnsureBase /\ refs'["previous"] = Restored(r)
    <3>1. CASE MergeKnown(r) # Absent
      <4>1. /\ refs'["previous"] = pulls[known[r].number].merge
            /\ known[r].number \in Merged(pulls, r)
        <5>1. Placed(r)
          BY <1>3, <2>2, PlacedWhenMaking DEF EnsureBase, At, Making, Building
        <5>2. QED
          BY <1>3, <2>2, <3>1, <5>1, KnownMerged DEF Restored, Else
      <4>2. QED
        BY <1>4, <1>6, <4>1
    <3>2. CASE MergeKnown(r) = Absent
      <4>1. refs'["previous"] = Bootstrap
        BY <1>3, <2>2, <3>2 DEF Restored, Else, Parent
      <4>2. pc \in Making
        BY <2>2 DEF EnsureBase, At, Making, Building
      <4>3. Merged(pulls, r) = {}
        <5>1. CASE Missing(r)
          <6>1. Carrying(r) = {}
            BY <1>2, <1>3, <4>2, <5>1 DEF IInv, KnownPart, Seen, Looked
          <6>2. QED
            BY <1>3, <6>1, CarryingFacts DEF Merged
        <5>2. CASE ~Missing(r)
          <6>1. /\ known[r].number \in Carrying(r)
                /\ pulls[known[r].number].merge = Absent
            BY <1>3, <3>2, <5>2, KnownMerged
          <6>2. QED
            BY <1>3, <6>1, CarryingFacts DEF Merged, Sole
        <5>3. QED
          BY <5>1, <5>2
      <4>4. QED
        BY <1>6, <4>1, <4>3
    <3>3. QED
      BY <3>1, <3>2
  <2>3. QED
    BY <1>1, <1>3, <1>6, <2>1, <2>2, RefsStep
<1>7. ASSUME NEW p \in Pulls, NEW n \in Carrying(p),
             refs' = [refs EXCEPT ![Base(p)] = pulls'[n].merge],
             \A q : Merged(pulls', q) = IF q = p THEN Merged(pulls, p) \cup {n}
                                                 ELSE Merged(pulls, q)
      PROVE  \/ \E k \in Merged(pulls', r) : refs'["previous"] = pulls'[k].merge
             \/ Merged(pulls', r) = {} /\ refs'["previous"] = Bootstrap
             \/ astray
  <2>1. CASE p = r
    BY <1>3, <1>7, <2>1
  <2>2. CASE p # r
    <3>1. refs'["previous"] = refs["previous"] /\ Merged(pulls', r) = Merged(pulls, r)
      BY <1>3, <1>7, <2>2, StageFacts
    <3>2. QED
      BY <1>1, <1>2, <1>4, <1>5, <1>a, <3>1 DEF PreviousBranch
  <2>3. QED
    BY <2>1, <2>2
<1>8. ASSUME NEW n \in DOMAIN pulls, n \in Astray(pulls', pulls[n].base),
             \A p : Merged(pulls', p) = Merged(pulls, p),
             refs' = [refs EXCEPT ![pulls[n].base] = pulls'[n].merge]
      PROVE  \/ \E k \in Merged(pulls', r) : refs'["previous"] = pulls'[k].merge
             \/ Merged(pulls', r) = {} /\ refs'["previous"] = Bootstrap
             \/ astray
  <2>1. CASE pulls[n].base = "previous"
    BY <1>3, <1>8, <2>1
  <2>2. CASE pulls[n].base # "previous"
    <3>1. refs'["previous"] = refs["previous"]
      BY <1>3, <1>8, <2>2
    <3>2. QED
      BY <1>1, <1>2, <1>4, <1>5, <1>8, <1>a, <3>1 DEF PreviousBranch
  <2>3. QED
    BY <2>1, <2>2
<1>9. QED
  BY <1>6, <1>7, <1>8, MergedStep

LEMMA BranchPartKept ==
  ASSUME IInv, [Next]_vars
  PROVE  BranchPart'
BY StageBranchesKept, CandidateBranchKept, MainBranchKept, PreviousBranchKept
   DEF BranchPart

-----------------------------------------------------------------------------
(***************************************************************************)
(* What a run knows, step by step.                                         *)
(***************************************************************************)
LEMMA TouchedStep ==
  ASSUME [Next]_vars, ~touched'
  PROVE  ~touched \/ (Start /\ known' = known /\ pc \in Resting)
BY Steps, RunFrame, OutsideFrame, StopFrame, StillFrame DEF Outside, Start

(* A run that has ended, or has not looked yet, knows nothing.             *)
LEMMA BlankBefore ==
  ASSUME IInv, [Next]_vars, pc' \in Resting \cup {"repository", "push"}
  PROVE  known' = Blank
<1> USE DEF Resting
<1>1. pc \in Resting \cup {"repository", "push"} => known = Blank
  BY DEF IInv, KnownPart
<1>2. CASE Run
  BY <1>1, <1>2
     DEF Run, Start, EnsureRepository, Push, Find, Topology, EnsureMilestone,
         UpsertLabel, CreateIssue, UpdateIssue, LeaveIssue, EnsureBase, EnsureHead,
         OpenPull, Describe, PatchText, PatchLabels, MergePull, Validate,
         EnsureCandidate, Verify, Poll, WriteEvidence, NextIssue, Advance, Goto,
         Conflict, Fail, End, At
<1>3. CASE Outside \/ Stop \/ UNCHANGED vars
  BY <1>1, <1>3, OutsideFrame, StopFrame, StillFrame DEF Outside, seeder
<1>4. QED
  BY <1>2, <1>3, Steps

LEMMA LookedStep ==
  ASSUME IInv, [Next]_vars, NEW x \in Elements(Markers), Looked(x)'
  PROVE  Looked(x) \/ (Find /\ ~Conflict /\ x = Markers[item])
<1> USE DEF Making, Filing, Building, Finishing, Looked
<1>1. pc' \in Making \cup {"topology", "find"}
  OBVIOUS
<1>2. CASE pc \in Making \cup {"topology"}
  BY <1>2
<1>3. CASE pc = "find"
  <2>1. item \in 1..Len(Markers) /\ Len(Markers) \in Nat
    BY <1>3, ItemFacts, MarkerFacts
  <2>2. CASE Find
    <3>1. ~Conflict
      BY <1>1, <2>2 DEF Conflict, Fail, End, Goto
    <3>2. Advance(Markers, item, "find", "topology")
      BY <2>2, <3>1 DEF Find
    <3>3. CASE item < Len(Markers)
      <4>1. pc' = "find" /\ item' = item + 1
        BY <3>2, <3>3 DEF Advance, Goto
      <4>2. PICK k \in 1..item : Markers[k] = x
        BY <2>1, <4>1
      <4>3. CASE k = item
        BY <2>2, <3>1, <4>2, <4>3
      <4>4. CASE k # item
        BY <1>3, <2>1, <4>2, <4>4
      <4>5. QED
        BY <4>3, <4>4
    <3>4. CASE item = Len(Markers)
      <4>1. PICK k \in 1..Len(Markers) : Markers[k] = x
        BY MarkerFacts DEF Elements
      <4>2. CASE k = item
        BY <2>2, <3>1, <4>1, <4>2
      <4>3. CASE k # item
        BY <1>3, <2>1, <3>4, <4>1, <4>3
      <4>4. QED
        BY <4>2, <4>3
    <3>5. QED
      BY <2>1, <3>3, <3>4
  <2>3. CASE UNCHANGED seeder
    BY <1>3, <2>3 DEF seeder
  <2>4. CASE Run /\ ~Find
    BY <1>3, <2>4
       DEF Run, Start, EnsureRepository, Push, Topology, EnsureMilestone,
           UpsertLabel, CreateIssue, UpdateIssue, LeaveIssue, EnsureBase,
           EnsureHead, OpenPull, Describe, PatchText, PatchLabels, MergePull,
           Validate, EnsureCandidate, Verify, Poll, WriteEvidence, At, Resting
  <2>5. CASE Stop
    BY <1>1, <2>5, StopFrame
  <2>6. QED
    BY <2>2, <2>3, <2>4, <2>5, Steps, OutsideFrame, StillFrame DEF Outside
<1>4. CASE pc \notin Making \cup {"topology", "find"}
  <2>1. pc \in Resting \cup {"repository", "push"}
    BY <1>4 DEF IInv, ItemPart, Looking
  <2>2. CASE EnsureRepository \/ Push
    BY <1>1, <2>2 DEF EnsureRepository, Push, Goto
  <2>3. CASE Start
    BY <1>1, <2>3 DEF Start, Goto
  <2>4. CASE Run /\ ~EnsureRepository /\ ~Push /\ ~Start
    BY <2>1, <2>4
       DEF Run, Find, Topology, EnsureMilestone,
           UpsertLabel, CreateIssue, UpdateIssue, LeaveIssue, EnsureBase,
           EnsureHead, OpenPull, Describe, PatchText, PatchLabels, MergePull,
           Validate, EnsureCandidate, Verify, Poll, WriteEvidence, At, Resting
  <2>5. CASE UNCHANGED seeder \/ Stop
    BY <1>1, <1>4, <2>5, StopFrame DEF seeder
  <2>6. QED
    BY <2>2, <2>3, <2>4, <2>5, Steps, OutsideFrame, StillFrame DEF Outside
<1>5. QED
  BY <1>2, <1>3, <1>4

(***************************************************************************)
(* What each step learns.                                                  *)
(***************************************************************************)
LEMMA FindLearns ==
  ASSUME IInv, Find, ~Conflict, NEW x, x = Markers[item]
  PROVE  /\ UNCHANGED github /\ x \in Elements(Markers)
         /\ \/ known'[x] = Nothing /\ (~hasty' => Carrying(x) = {})
            \/ \E n \in Carrying(x) :
                 known'[x] = Detail(x, n) /\ n \in Nat \ {0}
         /\ \A y \in Elements(Markers) : y # x => known'[y] = known[y]
<1>1. pc = "find" /\ x \in Elements(Markers)
  BY ItemFacts DEF Find
<1>2. /\ UNCHANGED github
      /\ hasty' = (hasty \/ ~(Carrying(x) \subseteq indexed[Kind(x)]))
      /\ known' = [known EXCEPT ![x] = IF Hits(x) = {} THEN Nothing
                     ELSE Detail(x, CHOOSE n \in Hits(x) : TRUE)]
  BY DEF Find
<1>3. DOMAIN known = Elements(Markers)
  BY DEF IInv, TypePart
<1>4. \A n \in Carrying(x) : n \in Nat \ {0}
  <2>1. DOMAIN pulls = 1..Len(pulls) /\ DOMAIN issues = 1..Len(issues)
    <3>1. pulls \in Seq(Elements(pulls)) /\ issues \in Seq(IssueRecord)
      BY DEF IInv, TypePart
    <3>2. QED
      BY <3>1, LenProperties
  <2>2. Carrying(x) \subseteq DOMAIN pulls \cup DOMAIN issues
    BY DEF Carrying
  <2>3. QED
    BY <2>1, <2>2
<1>5. CASE Hits(x) = {}
  BY <1>1, <1>2, <1>3, <1>5 DEF Hits
<1>6. CASE Hits(x) # {}
  <2> DEFINE n == CHOOSE k \in Hits(x) : TRUE
  <2>1. n \in Hits(x)
    BY <1>6
  <2>2. n \in Carrying(x) /\ known'[x] = Detail(x, n)
    BY <1>1, <1>2, <1>3, <1>6, <2>1 DEF Hits
  <2>3. QED
    BY <1>1, <1>2, <1>3, <1>4, <2>2
<1>7. QED
  BY <1>5, <1>6

(* What a run remembers of a pull request that it opens.                   *)
OpenedKnown(p) ==
  [number |-> Len(pulls) + 1, base |-> Base(p), open |-> TRUE, head |-> refs[p],
   merge |-> Absent, text |-> TRUE, labelled |-> FALSE, made |-> TRUE]

(* The run has just read the pull request n of the stage p.                *)
ReadNow(p, n) ==
  /\ n \in DOMAIN pulls' /\ known'[p].number = n
  /\ known'[p].base = pulls'[n].base /\ known'[p].open = pulls'[n].open
  /\ known'[p].head = pulls'[n].head /\ known'[p].merge = pulls'[n].merge
  /\ known'[p].text = pulls'[n].text
  /\ known'[p].labelled = pulls'[n].labelled

LEMMA MergeLearns ==
  ASSUME IInv, MergePull, NEW p, p = Stages[item],
         \/ pulls' # pulls
         \/ pc' \notin Resting /\ (known' # known \/ known[p].merge = Absent)
  PROVE  /\ p \in Pulls /\ p \in Elements(Markers) /\ ~Missing(p)
         /\ pc' = "validate" /\ item' = item
         /\ known[p].merge = Absent /\ ~BaseMoved(p)
         /\ MergedNow(known[p].number, known[p].head)
         /\ ReadNow(p, known[p].number) /\ known'[p].merge # Absent
         /\ \A y \in Elements(Markers) : y # p => known'[y] = known[y]
<1> DEFINE n == known[p].number
           c == MergeOf(n, refs[pulls[n].base], known[p].head)
<1>1. pc \in Building /\ pc = "merge"
  BY DEF MergePull, At, Building
<1>2. p \in Pulls /\ p \in Elements(Markers) /\ item \in 1..3
  BY <1>1, ItemFacts, MarkerFacts
<1>3. ~Missing(p)
  BY <1>1, <1>2 DEF IInv, StagePart, Staged, Past
<1>4. n \in DOMAIN pulls /\ IsPull(pulls[n])
  BY <1>2, <1>3, KnownNumbers DEF IInv, TypePart
<1>5. /\ known[p].merge = Absent /\ ~BaseMoved(p) /\ pulls[n].open
      /\ pulls' = [pulls EXCEPT ![n].merge = c, ![n].open = FALSE]
      /\ known' = [known EXCEPT ![p] = [PullAt(n) EXCEPT !.merge = c,
                                                         !.open = FALSE]]
      /\ pc' = "validate" /\ item' = item
  BY DEF MergePull, Conflict, Fail, End, Goto, Resting, Quietly, github
<1>6. c # Absent
  BY Commits
<1>7. c = MergeOf(n, refs[pulls[n].base], known[p].head)
  OBVIOUS
<1> HIDE DEF c
<1>8. DOMAIN known = Elements(Markers)
  BY DEF IInv, TypePart
<1>9. /\ pulls'[n] = [pulls[n] EXCEPT !.merge = c, !.open = FALSE]
      /\ DOMAIN pulls' = DOMAIN pulls
      /\ \A m \in DOMAIN pulls : m # n => pulls'[m] = pulls[m]
  BY <1>4, <1>5
<1>10. /\ pulls'[n].merge = c /\ pulls'[n].open = FALSE
       /\ pulls'[n].stage = pulls[n].stage /\ pulls'[n].head = pulls[n].head
       /\ pulls'[n].base = pulls[n].base
       /\ pulls'[n].text = pulls[n].text /\ pulls'[n].labelled = pulls[n].labelled
       /\ pulls[n].merge = Absent
  BY <1>4, <1>5, <1>9 DEF IsPull
<1>11. MergedNow(n, known[p].head)
  BY <1>4, <1>5, <1>7, <1>9, <1>10 DEF MergedNow
<1>12. /\ known'[p] = [PullAt(n) EXCEPT !.merge = c, !.open = FALSE]
       /\ \A y \in Elements(Markers) : y # p => known'[y] = known[y]
  BY <1>2, <1>5, <1>8
<1>13. /\ known'[p].number = n /\ known'[p].base = pulls[n].base
       /\ known'[p].open = FALSE /\ known'[p].head = pulls[n].head
       /\ known'[p].merge = c /\ known'[p].text = pulls[n].text
       /\ known'[p].labelled = pulls[n].labelled
  BY <1>12 DEF PullAt
<1>14. ReadNow(p, n)
  BY <1>4, <1>9, <1>10, <1>13 DEF ReadNow
<1>15. QED
  BY <1>2, <1>3, <1>5, <1>6, <1>11, <1>12, <1>13, <1>14

LEMMA StageLearns ==
  ASSUME IInv, [Next]_vars, OpenPull \/ PatchLabels \/ MergePull,
         known' # known, pc' \notin Resting, NEW p, p = Stages[item]
  PROVE  /\ p \in Pulls /\ p \in Elements(Markers)
         /\ \A y \in Elements(Markers) : y # p => known'[y] = known[y]
         /\ \/ /\ OpenPull /\ Missing(p) /\ ~Refused(p)
               /\ pulls' = Append(pulls, Opened(p))
               /\ known'[p] = OpenedKnown(p)
            \/ /\ ~Missing(p) /\ known[p].number \in DOMAIN pulls
               /\ ReadNow(p, known[p].number)
               /\ known'[p].head = known[p].head
               /\ \/ PatchLabels /\ known'[p].merge = known[p].merge
                  \/ /\ MergePull /\ known[p].merge = Absent /\ ~BaseMoved(p)
                     /\ pc' = "validate" /\ item' = item
                     /\ known'[p].merge # Absent
<1>1. pc \in Building /\ p \in Pulls /\ p \in Elements(Markers) /\ item \in 1..3
  <2>1. pc \in Building
    BY DEF OpenPull, PatchLabels, MergePull, At, Building
  <2>2. QED
    BY <2>1, ItemFacts, MarkerFacts
<1>2. DOMAIN known = Elements(Markers)
  BY DEF IInv, TypePart
<1>3. CASE OpenPull
  <2>1. /\ known' = [known EXCEPT ![p] = OpenedKnown(p)]
        /\ pulls' = Append(pulls, Opened(p)) /\ ~Refused(p) /\ pc = "open"
    BY <1>3 DEF OpenPull, OpenedKnown, Conflict, Fail, End, Goto, Resting, Opened, At
  <2>2. Missing(p)
    BY <1>1, <2>1 DEF IInv, StagePart, Staged
  <2>3. QED
    BY <1>1, <1>2, <1>3, <2>1, <2>2
<1>4. ASSUME PatchLabels \/ MergePull
      PROVE  /\ ~Missing(p) /\ known[p].number \in DOMAIN pulls
             /\ pulls[known[p].number].head = known[p].head
             /\ pulls[known[p].number].merge = known[p].merge
  <2>1. ~Missing(p)
    BY <1>1, <1>4 DEF PatchLabels, MergePull, At, IInv, StagePart, Staged, Past
  <2>2. QED
    BY <1>1, <2>1, KnownNumbers, KnownMerged
<1>5. CASE PatchLabels
  <2> DEFINE n == known[p].number
  <2>1. n \in DOMAIN pulls /\ IsPull(pulls[n])
    BY <1>4, <1>5 DEF IInv, TypePart
  <2>2. /\ pulls' = [pulls EXCEPT ![n].labelled = TRUE]
        /\ known' = [known EXCEPT ![p] = [PullAt(n) EXCEPT !.labelled = TRUE]]
    BY <1>5 DEF PatchLabels
  <2>3. /\ pulls'[n].head = pulls[n].head /\ pulls'[n].merge = pulls[n].merge
        /\ pulls'[n].base = pulls[n].base /\ pulls'[n].open = pulls[n].open
        /\ pulls'[n].text = pulls[n].text /\ pulls'[n].labelled = TRUE
        /\ n \in DOMAIN pulls'
    BY <2>1, <2>2 DEF IsPull
  <2>4. known'[p] = [PullAt(n) EXCEPT !.labelled = TRUE]
    BY <1>1, <1>2, <2>2
  <2>5. /\ known'[p].number = n /\ known'[p].base = pulls[n].base
        /\ known'[p].open = pulls[n].open /\ known'[p].head = pulls[n].head
        /\ known'[p].merge = pulls[n].merge /\ known'[p].text = pulls[n].text
        /\ known'[p].labelled = TRUE
    BY <2>4 DEF PullAt
  <2>6. ReadNow(p, n)
    BY <2>3, <2>5 DEF ReadNow
  <2>7. \A y \in Elements(Markers) : y # p => known'[y] = known[y]
    BY <1>1, <1>2, <2>2
  <2>8. QED
    BY <1>1, <1>4, <1>5, <2>5, <2>6, <2>7
<1>6. CASE MergePull
  <2>1. /\ known[p].merge = Absent /\ ~BaseMoved(p)
        /\ MergedNow(known[p].number, known[p].head)
        /\ pc' = "validate" /\ item' = item
        /\ ReadNow(p, known[p].number) /\ known'[p].merge # Absent
        /\ \A y \in Elements(Markers) : y # p => known'[y] = known[y]
    BY <1>6, MergeLearns
  <2>2. known'[p].head = known[p].head
    BY <1>4, <1>6, <2>1 DEF MergedNow, ReadNow
  <2>3. QED
    BY <1>1, <1>4, <1>6, <2>1, <2>2
<1>7. QED
  BY <1>3, <1>5, <1>6

LEMMA IssueLearns ==
  ASSUME IInv, [Next]_vars, CreateIssue \/ UpdateIssue, NEW key, key = Issues[item]
  PROVE  /\ key \in Elements(Issues) /\ key \in Elements(Markers) /\ key \notin Pulls
         /\ \A y \in Elements(Markers) : y # key => known'[y] = known[y]
         /\ known'[key].number \in Nat \ {0}
         /\ known'[key].number \in Carrying(key)'
         /\ known'[key].closed = issues'[known'[key].number].closed
         /\ known'[key].labels = issues'[known'[key].number].labels
         /\ known'[key].body = issues'[known'[key].number].body
         /\ \A m \in DOMAIN issues : m # known'[key].number => issues'[m] = issues[m]
         /\ \/ /\ CreateIssue /\ Missing(key)
               /\ known'[key].number = Len(issues) + 1
               /\ issues'[known'[key].number] = Drafted(key)
            \/ /\ UpdateIssue /\ ~Missing(key)
               /\ known'[key].number = known[key].number
               /\ known[key].number \in DOMAIN issues
               /\ issues[known[key].number].key = key
               /\ issues'[known[key].number] =
                    Patched(issues[known[key].number], key, known[key])
<1>1. /\ key \in Elements(Issues) /\ key \in Elements(Markers) /\ key \notin Pulls
      /\ pc \in Filing
  <2>1. pc \in Filing
    BY DEF CreateIssue, UpdateIssue, At, Filing
  <2>2. QED
    BY <2>1, ItemFacts, MarkerFacts
<1>2. /\ DOMAIN known = Elements(Markers)
      /\ DOMAIN issues = 1..Len(issues) /\ Len(issues) \in Nat
      /\ DOMAIN issues' = 1..Len(issues')
      /\ issues \in Seq(IssueRecord)
  BY IssuesTyped, LenProperties DEF IInv, TypePart
<1>3. Carrying(key)' = {n \in DOMAIN issues' : issues'[n].key = key}
  BY <1>1, CarryingAfter
<1>4. CASE CreateIssue
  <2> DEFINE n == Len(issues) + 1
  <2>1. /\ issues' = Append(issues, Drafted(key)) /\ Missing(key)
        /\ known' = [known EXCEPT ![key] = [number |-> n, closed |-> FALSE,
                       labels |-> {"wanted"}, body |-> "defined"]]
    BY <1>4 DEF CreateIssue
  <2>2. /\ Len(issues') = n /\ \A m \in DOMAIN issues : issues'[m] = issues[m]
        /\ issues'[n] = Drafted(key)
    <3>1. Drafted(key) \in IssueRecord
      BY <1>1 DEF Drafted, IssueRecord, LabelNames, Bodies
    <3>2. QED
      BY <1>2, <2>1, <3>1, AppendProperties
  <2>3. known'[key] = [number |-> n, closed |-> FALSE, labels |-> {"wanted"},
                       body |-> "defined"]
    BY <1>1, <1>2, <2>1
  <2>4. n \in DOMAIN issues' /\ n \in Nat \ {0} /\ issues'[n].key = key
    BY <1>2, <2>2 DEF Drafted
  <2>5. \A y \in Elements(Markers) : y # key => known'[y] = known[y]
    BY <1>2, <2>1
  <2>6. known'[key].number = n /\ known'[key].number \in Carrying(key)'
    BY <1>3, <2>3, <2>4
  <2>7. /\ known'[key].closed = issues'[n].closed
        /\ known'[key].labels = issues'[n].labels
        /\ known'[key].body = issues'[n].body
    BY <2>2, <2>3 DEF Drafted
  <2>8. QED
    BY <1>1, <1>4, <2>1, <2>2, <2>4, <2>5, <2>6, <2>7
<1>5. CASE UpdateIssue
  <2> DEFINE n     == known[key].number
             after == Patched(issues[n], key, known[key])
  <2>1. ~Missing(key)
    BY <1>5 DEF UpdateIssue, At, IInv, IssuePart
  <2>2. /\ n \in DOMAIN issues /\ n \in Nat \ {0} /\ issues[n].key = key
        /\ known[key] \in KnownIssue
    BY <1>1, <2>1, KnownNumbers DEF KnownIssue
  <2>3. /\ issues' = [issues EXCEPT ![n] = after]
        /\ known' = [known EXCEPT ![key] = [number |-> n, closed |-> after.closed,
                       labels |-> after.labels, body |-> after.body]]
    BY <1>5 DEF UpdateIssue
  <2>4. after.key = key
    <3>1. issues[n] \in IssueRecord
      BY <1>2, <2>2, ElementOfSeq
    <3>2. LabelsFor(known[key].labels) \in SUBSET LabelNames
      BY <2>2 DEF LabelsFor, KnownIssue, LabelNames
    <3>3. QED
      BY <2>2, <3>1, <3>2, PatchedFields
  <2> HIDE DEF after
  <2>5. /\ DOMAIN issues' = DOMAIN issues /\ issues'[n] = after
        /\ \A m \in DOMAIN issues : m # n => issues'[m] = issues[m]
    BY <2>2, <2>3
  <2>6. /\ known'[key] = [number |-> n, closed |-> after.closed,
                          labels |-> after.labels, body |-> after.body]
        /\ \A y \in Elements(Markers) : y # key => known'[y] = known[y]
    BY <1>1, <1>2, <2>3
  <2>7. known'[key].number = n /\ n \in Carrying(key)'
    BY <1>3, <2>2, <2>4, <2>5, <2>6
  <2>8. /\ known'[key].closed = issues'[n].closed
        /\ known'[key].labels = issues'[n].labels
        /\ known'[key].body = issues'[n].body
    BY <2>5, <2>6
  <2>9. QED
    BY <1>1, <1>5, <2>1, <2>2, <2>5, <2>6, <2>7, <2>8 DEF after
<1>6. QED
  BY <1>4, <1>5

(* Only the marker that the run is at is known better after a step.        *)
LEMMA KnownStep ==
  ASSUME IInv, [Next]_vars, NEW x \in Elements(Markers)
  PROVE  \/ known'[x] = known[x]
         \/ known' = Blank /\ pc' \in Resting
         \/ Find /\ ~Conflict /\ x = Markers[item]
         \/ (CreateIssue \/ UpdateIssue) /\ x = Issues[item]
         \/ /\ OpenPull \/ PatchLabels \/ MergePull
            /\ known' # known /\ pc' \notin Resting /\ x = Stages[item]
<1>1. CASE Find /\ ~Conflict
  BY <1>1, FindLearns
<1>2. CASE CreateIssue \/ UpdateIssue
  BY <1>2, IssueLearns
<1>3. CASE /\ OpenPull \/ PatchLabels \/ MergePull
           /\ known' # known /\ pc' \notin Resting
  BY <1>3, StageLearns
<1>4. OpenPull \/ PatchLabels \/ MergePull =>
        \/ pc' \notin Resting
        \/ known' = known
        \/ known' = Blank /\ pc' \in Resting
  BY DEF OpenPull, PatchLabels, MergePull, Goto, Resting, Conflict, Fail, End
<1>5. QED
  BY <1>1, <1>2, <1>3, <1>4, KnownTyped

(***************************************************************************)
(* What a run knows is so.                                                 *)
(***************************************************************************)
LEMMA SeenKept ==
  ASSUME IInv, [Next]_vars
  PROVE  Seen'
<1>1. SUFFICES ASSUME NEW x \in Elements(Markers)
               PROVE  /\ known'[x].number # 0 => known'[x].number \in Carrying(x)'
                      /\ ~hasty' /\ Looked(x)' /\ known'[x].number = 0 =>
                           Carrying(x)' = {}
  BY DEF Seen, Missing
<1>2. /\ known[x].number # 0 => known[x].number \in Carrying(x)
      /\ ~hasty /\ Looked(x) /\ known[x].number = 0 => Carrying(x) = {}
  BY DEF IInv, KnownPart, Seen, Missing
<1>3. Carrying(x) \subseteq Carrying(x)'
  BY RecordsGrow
<1>4. Nothing.number = 0 /\ Blank[x].number = 0
  BY BlankFacts DEF Nothing
<1>5. CASE Find /\ ~Conflict /\ x = Markers[item]
  <2>1. Carrying(x)' = Carrying(x)
    <3>1. UNCHANGED <<issues, pulls>>
      BY <1>5 DEF Find, github
    <3>2. QED
      BY <3>1 DEF Carrying
  <2>2. CASE known'[x] = Nothing /\ (~hasty' => Carrying(x) = {})
    BY <1>4, <2>1, <2>2
  <2>3. CASE \E n \in Carrying(x) : known'[x] = Detail(x, n) /\ n \in Nat \ {0}
    <3>1. PICK n \in Carrying(x) : known'[x] = Detail(x, n) /\ n \in Nat \ {0}
      BY <2>3
    <3>2. known'[x].number = n
      BY <3>1 DEF Detail, PullAt, IssueAt
    <3>3. QED
      BY <2>1, <3>1, <3>2
  <2>4. QED
    BY <1>5, <2>2, <2>3, FindLearns
<1>6. CASE ~(Find /\ ~Conflict /\ x = Markers[item])
  <2>1. Looked(x)' => Looked(x)
    BY <1>6, LookedStep
  <2>2. \/ known'[x] = known[x]
        \/ known' = Blank /\ pc' \in Resting
        \/ (CreateIssue \/ UpdateIssue) /\ x = Issues[item]
        \/ /\ OpenPull \/ PatchLabels \/ MergePull
           /\ known' # known /\ pc' \notin Resting /\ x = Stages[item]
    BY <1>6, KnownStep
  <2>3. CASE known' = Blank /\ pc' \in Resting
    BY <1>4, <2>3 DEF Looked, Making, Filing, Building, Finishing, Resting
  <2>4. CASE (CreateIssue \/ UpdateIssue) /\ x = Issues[item]
    BY <2>4, IssueLearns
  <2>5. CASE /\ OpenPull \/ PatchLabels \/ MergePull
             /\ known' # known /\ pc' \notin Resting /\ x = Stages[item]
    <3>1. CASE /\ OpenPull /\ pulls' = Append(pulls, Opened(x))
               /\ known'[x].number = Len(pulls) + 1 /\ x \in Pulls
      <4>1. /\ pulls \in Seq(Elements(pulls) \cup {Opened(x)})
            /\ Len(pulls) \in Nat /\ DOMAIN pulls' = 1..Len(pulls')
        BY PullsTyped, LenProperties DEF IInv, TypePart
      <4>2. /\ Len(pulls') = Len(pulls) + 1
            /\ pulls'[Len(pulls) + 1] = Opened(x)
        BY <3>1, <4>1, AppendProperties
      <4>3. Len(pulls) + 1 \in Carrying(x)' /\ Len(pulls) + 1 # 0
        BY <3>1, <4>1, <4>2, CarryingAfter DEF Opened
      <4>4. QED
        BY <3>1, <4>3
    <3>2. CASE ~Missing(x) /\ known'[x].number = known[x].number
      BY <1>2, <1>3, <3>2 DEF Missing
    <3>3. \/ /\ OpenPull /\ pulls' = Append(pulls, Opened(x)) /\ x \in Pulls
             /\ known'[x] = OpenedKnown(x)
          \/ ~Missing(x) /\ known'[x].number = known[x].number
      BY <2>5, StageLearns DEF ReadNow
    <3>4. OpenedKnown(x).number = Len(pulls) + 1
      BY DEF OpenedKnown
    <3>5. QED
      BY <3>1, <3>2, <3>3, <3>4
  <2>6. CASE known'[x] = known[x]
    <3>1. known'[x].number # 0 => known'[x].number \in Carrying(x)'
      BY <1>2, <1>3, <2>6
    <3>2. ASSUME ~hasty', Looked(x)', known'[x].number = 0
          PROVE  Carrying(x)' = {}
      <4>1. Carrying(x) = {}
        BY <1>2, <2>1, <2>6, <3>2, HastyStays
      <4>2. CASE CreateIssue /\ x = Issues[item]
        BY <3>2, <4>2, IssueLearns
      <4>3. CASE OpenPull /\ x = Stages[item] /\ ~Refused(x) /\ x \in Pulls
        <5>1. known'[x].number = Len(pulls) + 1
          BY <4>3 DEF OpenPull, IInv, TypePart
        <5>2. Len(pulls) \in Nat
          BY LenProperties DEF IInv, TypePart
        <5>3. QED
          BY <3>2, <5>1, <5>2
      <4>4. QED
        BY <4>1, <4>2, <4>3, CarryingStep
    <3>3. QED
      BY <3>1, <3>2
  <2>7. QED
    BY <2>2, <2>3, <2>4, <2>5, <2>6
<1>7. QED
  BY <1>5, <1>6

(* What nobody edits stays described, and where it is.                     *)
LEMMA DescribedGrows ==
  ASSUME IInv, [Next]_vars, ~touched', NEW n \in DOMAIN pulls
  PROVE  /\ pulls[n].text => pulls'[n].text
         /\ pulls[n].labelled => pulls'[n].labelled
         /\ pulls'[n].base = pulls[n].base
         /\ ~MergePull => pulls'[n].open = pulls[n].open
<1>1. CASE pulls'[n] = pulls[n]
  BY <1>1
<1>2. ASSUME NEW m, NEW h, MergedNow(m, h), MergePull
      PROVE  /\ pulls[n].text => pulls'[n].text
             /\ pulls[n].labelled => pulls'[n].labelled
             /\ pulls'[n].base = pulls[n].base
  BY <1>2 DEF MergedNow
<1>3. CASE PatchText \/ PatchLabels
  <2>1. \/ pulls' = [pulls EXCEPT ![known[Stages[item]].number].text = TRUE]
        \/ pulls' = [pulls EXCEPT ![known[Stages[item]].number].labelled = TRUE]
    BY <1>3 DEF PatchText, PatchLabels
  <2>2. IsPull(pulls[n])
    BY DEF IInv, TypePart
  <2>3. QED
    BY <2>1, <2>2 DEF IsPull
<1>4. CASE (\E m \in DOMAIN pulls : EditPull(m)) \/ \E b \in Branches : DeleteBranch(b)
  BY <1>4 DEF EditPull, DeleteBranch, Edited
<1>5. QED
  BY <1>1, <1>2, <1>3, <1>4, PullsTyped

(* What the run remembers unchanged has not been merged by this step.      *)
LEMMA RememberedStays ==
  ASSUME IInv, [Next]_vars, NEW p \in Pulls, ~Missing(p), known'[p] = known[p]
  PROVE  LET n == known[p].number
         IN  /\ pulls'[n].merge = pulls[n].merge
             /\ ~touched' => /\ pulls'[n].base = pulls[n].base
                             /\ pulls'[n].open = pulls[n].open
<1> DEFINE n == known[p].number
           s == Stages[item]
           m == known[s].number
<1>1. n \in DOMAIN pulls /\ pulls[n].stage = p
  BY KnownNumbers
<1>2. CASE MergePull /\ MergedNow(m, known[s].head)
  <2>1. pulls' # pulls
    BY <1>2, Commits DEF MergedNow
  <2>2. /\ s \in Pulls /\ ~Missing(s) /\ known[s].merge = Absent
        /\ known'[s].merge # Absent
    BY <1>2, <2>1, MergeLearns
  <2>3. s # p
    BY <2>2
  <2>4. pulls[m].stage = s
    BY <2>2, KnownNumbers
  <2>5. n # m
    BY <1>1, <2>3, <2>4
  <2>6. QED
    BY <1>1, <1>2, <2>5 DEF MergedNow
<1>3. CASE pulls'[n] = pulls[n]
  BY <1>3
<1>4. CASE Redescribed /\ ~MergePull
  BY <1>1, <1>4, DescribedGrows DEF Redescribed, Same
<1>5. PatchText \/ PatchLabels => ~MergePull
  BY DEF PatchText, PatchLabels, MergePull, At
<1>6. (\E k \in DOMAIN pulls : EditPull(k)) \/ (\E b \in Branches : DeleteBranch(b)) =>
        touched' = TRUE
  BY DEF EditPull, DeleteBranch, Edited
<1>7. CASE Redescribed /\ touched' = TRUE
  BY <1>1, <1>7 DEF Redescribed, Same
<1>8. QED
  BY <1>1, <1>2, <1>3, <1>4, <1>5, <1>6, <1>7, PullsTyped

LEMMA PullsKnownKept ==
  ASSUME IInv, [Next]_vars
  PROVE  PullsKnown'
<1>1. SUFFICES ASSUME NEW p \in Pulls, known'[p].number # 0
               PROVE  /\ known'[p].head = pulls'[known'[p].number].head
                      /\ known'[p].merge = pulls'[known'[p].number].merge
                      /\ ~touched' \/ known'[p].merge # Absent =>
                           /\ known'[p].base = pulls'[known'[p].number].base
                           /\ known'[p].open = pulls'[known'[p].number].open
                      /\ ~touched' =>
                           /\ known'[p].text => pulls'[known'[p].number].text
                           /\ known'[p].labelled =>
                                pulls'[known'[p].number].labelled
  BY DEF PullsKnown, Missing
<1>2. p \in Elements(Markers) /\ Blank[p].number = 0 /\ Nothing.number = 0
  <2>1. p \in Elements(Markers)
    BY MarkerFacts
  <2>2. Blank[p] = Nothing
    BY <2>1, BlankFacts
  <2>3. Nothing.number = 0
    BY DEF Nothing
  <2>4. QED
    BY <2>1, <2>2, <2>3
<1>3. ~Missing(p) =>
        /\ known[p].number \in DOMAIN pulls /\ pulls[known[p].number].stage = p
        /\ known[p].head = pulls[known[p].number].head
        /\ known[p].merge = pulls[known[p].number].merge
        /\ ~touched \/ known[p].merge # Absent =>
             /\ known[p].base = pulls[known[p].number].base
             /\ known[p].open = pulls[known[p].number].open
        /\ ~touched => /\ known[p].text => pulls[known[p].number].text
                       /\ known[p].labelled => pulls[known[p].number].labelled
  BY KnownNumbers DEF IInv, KnownPart, PullsKnown
<1>4. ~touched' /\ ~Missing(p) => ~touched
  BY <1>2, TouchedStep DEF Missing, IInv, KnownPart
<1>5. CASE known'[p] = known[p]
  <2> DEFINE n == known[p].number
  <2>1. ~Missing(p) /\ known'[p].number = n
    BY <1>1, <1>5 DEF Missing
  <2>2. n \in DOMAIN pulls /\ pulls'[n].head = pulls[n].head
    BY <1>3, <2>1, RecordsGrow
  <2>3. ~touched' => /\ known[p].text => pulls'[n].text
                     /\ known[p].labelled => pulls'[n].labelled
    BY <1>3, <1>4, <2>1, <2>2, DescribedGrows
  <2>4. /\ pulls'[n].merge = pulls[n].merge
        /\ ~touched' => /\ pulls'[n].base = pulls[n].base
                        /\ pulls'[n].open = pulls[n].open
    BY <1>5, <2>1, RememberedStays
  <2>5. known[p].merge # Absent => /\ pulls'[n].base = pulls[n].base
                                   /\ pulls'[n].open = pulls[n].open
    BY <1>3, <2>1, <2>2, RecordsGrow
  <2>6. ~touched' \/ known[p].merge # Absent =>
          /\ known[p].base = pulls'[n].base /\ known[p].open = pulls'[n].open
    BY <1>3, <1>4, <2>1, <2>4, <2>5
  <2>7. QED
    BY <1>3, <1>5, <2>1, <2>2, <2>3, <2>4, <2>6
<1>6. CASE Find /\ ~Conflict /\ p = Markers[item]
  <2>1. PICK n \in Carrying(p) : known'[p] = Detail(p, n)
    BY <1>1, <1>2, <1>6, FindLearns
  <2>2. known'[p] = PullAt(n) /\ pulls' = pulls
    BY <1>6, <2>1, FindLearns DEF Detail, github
  <2>3. QED
    BY <2>2 DEF PullAt
<1>7. CASE /\ OpenPull \/ PatchLabels \/ MergePull
           /\ known' # known /\ pc' \notin Resting /\ p = Stages[item]
  <2>1. CASE /\ OpenPull /\ pulls' = Append(pulls, Opened(p))
             /\ known'[p] = OpenedKnown(p)
    <3>1. pulls \in Seq(Elements(pulls) \cup {Opened(p)})
      BY DEF IInv, TypePart
    <3>2. pulls'[Len(pulls) + 1] = Opened(p)
      BY <2>1, <3>1, AppendProperties
    <3>3. known'[p].number = Len(pulls) + 1
      BY <2>1 DEF OpenedKnown
    <3>4. /\ known'[p].base = Base(p) /\ known'[p].open = TRUE
          /\ known'[p].head = refs[p] /\ known'[p].merge = Absent
      BY <2>1 DEF OpenedKnown
    <3>5. /\ Opened(p).base = Base(p) /\ Opened(p).open = TRUE
          /\ Opened(p).head = refs[p] /\ Opened(p).merge = Absent
          /\ Opened(p).text = TRUE
      BY DEF Opened
    <3>6. known'[p].labelled = FALSE
      BY <2>1 DEF OpenedKnown
    <3>7. QED
      BY <3>2, <3>3, <3>4, <3>5, <3>6
  <2>2. CASE ReadNow(p, known[p].number)
    BY <2>2 DEF ReadNow
  <2>3. QED
    BY <1>7, <2>1, <2>2, StageLearns
<1>8. CASE (CreateIssue \/ UpdateIssue) /\ p = Issues[item]
  BY <1>8, IssueLearns
<1>9. CASE known' = Blank
  BY <1>1, <1>2, <1>9
<1>10. QED
  BY <1>2, <1>5, <1>6, <1>7, <1>8, <1>9, KnownStep

LEMMA IssuesKnownKept ==
  ASSUME IInv, [Next]_vars
  PROVE  IssuesKnown'
<1>1. SUFFICES ASSUME NEW key \in Elements(Issues), known'[key].number # 0, ~touched'
               PROVE  LET n == known'[key].number
                      IN  /\ known'[key].closed = issues'[n].closed
                          /\ known'[key].labels = issues'[n].labels
                          /\ known'[key].body = issues'[n].body
  BY DEF IssuesKnown, Missing
<1>2. /\ key \in Elements(Markers) /\ key \notin Pulls
      /\ Blank[key].number = 0 /\ Nothing.number = 0
  <2>1. key \in Elements(Markers) /\ key \notin Pulls
    BY MarkerFacts
  <2>2. Blank[key] = Nothing
    BY <2>1, BlankFacts
  <2>3. Nothing.number = 0
    BY DEF Nothing
  <2>4. QED
    BY <2>1, <2>2, <2>3
<1>3. ~Missing(key) => ~touched
  BY <1>1, <1>2, TouchedStep DEF Missing, IInv, KnownPart
<1>4. ~Missing(key) =>
        /\ known[key].number \in DOMAIN issues
        /\ issues[known[key].number].key = key
        /\ known[key].closed = issues[known[key].number].closed
        /\ known[key].labels = issues[known[key].number].labels
        /\ known[key].body = issues[known[key].number].body
  BY <1>3, KnownNumbers DEF IInv, KnownPart, IssuesKnown
<1>5. CASE known'[key] = known[key] /\ known' # Blank
  <2> DEFINE n == known[key].number
  <2>1. ~Missing(key)
    BY <1>1, <1>5 DEF Missing
  <2>2. CASE issues'[n] = issues[n]
    BY <1>4, <1>5, <2>1, <2>2
  <2>3. CASE CreateIssue \/ UpdateIssue
    <3>1. CASE key = Issues[item]
      BY <2>3, <3>1, IssueLearns
    <3>2. CASE key # Issues[item]
      <4>1. PICK other : other = Issues[item]
        OBVIOUS
      <4>2. /\ other \in Elements(Issues) /\ known'[other].number \in Carrying(other)'
            /\ \A m \in DOMAIN issues : m # known'[other].number =>
                 issues'[m] = issues[m]
        BY <2>3, <4>1, IssueLearns
      <4>3. issues'[known'[other].number].key = other
        BY <4>2, CarryingAfter
      <4>4. issues'[n].key = key
        BY <1>4, <2>1, RecordsGrow
      <4>5. issues'[n] = issues[n]
        BY <1>4, <2>1, <3>2, <4>1, <4>2, <4>3, <4>4
      <4>6. QED
        BY <2>2, <4>5
    <3>3. QED
      BY <3>1, <3>2
  <2>4. ~WriteEvidence /\ ~\E m \in DOMAIN issues : EditIssue(m)
    BY <1>1, <1>5 DEF WriteEvidence, End, EditIssue, Edited
  <2>5. QED
    BY <2>2, <2>3, <2>4, Steps, RunFrame, OutsideFrame, StopFrame, StillFrame
       DEF Outside, github
<1>6. CASE Find /\ ~Conflict /\ key = Markers[item]
  <2>1. PICK n \in Carrying(key) : known'[key] = Detail(key, n)
    BY <1>1, <1>2, <1>6, FindLearns
  <2>2. known'[key] = IssueAt(n) /\ issues' = issues
    BY <1>2, <1>6, <2>1, FindLearns DEF Detail, github
  <2>3. QED
    BY <2>2 DEF IssueAt
<1>7. CASE (CreateIssue \/ UpdateIssue) /\ key = Issues[item]
  BY <1>7, IssueLearns
<1>8. CASE /\ OpenPull \/ PatchLabels \/ MergePull
           /\ known' # known /\ pc' \notin Resting /\ key = Stages[item]
  BY <1>2, <1>8, StageLearns
<1>9. CASE known' = Blank
  BY <1>1, <1>2, <1>9
<1>10. QED
  BY <1>2, <1>5, <1>6, <1>7, <1>8, <1>9, KnownStep

(* How a run comes to make things, and how it leaves a validated stage.    *)
LEMMA MakingStep ==
  ASSUME IInv, [Next]_vars, pc' \in Making
  PROVE  LET p == Stages[item]
         IN  \/ pc \in Making \ {"validate"}
             \/ Topology /\ ExistingTopology /\ known' = known
             \/ pc = "validate" /\ pc' = pc /\ item' = item /\ known' = known
             \/ /\ Validate /\ pc = "validate" /\ known' = known
                /\ PullTopology(p, known[p], Parent(p))
<1> USE DEF Making, Filing, Building, Finishing, Resting
<1>1. CASE Start \/ EnsureRepository \/ Push \/ Find
  BY <1>1 DEF Start, EnsureRepository, Push, Find, Advance, Goto, Conflict, Fail, End
<1>2. CASE Topology \/ Validate
  BY <1>2 DEF Topology, Validate, At, Conflict, Fail, End, Goto, Quietly
<1>3. CASE Run /\ ~Start /\ ~EnsureRepository /\ ~Push /\ ~Find /\ ~Topology /\ ~Validate
  BY <1>3
     DEF Run, EnsureMilestone, UpsertLabel, CreateIssue, UpdateIssue, LeaveIssue,
         EnsureBase, EnsureHead, OpenPull, Describe, PatchText, PatchLabels,
         MergePull, EnsureCandidate, Verify, Poll, WriteEvidence, At
<1>4. CASE Outside \/ Stop \/ UNCHANGED vars
  BY <1>4, OutsideFrame, StopFrame, StillFrame DEF Outside, seeder
<1>5. QED
  BY <1>1, <1>2, <1>3, <1>4, Steps

(* A run refuses a pull request merged elsewhere before it goes on.        *)
LEMMA InPlaceKept ==
  ASSUME IInv, [Next]_vars
  PROVE  InPlace'
<1>1. SUFFICES ASSUME pc' \in Making, NEW p \in Pulls
               PROVE  Placed(p)' \/ (pc' = "validate" /\ p = Stages[item'])
  BY DEF InPlace
<1> DEFINE s == Stages[item]
<1>2. p \in Elements(Markers)
  BY MarkerFacts
<1>3. ASSUME known'[p] = known[p], Placed(p) PROVE Placed(p)'
  BY <1>3 DEF Placed, Missing
<1>4. CASE Topology /\ ExistingTopology /\ known' = known
  <2>1. Placed(p)
    BY <1>4 DEF ExistingTopology, PullTopology, Placed
  <2>2. QED
    BY <1>3, <1>4, <2>1
<1>5. CASE pc = "validate" /\ pc' = pc /\ item' = item /\ known' = known
  BY <1>1, <1>3, <1>5 DEF IInv, KnownPart, InPlace
<1>6. CASE /\ Validate /\ pc = "validate" /\ known' = known
           /\ PullTopology(s, known[s], Parent(s))
  <2>1. CASE p = s
    BY <1>3, <1>6, <2>1 DEF PullTopology, Placed
  <2>2. CASE p # s
    BY <1>3, <1>6, <2>2, PlacedWhenMaking DEF Making, Building
  <2>3. QED
    BY <2>1, <2>2
<1>7. CASE pc \in Making \ {"validate"}
  <2>1. Placed(p)
    BY <1>7, PlacedWhenMaking
  <2>2. CASE known'[p] = known[p]
    BY <1>3, <2>1, <2>2
  <2>3. CASE /\ OpenPull \/ PatchLabels \/ MergePull
             /\ known' # known /\ pc' \notin Resting /\ p = s
    <3>1. CASE known'[p] = OpenedKnown(p)
      BY <3>1 DEF OpenedKnown, Placed
    <3>2. CASE /\ ~Missing(p) /\ known[p].number \in DOMAIN pulls
               /\ ReadNow(p, known[p].number) /\ known'[p].merge = known[p].merge
      <4> DEFINE n == known[p].number
      <4>1. SUFFICES ASSUME known[p].merge # Absent
                     PROVE  known'[p].base = Base(p)
        BY <3>2 DEF Placed
      <4>2. /\ known[p].base = Base(p) /\ pulls[n].base = Base(p)
            /\ pulls[n].merge # Absent
        BY <2>1, <3>2, <4>1, KnownMerged DEF Placed, MergeKnown
      <4>3. pulls'[n].base = Base(p)
        BY <3>2, <4>2, RecordsGrow
      <4>4. QED
        BY <3>2, <4>3 DEF ReadNow
    <3>3. CASE pc' = "validate" /\ item' = item
      BY <2>3, <3>3
    <3>4. QED
      BY <2>3, <3>1, <3>2, <3>3, StageLearns
  <2>4. ~Find /\ pc' \notin Resting
    BY <1>1, <1>7 DEF Find, Making, Filing, Building, Finishing, Resting
  <2>5. ~((CreateIssue \/ UpdateIssue) /\ p = Issues[item])
    BY IssueLearns
  <2>6. QED
    BY <1>2, <2>2, <2>3, <2>4, <2>5, KnownStep
<1>8. QED
  BY <1>1, <1>4, <1>5, <1>6, <1>7, MakingStep

LEMMA KnownPartKept ==
  ASSUME IInv, [Next]_vars
  PROVE  KnownPart'
BY BlankBefore, SeenKept, PullsKnownKept, IssuesKnownKept, InPlaceKept
   DEF KnownPart, Resting

-----------------------------------------------------------------------------
(***************************************************************************)
(* How a run goes through the stages.                                      *)
(***************************************************************************)
LEMMA StageStep ==
  ASSUME IInv, [Next]_vars, pc' \in Building \cup Finishing
  PROVE  LET p == Stages[item]
         IN  \/ pc' = pc /\ item' = item /\ known' = known
             \/ pc \in Filing /\ pc' = "base" /\ item' = 1
             \/ /\ EnsureBase /\ pc = "base" /\ pc' = "head" /\ item' = item
                /\ \/ refs[Base(p)] # Absent /\ refs' = refs
                   \/ refs' = [refs EXCEPT ![Base(p)] = Restored(p)]
             \/ /\ EnsureHead /\ pc = "head" /\ item' = item /\ known' = known
                /\ pc' = IF Missing(p) THEN "open" ELSE "describe"
                /\ refs' = [refs EXCEPT ![p] =
                     IF Missing(p) THEN Feature(p, Parent(p)) ELSE known[p].head]
             \/ OpenPull /\ pc = "open" /\ pc' = "text" /\ item' = item /\ ~Refused(p)
             \/ /\ Describe /\ pc = "describe" /\ item' = item
                /\ known' = known /\ pulls' = pulls
                /\ pc' = IF known[p].text /\ known[p].labelled THEN "merge" ELSE "text"
             \/ PatchText /\ pc = "text" /\ pc' = "label" /\ item' = item
             \/ /\ PatchLabels /\ pc = "label" /\ item' = item
                /\ pc' \in {"describe", "merge"}
             \/ /\ MergePull /\ pc = "merge" /\ pc' = "validate" /\ item' = item
             \/ /\ Validate /\ pc = "validate"
                /\ IF item < 3 THEN pc' = "base" /\ item' = item + 1
                               ELSE pc' = "candidate" /\ item' = 1
             \/ EnsureCandidate /\ pc = "candidate" /\ pc' = "verify"
             \/ Verify /\ pc = "verify" /\ pc' = "poll" /\ FinalRefs /\ UNCHANGED github
             \/ Poll /\ pc = "poll" /\ pc' \in {"poll", "evidence"} /\ UNCHANGED github
<1> USE DEF Building, Finishing, Filing
<1>1. CASE Run
  <2>1. CASE Start \/ EnsureRepository \/ Push \/ Find \/ Topology
    BY <2>1 DEF Start, EnsureRepository, Push, Find, Topology, Advance, Goto,
       Conflict, Fail, End, At
  <2>2. CASE EnsureMilestone \/ UpsertLabel
    BY <2>2 DEF EnsureMilestone, UpsertLabel, Advance, Goto, At
  <2>3. CASE CreateIssue \/ UpdateIssue \/ LeaveIssue
    BY <2>3 DEF CreateIssue, UpdateIssue, LeaveIssue, NextIssue, Advance, Goto, At
  <2>4. CASE EnsureBase
    BY <2>4 DEF EnsureBase, Goto, At, Conflict, Fail, End, Quietly, github
  <2>5. CASE EnsureHead
    BY <2>5 DEF EnsureHead, Goto, At, Conflict, Fail, End
  <2>6. CASE OpenPull
    BY <2>6 DEF OpenPull, Goto, At, Conflict, Fail, End
  <2>7. CASE Describe \/ PatchText \/ PatchLabels \/ MergePull
    <3>1. CASE Describe
      BY <3>1 DEF Describe, Goto, At, Conflict, Fail, End, Quietly, github
    <3>2. CASE PatchText
      BY <3>2 DEF PatchText, Goto, At
    <3>3. CASE PatchLabels
      BY <3>3 DEF PatchLabels, Goto, At
    <3>4. CASE MergePull
      BY <3>4 DEF MergePull, Goto, At, Conflict, Fail, End
    <3>5. QED
      BY <2>7, <3>1, <3>2, <3>3, <3>4
  <2>8. CASE Validate
    <3>1. Len(Stages) = 3
      BY StageFacts
    <3>2. QED
      BY <2>8, <3>1 DEF Validate, Advance, Goto, At, Conflict, Fail, End
  <2>9. CASE EnsureCandidate
    BY <2>9 DEF EnsureCandidate, Goto, At
  <2>10. CASE Verify
    BY <2>10 DEF Verify, Goto, At, Conflict, Fail, End, Quietly
  <2>11. CASE Poll
    BY <2>11 DEF Poll, Goto, At, Fail, End, Quietly
  <2>12. CASE WriteEvidence
    BY <2>12 DEF WriteEvidence, Goto, At, End
  <2>13. QED
    BY <1>1, <2>1, <2>2, <2>3, <2>4, <2>5, <2>6, <2>7, <2>8, <2>9, <2>10, <2>11,
       <2>12 DEF Run
<1>2. CASE Outside \/ Stop \/ UNCHANGED vars
  BY <1>2, OutsideFrame, StopFrame, StillFrame DEF Outside, seeder
<1>3. QED
  BY <1>1, <1>2, Steps

(* While it makes things, a run forgets nothing, and a head and a merge    *)
(* once known stay.                                                        *)
LEMMA KnownStays ==
  ASSUME IInv, [Next]_vars, NEW x \in Elements(Markers), ~Missing(x),
         pc \in Making, pc' \notin Resting
  PROVE  /\ known'[x].number = known[x].number
         /\ x \in Pulls => /\ known'[x].head = known[x].head
                           /\ known[x].merge # Absent =>
                                known'[x].merge = known[x].merge
<1>1. ~Find
  BY DEF Find, Making, Filing, Building, Finishing
<1>2. CASE known'[x] = known[x]
  BY <1>2
<1>3. CASE (CreateIssue \/ UpdateIssue) /\ x = Issues[item]
  BY <1>3, IssueLearns
<1>4. CASE /\ OpenPull \/ PatchLabels \/ MergePull
           /\ known' # known /\ pc' \notin Resting /\ x = Stages[item]
  BY <1>4, StageLearns DEF ReadNow
<1>5. QED
  BY <1>1, <1>2, <1>3, <1>4, KnownStep

(* The head of a stage, once it is known.                                  *)
LEMMA HeadAtStage ==
  ASSUME IInv, pc \in Building, NEW p, p = Stages[item]
  PROVE  /\ p \in Pulls /\ p \in Elements(Markers)
         /\ ~Missing(p) => /\ known[p].head = Feature(p, Parent(p))
                           /\ Placed(p) => known[p].merge \in {Absent,
                                MergeOf(known[p].number, Parent(p), known[p].head)}
<1>1. p \in Pulls /\ p \in Elements(Markers) /\ Parents(pulls, p) = {Parent(p)}
  BY ParentAtStage, MarkerFacts
<1>2. SUFFICES ASSUME ~Missing(p)
               PROVE  /\ known[p].head = Feature(p, Parent(p))
                      /\ Placed(p) => known[p].merge \in {Absent,
                           MergeOf(known[p].number, Parent(p), known[p].head)}
  BY <1>1
<1>3. /\ known[p].number \in DOMAIN pulls /\ pulls[known[p].number].stage = p
      /\ known[p].head = pulls[known[p].number].head
      /\ known[p].merge = pulls[known[p].number].merge
  BY <1>1, <1>2, KnownMerged, KnownNumbers
<1>4. Placed(p) /\ known[p].merge # Absent => known[p].number \in Merged(pulls, p)
  BY <1>1, <1>2, KnownMerged DEF MergeKnown
<1>5. QED
  BY <1>1, <1>3, <1>4, PullsMade

-----------------------------------------------------------------------------
(***************************************************************************)
(* What the steps of a stage have achieved stays achieved.                 *)
(***************************************************************************)
LEMMA StagedKept ==
  ASSUME IInv, [Next]_vars, NEW k \in 1..3
  PROVE  Staged(k)'
<1> DEFINE p == Stages[k]
           Steps1 == {"describe", "text", "label", "merge", "validate"}
<1> USE DEF Building, Finishing, Filing
<1>1. SUFFICES ASSUME pc' \in Building \cup Finishing
               PROVE  Staged(k)'
  BY DEF Staged, Past
<1>2. /\ p \in Elements(Markers) /\ p \in Pulls
      /\ pc \in Building => item \in 1..3
      /\ Staged(k)
  BY StageFacts, MarkerFacts, ItemFacts DEF IInv, StagePart
<1>3. pc' \notin Resting
  BY <1>1 DEF Resting
<1>4. pc \in Making /\ ~Missing(p) =>
        /\ known'[p].number # 0
        /\ known[p].merge # Absent => known'[p].merge # Absent
  BY <1>2, <1>3, KnownStays DEF Missing
<1>5. pc \in Making \/ (pc' = pc /\ item' = item /\ known' = known)
  BY <1>1, StageStep DEF Making
<1>6. Past(k, Steps1)' =>
        \/ Past(k, Steps1)
        \/ k = item /\ EnsureHead /\ ~Missing(p) /\ pc \in Making
        \/ k = item /\ OpenPull /\ pc = "open" /\ ~Refused(p)
  BY <1>1, <1>2, StageStep DEF Past, Making
<1>7. Past(k, Steps1)' => known'[p].number # 0
  <2>1. CASE Past(k, Steps1)
    BY <1>2, <1>4, <1>5, <2>1 DEF Staged, Missing, Past
  <2>2. CASE k = item /\ EnsureHead /\ ~Missing(p) /\ pc \in Making
    BY <1>4, <2>2
  <2>3. CASE k = item /\ OpenPull /\ pc = "open" /\ ~Refused(p)
    <3>1. known' = [known EXCEPT ![p] = OpenedKnown(p)]
      BY <1>3, <2>3 DEF OpenPull, OpenedKnown, Conflict, Fail, End, Goto, Resting
    <3>2. known'[p].number = Len(pulls) + 1
      BY <1>2, <3>1 DEF IInv, TypePart, OpenedKnown
    <3>3. Len(pulls) + 1 # 0
      BY LenProperties DEF IInv, TypePart
    <3>4. QED
      BY <3>2, <3>3
  <2>4. QED
    BY <1>6, <2>1, <2>2, <2>3
<1>8. pc' = "open" /\ k = item' => known'[p].number = 0
  BY <1>1, <1>2, StageStep DEF Staged, Missing
<1>9. Past(k, {"validate"})' =>
        Past(k, {"validate"}) \/ (k = item /\ MergePull /\ pc = "merge")
  BY <1>1, <1>2, StageStep DEF Past
<1>10. Past(k, {"validate"})' => known'[p].merge # Absent
  <2>1. CASE Past(k, {"validate"})
    BY <1>2, <1>4, <1>5, <2>1 DEF Staged, Past
  <2>2. CASE k = item /\ MergePull /\ pc = "merge"
    <3>1. ~Missing(p)
      BY <1>2, <2>2 DEF Staged, Past
    <3>2. CASE known[p].merge # Absent
      BY <1>4, <2>2, <3>1, <3>2 DEF Making
    <3>3. CASE known[p].merge = Absent
      BY <1>3, <2>2, <3>3, MergeLearns
    <3>4. QED
      BY <3>2, <3>3
  <2>3. QED
    BY <1>9, <2>1, <2>2
<1>11. QED
  BY <1>7, <1>8, <1>10 DEF Staged, Missing

(* A branch stays until somebody deletes it.                               *)
LEMMA BranchStays ==
  ASSUME IInv, [Next]_vars, ~touched', NEW b \in Branches, refs[b] # Absent
  PROVE  refs'[b] # Absent
<1>1. CASE EnsureHead /\ refs'[b] = Feature(b, Parent(b))
  BY <1>1, Commits
<1>2. CASE refs'[b] = MergeOf(known[Stages[item]].number, refs[b],
                              known[Stages[item]].head)
  BY <1>2, Commits
<1>3. QED
  BY <1>1, <1>2, RefsStep

LEMMA StandingKept ==
  ASSUME IInv, [Next]_vars, ~touched', NEW k \in 1..3
  PROVE  Standing(k)'
<1> DEFINE p == Stages[k]
<1> USE DEF Building, Finishing, Filing
<1>1. SUFFICES ASSUME pc' \in Building \cup Finishing
               PROVE  Standing(k)'
  BY DEF Standing, Past
<1>2. /\ p \in Pulls /\ p \in Branches /\ Base(p) \in Branches
      /\ pc \in Building => item \in 1..3
      /\ DOMAIN refs = Branches
  BY StageFacts, ItemFacts DEF IInv, TypePart
<1>3. ~touched
  BY <1>1, TouchedStep DEF Start, Goto
<1>4. Standing(k)
  BY <1>3 DEF IInv, StagePart
<1>5. Past(k, Building \ {"base"})' =>
        Past(k, Building \ {"base"}) \/ (k = item /\ EnsureBase /\ pc = "base")
  BY <1>1, <1>2, StageStep DEF Past
<1>6. Past(k, Building \ {"base"})' => refs'[Base(p)] # Absent
  <2>1. CASE refs[Base(p)] # Absent
    BY <1>2, <2>1, BranchStays
  <2>2. CASE k = item /\ EnsureBase /\ pc = "base" /\ refs[Base(p)] = Absent
    <3>1. refs' = [refs EXCEPT ![Base(p)] = Restored(p)] /\ Base(p) = "previous"
      BY <1>1, <2>2 DEF EnsureBase, Conflict, Fail, End, Goto
    <3>2. Restored(p) # Absent
      BY <1>2, <2>2, ParentAtStage DEF Restored, Else
    <3>3. QED
      BY <1>2, <3>1, <3>2
  <2>3. QED
    BY <1>4, <1>5, <2>1, <2>2 DEF Standing
<1>7. Past(k, Building \ {"base", "head"})' =>
        \/ Past(k, Building \ {"base", "head"})
        \/ /\ k = item /\ EnsureHead /\ pc = "head"
           /\ refs' = [refs EXCEPT ![p] =
                IF Missing(p) THEN Feature(p, Parent(p)) ELSE known[p].head]
  BY <1>1, <1>2, StageStep DEF Past
<1>8. Past(k, Building \ {"base", "head"})' => refs'[p] # Absent
  <2>1. CASE refs[p] # Absent
    BY <1>2, <2>1, BranchStays
  <2>2. CASE /\ k = item /\ EnsureHead /\ pc = "head"
             /\ refs' = [refs EXCEPT ![p] =
                  IF Missing(p) THEN Feature(p, Parent(p)) ELSE known[p].head]
    <3>1. refs'[p] = IF Missing(p) THEN Feature(p, Parent(p)) ELSE known[p].head
      BY <1>2, <2>2
    <3>2. QED
      BY <2>2, <3>1, HeadAtStage, Commits
  <2>3. QED
    BY <1>4, <1>7, <2>1, <2>2 DEF Standing
<1>9. QED
  BY <1>6, <1>8 DEF Standing

LEMMA DescribedKept ==
  ASSUME IInv, [Next]_vars, ~touched', NEW k \in 1..3
  PROVE  Described(k)'
<1> DEFINE p == Stages[k]
           n == known[p].number
<1> USE DEF Building, Finishing, Filing
<1>1. SUFFICES ASSUME pc' \in Building \cup Finishing
               PROVE  Described(k)'
  BY DEF Described, Past
<1>2. /\ p \in Pulls /\ p \in Elements(Markers)
      /\ pc \in Building => item \in 1..3
  BY StageFacts, MarkerFacts, ItemFacts
<1>3. pc' \notin Resting /\ ~touched
  BY <1>1, TouchedStep DEF Start, Goto, Resting
<1>4. Described(k) /\ Staged(k)
  BY <1>3 DEF IInv, StagePart
<1>5. pc \in Making \/ (pc' = pc /\ item' = item /\ known' = known)
  BY <1>1, StageStep DEF Making
<1>6. Past(k, {"text", "label", "describe", "merge", "validate"}) =>
        /\ known'[p].number = n /\ n \in DOMAIN pulls /\ IsPull(pulls[n])
        /\ pulls[n].text => pulls'[n].text
        /\ pulls[n].labelled => pulls'[n].labelled
        /\ known[p].text => pulls[n].text
        /\ known[p].labelled => pulls[n].labelled
  <2>1. SUFFICES ASSUME Past(k, {"text", "label", "describe", "merge", "validate"})
                 PROVE  /\ known'[p].number = n /\ n \in DOMAIN pulls
                        /\ IsPull(pulls[n])
                        /\ pulls[n].text => pulls'[n].text
                        /\ pulls[n].labelled => pulls'[n].labelled
                        /\ known[p].text => pulls[n].text
                        /\ known[p].labelled => pulls[n].labelled
    OBVIOUS
  <2>2. ~Missing(p)
    BY <1>4, <2>1 DEF Staged, Past
  <2>3. known'[p].number = n
    BY <1>2, <1>3, <1>5, <2>2, KnownStays
  <2>4. n \in DOMAIN pulls /\ IsPull(pulls[n])
    BY <1>2, <2>2, KnownNumbers DEF IInv, TypePart
  <2>5. /\ known[p].text => pulls[n].text
        /\ known[p].labelled => pulls[n].labelled
    BY <1>2, <1>3, <2>2 DEF IInv, KnownPart, PullsKnown
  <2>6. QED
    BY <2>3, <2>4, <2>5, DescribedGrows
<1>7. Past(k, {"label", "merge", "validate"})' =>
        \/ Past(k, {"label", "merge", "validate"})
        \/ k = item /\ PatchText /\ pc = "text"
        \/ k = item /\ pc = "describe" /\ known[p].text /\ known[p].labelled
  BY <1>1, <1>2, StageStep DEF Past
<1>8. Past(k, {"label", "merge", "validate"})' => pulls'[known'[p].number].text
  <2>1. CASE Past(k, {"label", "merge", "validate"})
    BY <1>4, <1>6, <2>1 DEF Described, Past
  <2>2. CASE k = item /\ PatchText /\ pc = "text"
    <3>1. pulls' = [pulls EXCEPT ![n].text = TRUE]
      BY <2>2 DEF PatchText
    <3>2. QED
      BY <1>6, <2>2, <3>1 DEF Past, IsPull
  <2>3. CASE k = item /\ pc = "describe" /\ known[p].text /\ known[p].labelled
    BY <1>6, <2>3 DEF Past
  <2>4. QED
    BY <1>7, <2>1, <2>2, <2>3
<1>9. Past(k, {"merge", "validate"})' =>
        \/ Past(k, {"merge", "validate"})
        \/ k = item /\ PatchLabels /\ pc = "label"
        \/ k = item /\ pc = "describe" /\ known[p].text /\ known[p].labelled
  BY <1>1, <1>2, StageStep DEF Past
<1>10. Past(k, {"merge", "validate"})' => pulls'[known'[p].number].labelled
  <2>1. CASE Past(k, {"merge", "validate"})
    BY <1>4, <1>6, <2>1 DEF Described, Past
  <2>2. CASE k = item /\ PatchLabels /\ pc = "label"
    <3>1. pulls' = [pulls EXCEPT ![n].labelled = TRUE]
      BY <2>2 DEF PatchLabels
    <3>2. QED
      BY <1>6, <2>2, <3>1 DEF Past, IsPull
  <2>3. CASE k = item /\ pc = "describe" /\ known[p].text /\ known[p].labelled
    BY <1>6, <2>3 DEF Past
  <2>4. QED
    BY <1>9, <2>1, <2>2, <2>3
<1>11. QED
  BY <1>8, <1>10 DEF Described

LEMMA StagePartKept ==
  ASSUME IInv, [Next]_vars
  PROVE  StagePart'
BY StagedKept, StandingKept, DescribedKept DEF StagePart

(* The branches checked last stay as they were checked.                    *)
LEMMA FinalPartKept ==
  ASSUME IInv, [Next]_vars
  PROVE  FinalPart'
<1> USE DEF Building, Finishing
<1>1. SUFFICES ASSUME ~touched', pc' \in {"verify", "poll", "evidence"}
               PROVE  /\ refs'["candidate"] # Absent
                      /\ pc' \in {"poll", "evidence"} => FinalRefs'
  BY DEF FinalPart
<1>2. ~touched /\ FinalPart
  BY <1>1, TouchedStep DEF Start, Goto, IInv, FinalPart
<1>3. "candidate" \in Branches /\ DOMAIN refs = Branches
  BY StageFacts DEF IInv, TypePart
<1>4. \/ pc = pc'
      \/ EnsureCandidate /\ pc = "candidate" /\ pc' = "verify"
      \/ pc \in {"verify", "poll"}
  BY <1>1, StageStep DEF Filing
<1>5. refs'["candidate"] # Absent
  <2>1. CASE refs["candidate"] # Absent
    BY <1>1, <1>3, <2>1, BranchStays
  <2>2. CASE EnsureCandidate /\ pc = "candidate"
    <3>1. Staged(3)
      BY DEF IInv, StagePart
    <3>2. ~Missing("current_main") /\ known["current_main"].merge # Absent
      BY <2>2, <3>1, StageFacts DEF Staged, Past
    <3>3. refs'["candidate"] = Else(refs["candidate"], MergeKnown("current_main"))
      BY <1>3, <2>2 DEF EnsureCandidate
    <3>4. QED
      BY <3>2, <3>3 DEF Else, MergeKnown
  <2>3. QED
    BY <1>1, <1>2, <1>4, <2>1, <2>2 DEF FinalPart
<1>6. ASSUME pc' \in {"poll", "evidence"} PROVE FinalRefs'
  <2>1. /\ FinalRefs
        /\ refs' = refs /\ known' = known
    <3>1. CASE Run
      <4>1. CASE (Verify \/ Poll) /\ FinalRefs
        BY <1>6, <4>1 DEF Verify, Poll, Conflict, Fail, End, Goto, Quietly, github
      <4>2. CASE pc' = pc /\ ~Poll
        BY <1>6, <3>1, <4>2
           DEF Run, Start, EnsureRepository, Push, Find, Topology, EnsureMilestone,
               UpsertLabel, CreateIssue, UpdateIssue, LeaveIssue, EnsureBase,
               EnsureHead, OpenPull, Describe, PatchText, PatchLabels, MergePull,
               Validate, EnsureCandidate, Verify, WriteEvidence, NextIssue,
               Advance, Goto, Conflict, Fail, End, At
      <4>3. Poll => pc = "poll"
        BY DEF Poll, At
      <4>4. QED
        BY <1>2, <1>6, <4>1, <4>2, <4>3, StageStep DEF FinalPart, Filing
    <3>2. CASE Outside \/ Stop \/ UNCHANGED vars
      BY <1>1, <1>2, <1>6, <3>2, OutsideFrame, StopFrame, StillFrame
         DEF Outside, FinalPart, seeder, github
    <3>3. QED
      BY <3>1, <3>2, Steps
  <2>2. QED
    BY <2>1 DEF FinalRefs, MergeKnown, Missing
<1>7. QED
  BY <1>5, <1>6

-----------------------------------------------------------------------------
(***************************************************************************)
(* Milestones and labels are made in order.                                *)
(***************************************************************************)
LEMMA FirstMilestones ==
  ASSUME IInv
  PROVE  /\ Milestones \in Seq(Elements(Milestones))
         /\ Len(milestones) \in 0..Len(Milestones)
         /\ milestones \in Seq(Elements(Milestones))
         /\ \A k \in 1..Len(milestones) : milestones[k] = Milestones[k]
<1>1. Milestones \in Seq(Elements(Milestones))
  BY ManifestAssumption
<1>2. PICK n : n = Len(milestones)
  OBVIOUS
<1>3. n \in 0..Len(Milestones) /\ milestones = SubSeq(Milestones, 1, n)
  BY <1>2 DEF IInv, ListPart
<1>4. /\ 1 \in Int /\ n \in Int
      /\ \A k \in 1..n : Milestones[k] \in Elements(Milestones)
  <2>1. /\ Len(Milestones) \in Nat /\ DOMAIN Milestones = 1..Len(Milestones)
        /\ n \in Int
    BY <1>3, MarkerFacts
  <2>2. \A k \in DOMAIN Milestones : Milestones[k] \in Elements(Milestones)
    BY DEF Elements
  <2>3. QED
    BY <1>3, <2>1, <2>2
<1>5. /\ SubSeq(Milestones, 1, n) \in Seq(Elements(Milestones))
      /\ \A k \in 1..n - 1 + 1 : SubSeq(Milestones, 1, n)[k] = Milestones[1 + k - 1]
  BY <1>4, SubSeqProperties
<1>6. QED
  BY <1>1, <1>2, <1>3, <1>5

LEMMA MilestonesGrow ==
  ASSUME IInv, pc = "milestones",
         milestones' = IF item \in DOMAIN milestones THEN milestones
                       ELSE Append(milestones, Milestones[item])
  PROVE  /\ milestones' = SubSeq(Milestones, 1, Len(milestones'))
         /\ Len(milestones') \in 0..Len(Milestones)
         /\ item <= Len(milestones')
<1> DEFINE n == Len(milestones)
<1>1. /\ item \in 1..Len(Milestones) /\ item <= n + 1
      /\ milestones = SubSeq(Milestones, 1, n)
  BY ItemFacts DEF IInv, ListPart
<1>2. /\ n \in 0..Len(Milestones) /\ Len(Milestones) \in Nat
      /\ DOMAIN Milestones = 1..Len(Milestones) /\ DOMAIN milestones = 1..n
  BY FirstMilestones, MarkerFacts, LenProperties
<1>3. CASE item \in DOMAIN milestones
  BY <1>1, <1>2, <1>3
<1>4. CASE item \notin DOMAIN milestones
  <2>1. item = n + 1 /\ n + 1 \in 1..Len(Milestones)
    BY <1>1, <1>2, <1>4
  <2>2. milestones' = Append(milestones, Milestones[n + 1])
    BY <1>4, <2>1
  <2>3. Milestones[n + 1] \in Elements(Milestones)
    BY <1>2, <2>1 DEF Elements
  <2>4. /\ milestones' \in Seq(Elements(Milestones)) /\ Len(milestones') = n + 1
        /\ \A k \in 1..n : milestones'[k] = milestones[k]
        /\ milestones'[n + 1] = Milestones[n + 1]
    BY <1>2, <2>2, <2>3, FirstMilestones, AppendProperties
  <2>5. PICK s : s = SubSeq(Milestones, 1, n + 1)
    OBVIOUS
  <2>6. /\ 1 \in Int /\ n + 1 \in Int
        /\ \A k \in 1..n + 1 : Milestones[k] \in Elements(Milestones)
    BY <1>2, <2>1 DEF Elements
  <2>7. /\ s \in Seq(Elements(Milestones)) /\ Len(s) = n + 1
        /\ \A k \in 1..n + 1 : s[k] = Milestones[k]
    BY <1>2, <2>5, <2>6, SubSeqProperties
  <2>8. \A k \in 1..n + 1 : milestones'[k] = s[k]
    BY <1>2, <2>4, <2>7, FirstMilestones
  <2>9. milestones' = s
    BY <2>4, <2>7, <2>8, SeqEqual
  <2>10. QED
    BY <1>2, <2>1, <2>4, <2>5, <2>9
<1>5. QED
  BY <1>3, <1>4

(* How a run comes to make the records.                                    *)
LEMMA ListStep ==
  ASSUME IInv, [Next]_vars, pc' \in Making \cup {"done"}
  PROVE  \/ /\ pc' = pc /\ item' = item
            /\ milestones' = milestones /\ labels' = labels
         \/ /\ pc \in Making \ {"milestones", "labels"}
            /\ pc' \in (Making \cup {"done"}) \ {"milestones", "labels"}
            /\ milestones' = milestones /\ labels' = labels
         \/ /\ pc' = "milestones" /\ item' = 1
            /\ milestones' = milestones /\ labels' = labels
         \/ EnsureMilestone
         \/ UpsertLabel
<1> USE DEF Making, Filing, Building, Finishing
<1>1. CASE Run
  <2>1. CASE Start \/ EnsureRepository \/ Push \/ Find
    BY <2>1 DEF Start, EnsureRepository, Push, Find, Advance, Goto, Conflict, Fail,
       End, At
  <2>2. CASE Topology
    BY <2>2 DEF Topology, Goto, Conflict, Fail, End, Quietly, github
  <2>3. CASE CreateIssue \/ UpdateIssue
    BY <2>3 DEF CreateIssue, UpdateIssue, NextIssue, Advance, Goto, At
  <2>4. CASE LeaveIssue
    BY <2>4 DEF LeaveIssue, NextIssue, Advance, Goto, At, Quietly, github
  <2>5. CASE EnsureBase \/ EnsureHead \/ OpenPull \/ Describe
    BY <2>5 DEF EnsureBase, EnsureHead, OpenPull, Describe, Goto, At, Conflict, Fail,
       End, Quietly, github
  <2>6. CASE PatchText \/ PatchLabels \/ MergePull
    BY <2>6 DEF PatchText, PatchLabels, MergePull, Goto, At, Conflict, Fail,
       End, Quietly, github
  <2>7. CASE Validate \/ EnsureCandidate \/ Verify
    BY <2>7 DEF Validate, EnsureCandidate, Verify, Advance, Goto, At, Conflict, Fail,
       End, Quietly, github
  <2>8. CASE Poll \/ WriteEvidence
    BY <2>8 DEF Poll, WriteEvidence, Goto, At, Fail, End, Quietly, github
  <2>9. QED
    BY <1>1, <2>1, <2>2, <2>3, <2>4, <2>5, <2>6, <2>7, <2>8 DEF Run
<1>2. CASE Outside \/ Stop \/ UNCHANGED vars
  BY <1>2, OutsideFrame, StopFrame, StillFrame DEF Outside, seeder, github
<1>3. QED
  BY <1>1, <1>2, Steps

LEMMA ListPartKept ==
  ASSUME IInv, [Next]_vars
  PROVE  ListPart'
<1> USE DEF Making, Filing, Building, Finishing
<1>1. ListPart
  BY DEF IInv
<1>2. /\ Len(Milestones) \in Nat \ {0} /\ Len(Labels) \in Nat \ {0}
      /\ DOMAIN Labels = 1..Len(Labels) /\ Len(milestones) \in 0..Len(Milestones)
  BY <1>1, MarkerFacts DEF ListPart
<1>3. /\ pc = "milestones" => item \in 1..Len(Milestones)
      /\ pc = "labels" => item \in 1..Len(Labels)
  BY ItemFacts
<1>4. CASE EnsureMilestone
  <2>1. /\ milestones' = SubSeq(Milestones, 1, Len(milestones'))
        /\ Len(milestones') \in 0..Len(Milestones)
        /\ item <= Len(milestones')
    BY <1>4, MilestonesGrow DEF EnsureMilestone, At
  <2>2. /\ pc = "milestones" /\ labels' = labels
        /\ IF item < Len(Milestones) THEN pc' = "milestones" /\ item' = item + 1
                                     ELSE pc' = "labels" /\ item' = 1
    BY <1>4 DEF EnsureMilestone, At, Advance, Goto
  <2>3. pc' = "labels" => Len(milestones') = Len(Milestones)
    BY <1>2, <1>3, <2>1, <2>2
  <2>4. pc' = "milestones" => item' <= Len(milestones') + 1
    BY <1>2, <1>3, <2>1, <2>2
  <2>5. pc' = "labels" => \A k \in 1..item' - 1 : Labels[k] \in labels'
    BY <2>2
  <2>6. QED
    BY <1>1, <2>1, <2>2, <2>3, <2>4, <2>5 DEF ListPart
<1>5. CASE UpsertLabel
  <2>1. /\ pc = "labels" /\ milestones' = milestones
        /\ labels' = labels \cup {Labels[item]}
        /\ IF item < Len(Labels) THEN pc' = "labels" /\ item' = item + 1
                                 ELSE pc' = "issues" /\ item' = 1
    BY <1>5 DEF UpsertLabel, At, Advance, Goto
  <2>2. Labels[item] \in Elements(Labels)
    BY <1>2, <1>3, <2>1 DEF Elements
  <2>3. /\ \A k \in 1..item - 1 : Labels[k] \in labels
        /\ labels \subseteq Elements(Labels)
    BY <1>1, <2>1 DEF ListPart
  <2>4. \A k \in 1..item : Labels[k] \in labels'
    BY <1>2, <1>3, <2>1, <2>3
  <2>5. pc' = "issues" => labels' = Elements(Labels)
    <3>1. SUFFICES ASSUME item = Len(Labels) PROVE Elements(Labels) \subseteq labels'
      BY <1>2, <1>3, <2>1, <2>2, <2>3
    <3>2. QED
      BY <1>2, <2>4, <3>1 DEF Elements
  <2>6. pc' = "labels" => \A k \in 1..item' - 1 : Labels[k] \in labels'
    BY <1>2, <1>3, <2>1, <2>4
  <2>7. QED
    BY <1>1, <2>1, <2>2, <2>3, <2>5, <2>6 DEF ListPart
<1>6. CASE milestones' = milestones /\ labels' = labels
  <2>1. CASE pc' = pc /\ item' = item
    BY <1>1, <1>6, <2>1 DEF ListPart
  <2>2. CASE /\ pc \in Making \ {"milestones", "labels"}
             /\ pc' \in (Making \cup {"done"}) \ {"milestones", "labels"}
    BY <1>1, <1>6, <2>2 DEF ListPart
  <2>3. CASE pc' = "milestones" /\ item' = 1
    BY <1>1, <1>2, <1>6, <2>3 DEF ListPart
  <2>4. CASE pc' \notin Making \cup {"done"}
    BY <1>1, <1>6, <2>4 DEF ListPart
  <2>5. QED
    BY <1>4, <1>5, <2>1, <2>2, <2>3, <2>4, ListStep
<1>7. QED
  BY <1>4, <1>5, <1>6, Steps, RunFrame, OutsideFrame, StopFrame, StillFrame
     DEF Outside, github

-----------------------------------------------------------------------------
(***************************************************************************)
(* Issues are put right one after the other, and stay right.               *)
(***************************************************************************)
LEMMA FilingStep ==
  ASSUME IInv, [Next]_vars, pc' \in Filing \cup Building \cup Finishing
  PROVE  LET key == Issues[item]
         IN  \/ pc \in Building \cup Finishing /\ pc' \in Building \cup Finishing
             \/ pc \in Filing /\ pc' = pc /\ item' = item /\ known' = known
             \/ pc \notin Making \ {"labels"} /\ pc' = "issues" /\ item' = 1
             \/ /\ CreateIssue /\ pc = "issues" /\ pc' = "close" /\ item' = item
             \/ /\ \/ CreateIssue /\ pc = "issues" /\ key \notin Closed
                   \/ UpdateIssue /\ pc \in Filing
                   \/ LeaveIssue /\ pc = "issues"
                /\ IF item < Len(Issues) THEN pc' = "issues" /\ item' = item + 1
                                         ELSE pc' = "base" /\ item' = 1
<1> USE DEF Making, Filing, Building, Finishing
<1>1. CASE Run
  <2>1. CASE Start \/ EnsureRepository \/ Push \/ Find \/ Topology
    BY <2>1 DEF Start, EnsureRepository, Push, Find, Topology, Advance, Goto, Conflict,
       Fail, End, At
  <2>2. CASE EnsureMilestone \/ UpsertLabel
    BY <2>2 DEF EnsureMilestone, UpsertLabel, Advance, Goto, At
  <2>3. CASE CreateIssue \/ UpdateIssue \/ LeaveIssue
    BY <2>3 DEF CreateIssue, UpdateIssue, LeaveIssue, NextIssue, Advance, Goto, At
  <2>4. CASE EnsureBase \/ EnsureHead \/ OpenPull \/ Describe
    BY <2>4 DEF EnsureBase, EnsureHead, OpenPull, Describe, Goto, At, Conflict, Fail,
       End
  <2>5. CASE PatchText \/ PatchLabels \/ MergePull
    BY <2>5 DEF PatchText, PatchLabels, MergePull, Goto, At, Conflict, Fail, End
  <2>6. CASE Validate \/ EnsureCandidate \/ Verify
    BY <2>6 DEF Validate, EnsureCandidate, Verify, Advance, Goto, At, Conflict, Fail,
       End
  <2>7. CASE Poll \/ WriteEvidence
    BY <2>7 DEF Poll, WriteEvidence, Goto, At, Fail, End, Quietly
  <2>8. QED
    BY <1>1, <2>1, <2>2, <2>3, <2>4, <2>5, <2>6, <2>7 DEF Run
<1>2. CASE Outside \/ Stop \/ UNCHANGED vars
  BY <1>2, OutsideFrame, StopFrame, StillFrame DEF Outside, seeder
<1>3. QED
  BY <1>1, <1>2, Steps

(* An issue is as it should be once the run has made it, or updated it, or *)
(* has seen that it is.                                                    *)
LEMMA SettledNow ==
  ASSUME IInv, [Next]_vars, ~touched, NEW key, key = Issues[item],
         pc \in Filing, pc' \notin Resting,
         \/ CreateIssue /\ key \notin Closed
         \/ UpdateIssue
         \/ LeaveIssue
  PROVE  Settled(key)'
<1>1. key \in Elements(Issues)
  BY ItemFacts
<1>2. ASSUME NEW n \in DOMAIN issues', issues'[n].key = key,
             issues'[n].closed = (key \in Closed),
             "wanted" \in issues'[n].labels,
             "unwanted" \notin issues'[n].labels,
             key # Operations => issues'[n].body = "defined"
      PROVE  Settled(key)'
  BY <1>2 DEF Settled
<1>3. CASE CreateIssue \/ UpdateIssue
  <2> DEFINE n == known'[key].number
  <2>1. n \in Carrying(key)'
    BY <1>3, IssueLearns
  <2>2. n \in DOMAIN issues' /\ issues'[n].key = key
    BY <1>1, <2>1, CarryingAfter
  <2>3. CASE CreateIssue /\ key \notin Closed
    <3> HIDE DEF n
    <3>0. Missing(key)
      BY <2>3 DEF CreateIssue
    <3>1. issues'[n] = Drafted(key)
      BY <2>3, <3>0, IssueLearns DEF n
    <3>2. /\ issues'[n].closed = FALSE /\ issues'[n].labels = {"wanted"}
          /\ issues'[n].body = "defined"
      BY <3>1 DEF Drafted
    <3>3. (key \in Closed) = FALSE
      BY <2>3
    <3>4. QED
      BY <1>2, <2>2, <3>2, <3>3
  <2>4. CASE UpdateIssue
    <3> HIDE DEF n
    <3>0. ~Missing(key)
      BY <2>4 DEF UpdateIssue, At, IInv, IssuePart
    <3>1. /\ known[key].number \in DOMAIN issues /\ n = known[key].number
          /\ issues'[n] = Patched(issues[n], key, known[key])
      BY <2>4, <3>0, IssueLearns DEF n
    <3>2. issues[n] \in IssueRecord /\ known[key].labels \in SUBSET LabelNames
      <4>1. known[key] \in KnownIssue
        BY <1>1, <3>0, KnownNumbers
      <4>2. issues \in Seq(IssueRecord)
        BY DEF IInv, TypePart
      <4>3. QED
        BY <3>1, <4>1, <4>2 DEF KnownIssue
    <3>3. LabelsFor(known[key].labels) \in SUBSET LabelNames
      BY <3>2 DEF LabelsFor, LabelNames
    <3>4. /\ issues'[n].closed = (key \in Closed)
          /\ issues'[n].labels = LabelsFor(known[key].labels)
          /\ issues'[n].body =
               IF BodyPreservedFor(key) THEN issues[n].body ELSE "defined"
      BY <3>1, <3>2, <3>3, PatchedFields
    <3>5. QED
      BY <1>2, <2>2, <3>4 DEF LabelsFor, BodyPreservedFor
  <2>5. QED
    BY <1>3, <2>3, <2>4 DEF LeaveIssue, CreateIssue, UpdateIssue
<1>4. CASE LeaveIssue
  <2> DEFINE n == known[key].number
  <2>1. ~Missing(key) /\ UpToDate(key, known[key]) /\ issues' = issues
    BY <1>4 DEF LeaveIssue, Quietly, github
  <2>2. n \in DOMAIN issues /\ issues[n].key = key
    BY <1>1, <2>1, KnownNumbers
  <2>3. /\ known[key].closed = issues[n].closed
        /\ known[key].labels = issues[n].labels
        /\ known[key].body = issues[n].body
    BY <1>1, <2>1 DEF IInv, KnownPart, IssuesKnown
  <2>4. QED
    BY <1>2, <2>1, <2>2, <2>3 DEF UpToDate, LabelsFor, BodyPreservedFor
<1>5. QED
  BY <1>3, <1>4

LEMMA SettledStays ==
  ASSUME IInv, [Next]_vars, ~touched', NEW key \in Elements(Issues), Settled(key),
         CreateIssue \/ UpdateIssue => key # Issues[item],
         WriteEvidence => ~Missing(Operations)
  PROVE  Settled(key)'
<1>1. PICK n \in DOMAIN issues :
        /\ issues[n].key = key
        /\ issues[n].closed = (key \in Closed)
        /\ "wanted" \in issues[n].labels /\ "unwanted" \notin issues[n].labels
        /\ key # Operations => issues[n].body = "defined"
  BY DEF Settled
<1>2. n \in DOMAIN issues' /\ issues'[n].key = key
  BY <1>1, RecordsGrow
<1>3. CASE issues'[n] = issues[n]
  BY <1>1, <1>2, <1>3 DEF Settled
<1>4. CASE CreateIssue \/ UpdateIssue
  <2>1. PICK other : other = Issues[item]
    OBVIOUS
  <2>2. /\ other \in Elements(Issues) /\ known'[other].number \in Carrying(other)'
        /\ \A m \in DOMAIN issues : m # known'[other].number =>
             issues'[m] = issues[m]
    BY <1>4, <2>1, IssueLearns
  <2>3. issues'[known'[other].number].key = other
    BY <2>2, CarryingAfter
  <2>4. n # known'[other].number
    BY <1>2, <1>4, <2>1, <2>3
  <2>5. QED
    BY <1>3, <2>2, <2>4
<1>5. CASE WriteEvidence
  <2>1. PICK m : m = known[Operations].number
    OBVIOUS
  <2>2. m \in DOMAIN issues /\ issues[m].key = Operations
    BY <1>5, <2>1, MarkerFacts, KnownNumbers
  <2>3. issues' = issues \/ issues' = [issues EXCEPT ![m].body = "evidence"]
    BY <1>5, <2>1 DEF WriteEvidence
  <2>4. CASE n = m
    <3>1. issues[n] \in IssueRecord
      BY DEF IInv, TypePart
    <3>2. issues'[n].closed = issues[n].closed /\ issues'[n].labels = issues[n].labels
      BY <2>3, <2>4, <3>1 DEF IssueRecord
    <3>3. key = Operations
      BY <1>1, <2>2, <2>4
    <3>4. QED
      BY <1>1, <1>2, <3>2, <3>3 DEF Settled
  <2>5. CASE n # m
    BY <1>3, <2>3, <2>5
  <2>6. QED
    BY <2>4, <2>5
<1>6. QED
  BY <1>3, <1>4, <1>5, Steps, RunFrame, OutsideFrame, StopFrame, StillFrame
     DEF Outside, github

LEMMA IssuePartKept ==
  ASSUME IInv, [Next]_vars
  PROVE  IssuePart'
<1> USE DEF Filing, Building, Finishing
<1>1. SUFFICES ASSUME pc' \in Filing \cup Building \cup Finishing
               PROVE  IssuePart'
  BY DEF IssuePart, Filed
<1>2. IssuePart
  BY DEF IInv
<1>3. /\ pc' \notin Resting
      /\ ~touched' => ~touched
      /\ ~hasty' => ~hasty
  BY <1>1, TouchedStep, HastyStays DEF Resting, Start, Goto
<1>4. /\ \A k \in 1..Len(Issues) : /\ Issues[k] \in Elements(Issues)
                                   /\ Issues[k] \in Elements(Markers)
      /\ DOMAIN Issues = 1..Len(Issues) /\ Len(Issues) \in Nat
      /\ \A j, k \in 1..Len(Issues) : Issues[j] = Issues[k] => j = k
  BY MarkerFacts, ManifestAssumption
<1>5. pc \in Filing => item \in 1..Len(Issues)
  BY ItemFacts
<1>6. pc' = "close" => known'[Issues[item']].number # 0
  <2>1. SUFFICES ASSUME pc' = "close" PROVE known'[Issues[item']].number # 0
    OBVIOUS
  <2>2. CASE pc = "close" /\ item' = item /\ known' = known
    BY <1>2, <2>2 DEF IssuePart, Missing
  <2>3. CASE CreateIssue /\ item' = item
    BY <2>3, IssueLearns
  <2>4. QED
    BY <1>1, <2>1, <2>2, <2>3, FilingStep
<1>7. ASSUME NEW k \in DOMAIN Issues, Filed(k)'
      PROVE  /\ known'[Issues[k]].number # 0
             /\ ~touched' /\ ~hasty' => Settled(Issues[k])'
  <2> DEFINE key == Issues[k]
  <2>1. key \in Elements(Issues) /\ key \in Elements(Markers)
    BY <1>4
  <2>2. \/ Filed(k) /\ pc \in Making
        \/ /\ k = item /\ pc \in Filing
           /\ \/ CreateIssue /\ key \notin Closed
              \/ UpdateIssue
              \/ LeaveIssue
    BY <1>1, <1>4, <1>5, <1>7, FilingStep DEF Filed, Making
  <2>3. CASE Filed(k) /\ pc \in Making
    <3>1. ~Missing(key) /\ (~touched /\ ~hasty => Settled(key))
      BY <1>2, <2>3 DEF IssuePart
    <3>2. known'[key].number # 0
      BY <1>3, <2>1, <2>3, <3>1, KnownStays DEF Missing
    <3>3. CreateIssue \/ UpdateIssue => pc \in Filing /\ k < item
      BY <2>3 DEF CreateIssue, UpdateIssue, At, Filed
    <3>4. CreateIssue \/ UpdateIssue => key # Issues[item]
      BY <1>4, <1>5, <3>3
    <3>5. ~WriteEvidence
      BY <1>3 DEF WriteEvidence, End, Goto, Resting
    <3>6. QED
      BY <1>3, <2>1, <3>1, <3>2, <3>4, <3>5, SettledStays
  <2>4. CASE /\ k = item /\ pc \in Filing
             /\ \/ CreateIssue /\ key \notin Closed
                \/ UpdateIssue
                \/ LeaveIssue
    <3>1. ~touched' => Settled(key)'
      BY <1>3, <2>4, SettledNow
    <3>2. known'[key].number # 0
      <4>1. CASE LeaveIssue
        BY <2>4, <4>1 DEF LeaveIssue, Quietly, Missing
      <4>2. CASE CreateIssue \/ UpdateIssue
        BY <2>4, <4>2, IssueLearns
      <4>3. QED
        BY <2>4, <4>1, <4>2
    <3>3. QED
      BY <3>1, <3>2
  <2>5. QED
    BY <2>2, <2>3, <2>4
<1>8. QED
  BY <1>6, <1>7 DEF IssuePart, Missing

-----------------------------------------------------------------------------
(***************************************************************************)
(* The evidence is written last, and on a pair that has ended.             *)
(***************************************************************************)
LEMMA MergedAtEnd ==
  ASSUME IInv, pc \in Finishing
  PROVE  \A p \in Pulls : /\ ~Missing(p) /\ known[p].merge # Absent
                          /\ MergeKnown(p) = known[p].merge /\ Placed(p)
                          /\ known[p].number \in Merged(pulls, p)
                          /\ Parent(p) # Absent /\ Parents(pulls, p) = {Parent(p)}
<1>1. ASSUME NEW p \in Pulls
      PROVE  /\ ~Missing(p) /\ known[p].merge # Absent
             /\ MergeKnown(p) = known[p].merge /\ Placed(p)
             /\ known[p].number \in Merged(pulls, p)
  <2>1. PICK k \in 1..3 : p = Stages[k]
    BY StageFacts
  <2>2. Staged(k)
    BY DEF IInv, StagePart
  <2>3. ~Missing(p) /\ known[p].merge # Absent
    BY <2>1, <2>2 DEF Staged, Past
  <2>4. Placed(p)
    BY PlacedWhenMaking DEF Making, Finishing
  <2>5. QED
    BY <2>3, <2>4, KnownMerged DEF MergeKnown
<1>2. ASSUME NEW p \in Pulls PROVE Parent(p) # Absent
  BY <1>1, StageFacts, Commits DEF Parent
<1>3. QED
  BY <1>1, <1>2, ParentKnown, StageFacts

LEMMA IssuesAtEnd ==
  ASSUME IInv, pc \in Finishing
  PROVE  \A key \in Elements(Issues) : /\ ~Missing(key)
                                       /\ ~touched /\ ~hasty => Settled(key)
<1>1. SUFFICES ASSUME NEW key \in Elements(Issues)
               PROVE  ~Missing(key) /\ (~touched /\ ~hasty => Settled(key))
  OBVIOUS
<1>2. PICK k \in DOMAIN Issues : key = Issues[k]
  BY DEF Elements
<1>3. Filed(k)
  BY DEF Filed
<1>4. QED
  BY <1>2, <1>3 DEF IInv, IssuePart

LEMMA PairAtEnd ==
  ASSUME EvidencePart, ~PairConflicts, PairComplete
  PROVE  ci = Expected
<1>1. /\ DOMAIN ci = {"blocking", "synthetic"} /\ DOMAIN Expected = DOMAIN ci
      /\ ci = [name \in DOMAIN ci |-> ci[name]]
      /\ Expected = [name \in DOMAIN ci |-> Expected[name]]
  BY DEF EvidencePart, Expected
<1>2. \A name \in DOMAIN ci : ci[name] = Expected[name]
  BY DEF PairConflicts, PairComplete
<1>3. QED
  BY <1>1, <1>2

LEMMA EvidenceBodies ==
  ASSUME IInv, [Next]_vars, NEW n \in DOMAIN issues', issues'[n].body = "evidence"
  PROVE  /\ issues'[n].key = Operations
         /\ \/ n \in DOMAIN issues /\ issues[n].body = "evidence"
            \/ WriteEvidence /\ pc = "evidence"
<1>1. /\ \A m \in DOMAIN issues : /\ issues[m].body = "evidence" =>
                                       issues[m].key = Operations
                                  /\ m \in DOMAIN issues'
                                  /\ issues'[m].key = issues[m].key
      /\ issues \in Seq(IssueRecord)
  BY RecordsGrow DEF IInv, EvidencePart, TypePart
<1>2. CASE issues' = issues
  BY <1>1, <1>2
<1>3. CASE CreateIssue \/ UpdateIssue
  <2>1. PICK key : key = Issues[item]
    OBVIOUS
  <2>2. PICK m : m = known'[key].number
    OBVIOUS
  <2>3. /\ \A i \in DOMAIN issues : i # m => issues'[i] = issues[i]
        /\ \/ m = Len(issues) + 1 /\ issues'[m] = Drafted(key)
           \/ /\ m = known[key].number /\ m \in DOMAIN issues
              /\ ~Missing(key) /\ key \in Elements(Issues)
              /\ issues'[m] = Patched(issues[m], key, known[key])
    BY <1>3, <2>1, <2>2, IssueLearns
  <2>4. CASE n \in DOMAIN issues /\ n # m
    BY <1>1, <2>3, <2>4
  <2>5. CASE n = m /\ issues'[m] = Drafted(key)
    BY <2>5 DEF Drafted
  <2>6. CASE /\ n = m /\ m = known[key].number /\ m \in DOMAIN issues
             /\ ~Missing(key) /\ key \in Elements(Issues)
             /\ issues'[m] = Patched(issues[m], key, known[key])
    <3>1. issues[m] \in IssueRecord
      BY <1>1, <2>6
    <3>2. known[key] \in KnownIssue
      BY <2>6, KnownNumbers
    <3>3. LabelsFor(known[key].labels) \in SUBSET LabelNames
      BY <3>2 DEF KnownIssue, LabelsFor, LabelNames
    <3>4. issues'[m].body = IF BodyPreservedFor(key) THEN issues[m].body
                                                     ELSE "defined"
      BY <2>6, <3>1, <3>3, PatchedFields
    <3>5. issues[m].body = "evidence"
      BY <2>6, <3>4
    <3>6. QED
      BY <1>1, <2>6, <3>5
  <2>7. n \in DOMAIN issues \/ n = m
    <3>1. /\ DOMAIN issues = 1..Len(issues) /\ Len(issues) \in Nat
          /\ DOMAIN issues' = 1..Len(issues')
      BY <1>1, IssuesTyped, LenProperties
    <3>2. CASE issues'[m] = Drafted(key) /\ m = Len(issues) + 1
      <4>1. Len(issues') \in {Len(issues), Len(issues) + 1}
        BY IssuesTyped
      <4>2. n \in 1..Len(issues')
        BY <3>1
      <4>3. n \in 1..Len(issues) \/ n = Len(issues) + 1
        <5>1. PICK last \in Nat : last = Len(issues)
          BY <3>1
        <5>2. n \in 1..last + 1
          BY <4>1, <4>2, <5>1
        <5>3. n \in 1..last \/ n = last + 1
          BY <5>2
        <5>4. QED
          BY <5>1, <5>3
      <4>4. QED
        BY <3>1, <3>2, <4>3
    <3>3. CASE m \in DOMAIN issues
      <4>1. UpdateIssue
        BY <1>3, <2>1, <2>2, <3>1, <3>3, IssueLearns
      <4>2. DOMAIN issues' = DOMAIN issues
        BY <4>1 DEF UpdateIssue
      <4>3. QED
        BY <4>2
    <3>4. QED
      BY <2>3, <3>2, <3>3
  <2>8. QED
    BY <2>3, <2>4, <2>5, <2>6, <2>7
<1>4. CASE WriteEvidence
  <2>1. pc \in Finishing /\ pc = "evidence"
    BY <1>4 DEF WriteEvidence, At, Finishing
  <2>2. PICK m : m = known[Operations].number
    OBVIOUS
  <2>3. m \in DOMAIN issues /\ issues[m].key = Operations
    BY <2>1, <2>2, IssuesAtEnd, KnownNumbers, MarkerFacts
  <2>4. issues' = issues \/ issues' = [issues EXCEPT ![m].body = "evidence"]
    BY <1>4, <2>2 DEF WriteEvidence
  <2>5. n \in DOMAIN issues /\ (n # m => issues'[n] = issues[n])
    BY <2>4
  <2>6. QED
    BY <1>1, <1>4, <2>1, <2>3, <2>5
<1>5. CASE \E m \in DOMAIN issues : EditIssue(m)
  <2>1. PICK m \in DOMAIN issues : EditIssue(m)
    BY <1>5
  <2>2. n \in DOMAIN issues /\ issues[n] \in IssueRecord /\ issues[m] \in IssueRecord
    BY <1>1, <2>1 DEF EditIssue
  <2>3. CASE n = m
    BY <1>1, <2>1, <2>2, <2>3 DEF EditIssue, IssueRecord
  <2>4. CASE n # m
    BY <1>1, <2>1, <2>2, <2>4 DEF EditIssue
  <2>5. QED
    BY <2>3, <2>4
<1>6. QED
  BY <1>2, <1>3, <1>4, <1>5, Steps, RunFrame, OutsideFrame, StopFrame, StillFrame
     DEF Outside, github

LEMMA EvidencePartKept ==
  ASSUME IInv, [Next]_vars
  PROVE  EvidencePart'
<1>1. EvidencePart
  BY DEF IInv
<1>2. DOMAIN ci' = {"blocking", "synthetic"} /\ ci' = [name \in DOMAIN ci' |-> ci'[name]]
  <2>1. CASE CheckSome
    BY <1>1, <2>1 DEF CheckSome, Check, EvidencePart
  <2>2. CASE ci' = ci
    BY <1>1, <2>2 DEF EvidencePart
  <2>3. QED
    BY <2>1, <2>2, Steps, RunFrame, OutsideFrame, StopFrame, StillFrame
       DEF Outside, github
<1>3. ci = Expected => ci' = ci
  <2>1. ci = Expected => ~CheckSome
    <3>1. ASSUME ci = Expected, NEW name \in DOMAIN ci PROVE ci[name] # "pending"
      BY <3>1, <1>1 DEF Expected, EvidencePart
    <3>2. QED
      BY <3>1 DEF CheckSome, Check, Pending
  <2>2. QED
    BY <2>1, Steps, RunFrame, OutsideFrame, StopFrame, StillFrame DEF Outside, github
<1>4. pc' = "evidence" => ci' = Expected
  <2>1. SUFFICES ASSUME pc' = "evidence" PROVE ci' = Expected
    OBVIOUS
  <2>2. CASE pc = "evidence"
    BY <1>1, <1>3, <2>2 DEF EvidencePart
  <2>3. CASE Poll /\ pc = "poll"
    <3>1. ~PairConflicts /\ PairComplete
      BY <2>1, <2>3 DEF Poll, Fail, End, Goto
    <3>2. QED
      BY <1>1, <1>3, <3>1, PairAtEnd
  <2>4. QED
    BY <2>1, <2>2, <2>3, StageStep DEF Finishing, Filing, Building
<1>5. \A n \in DOMAIN issues' : issues'[n].body = "evidence" => issues'[n].key = Operations
  BY EvidenceBodies
<1>6. EvidenceIsEarned'
  <2>1. SUFFICES ASSUME NEW n \in DOMAIN issues', issues'[n].body = "evidence"
                 PROVE  /\ ci' = Expected
                        /\ \E m \in DOMAIN pulls' : /\ pulls'[m].stage = "current_main"
                                                    /\ pulls'[m].merge # Absent
    BY DEF EvidenceIsEarned, Expected
  <2>2. ci = Expected /\ \E m \in DOMAIN pulls : /\ pulls[m].stage = "current_main"
                                                 /\ pulls[m].merge # Absent
    <3>1. CASE n \in DOMAIN issues /\ issues[n].body = "evidence"
      BY <1>1, <3>1 DEF EvidencePart, EvidenceIsEarned
    <3>2. CASE pc = "evidence"
      <4>1. known["current_main"].number \in Merged(pulls, "current_main")
        BY <3>2, MergedAtEnd, StageFacts DEF Finishing
      <4>2. QED
        BY <1>1, <3>2, <4>1 DEF EvidencePart, Merged
    <3>3. QED
      BY <2>1, <3>1, <3>2, EvidenceBodies
  <2>3. PICK m \in DOMAIN pulls : /\ pulls[m].stage = "current_main"
                                  /\ pulls[m].merge # Absent
    BY <2>2
  <2>4. /\ m \in DOMAIN pulls' /\ pulls'[m].stage = "current_main"
        /\ pulls'[m].merge # Absent
    BY <2>3, RecordsGrow
  <2>5. QED
    BY <1>3, <2>2, <2>4
<1>7. QED
  BY <1>2, <1>4, <1>5, <1>6 DEF EvidencePart, Expected

-----------------------------------------------------------------------------
(***************************************************************************)
(* What a run that gets to its end has made.                               *)
(***************************************************************************)
LEMMA EndStep ==
  ASSUME [Next]_vars, pc' = "done"
  PROVE  \/ WriteEvidence /\ pc = "evidence"
         \/ pc = "done" /\ (Outside \/ UNCHANGED vars)
<1>1. CASE Run
  <2>1. CASE Start \/ EnsureRepository \/ Push \/ Find \/ Topology
    BY <2>1 DEF Start, EnsureRepository, Push, Find, Topology, Advance, Goto, Conflict,
       Fail, End, At
  <2>2. CASE EnsureMilestone \/ UpsertLabel \/ CreateIssue \/ UpdateIssue \/ LeaveIssue
    BY <2>2 DEF EnsureMilestone, UpsertLabel, CreateIssue, UpdateIssue, LeaveIssue,
       NextIssue, Advance, Goto, At
  <2>3. CASE EnsureBase \/ EnsureHead \/ OpenPull \/ Describe
    BY <2>3 DEF EnsureBase, EnsureHead, OpenPull, Describe, Goto, At, Conflict, Fail,
       End
  <2>4. CASE PatchText \/ PatchLabels \/ MergePull
    BY <2>4 DEF PatchText, PatchLabels, MergePull, Goto, At, Conflict, Fail, End
  <2>5. CASE Validate \/ EnsureCandidate \/ Verify
    BY <2>5 DEF Validate, EnsureCandidate, Verify, Advance, Goto, At, Conflict, Fail,
       End
  <2>6. CASE Poll \/ WriteEvidence
    BY <2>6 DEF Poll, WriteEvidence, Goto, At, Fail, End, Quietly
  <2>7. QED
    BY <1>1, <2>1, <2>2, <2>3, <2>4, <2>5, <2>6 DEF Run
<1>2. CASE Outside \/ Stop \/ UNCHANGED vars
  BY <1>2, OutsideFrame, StopFrame, StillFrame DEF Outside, seeder
<1>3. QED
  BY <1>1, <1>2, Steps

LEMMA SoleMember ==
  ASSUME NEW x, Sole(x), NEW n \in Carrying(x)
  PROVE  Carrying(x) = {n}
BY DEF Sole

LEMMA IssueDoneAtEnd ==
  ASSUME IInv, WriteEvidence, ~touched, ~hasty, NEW key \in Elements(Issues)
  PROVE  IssueDone(key)'
<1>1. pc = "evidence" /\ pc \in Finishing
  BY DEF WriteEvidence, At, Finishing
<1>2. PICK n \in DOMAIN issues :
        /\ issues[n].key = key
        /\ issues[n].closed = (key \in Closed)
        /\ "wanted" \in issues[n].labels /\ "unwanted" \notin issues[n].labels
        /\ key # Operations => issues[n].body = "defined"
  BY <1>1, IssuesAtEnd DEF Settled
<1>3. PICK m : m = known[Operations].number
  OBVIOUS
<1>4. /\ m \in DOMAIN issues /\ issues[m].key = Operations
      /\ known[Operations].body = issues[m].body
      /\ Operations \in Elements(Issues)
  BY <1>1, <1>3, IssuesAtEnd, KnownNumbers, MarkerFacts
     DEF IInv, KnownPart, IssuesKnown
<1>5. /\ issues[m].body = "evidence" => issues' = issues
      /\ issues[m].body # "evidence" =>
           issues' = [issues EXCEPT ![m].body = "evidence"]
  BY <1>3, <1>4 DEF WriteEvidence
<1>6. issues[n] \in IssueRecord /\ issues[m] \in IssueRecord
  BY <1>2, <1>4 DEF IInv, TypePart
<1>7. /\ DOMAIN issues' = DOMAIN issues
      /\ \A i \in DOMAIN issues : i # m => issues'[i] = issues[i]
      /\ issues'[m].key = issues[m].key /\ issues'[m].closed = issues[m].closed
      /\ issues'[m].labels = issues[m].labels /\ issues'[m].body = "evidence"
  BY <1>4, <1>5, <1>6 DEF IssueRecord
<1>8. /\ n \in DOMAIN issues' /\ issues'[n].key = key
      /\ issues'[n].closed = issues[n].closed /\ issues'[n].labels = issues[n].labels
  BY <1>2, <1>7
<1>9. Carrying(key)' = {n}
  <2>1. Sole(key) /\ n \in Carrying(key) /\ m \in Carrying(Operations)
        /\ Sole(Operations)
    BY <1>2, <1>4, CarryingFacts, MarkerFacts DEF IInv, SolePart
  <2>2. Carrying(key) = {n}
    BY <2>1, SoleMember
  <2>3. \A i \in DOMAIN issues : issues'[i].key = issues[i].key
    BY <1>7
  <2>4. Carrying(key)' = Carrying(key)
    <3>1. Carrying(key) = {i \in DOMAIN issues : issues[i].key = key}
      BY CarryingFacts
    <3>2. Carrying(key)' = {i \in DOMAIN issues' : issues'[i].key = key}
      BY CarryingAfter
    <3>3. QED
      BY <1>7, <2>3, <3>1, <3>2
  <2>5. QED
    BY <2>2, <2>4
<1>10. issues'[n].body = IF key = Operations THEN "evidence" ELSE "defined"
  <2>1. CASE key = Operations
    <3>1. Sole(Operations) /\ n \in Carrying(Operations) /\ m \in Carrying(Operations)
      BY <1>2, <1>4, <2>1, CarryingFacts, MarkerFacts DEF IInv, SolePart
    <3>2. n = m
      BY <3>1 DEF Sole
    <3>3. QED
      BY <1>7, <2>1, <3>2
  <2>2. CASE key # Operations
    BY <1>2, <1>4, <1>7, <2>2
  <2>3. QED
    BY <2>1, <2>2
<1>11. QED
  BY <1>2, <1>8, <1>9, <1>10 DEF IssueDone

LEMMA PullDoneAtEnd ==
  ASSUME IInv, pc = "evidence", ~touched, ~hasty, NEW p \in Pulls
  PROVE  /\ PullDone(p, known[p].number, Parent(p))
         /\ known[p].number \in DOMAIN pulls
         /\ MergeKnown(p) = pulls[known[p].number].merge
<1> DEFINE n == known[p].number
<1>1. /\ pc \in Finishing /\ p \in Elements(Markers)
      /\ FinalRefs
  BY MarkerFacts DEF Finishing, IInv, FinalPart
<1>2. /\ ~Missing(p) /\ known[p].merge # Absent /\ MergeKnown(p) = known[p].merge
      /\ Parents(pulls, p) = {Parent(p)} /\ n \in Merged(pulls, p)
  BY <1>1, MergedAtEnd
<1>9. pulls[n].base = Base(p)
  BY <1>2 DEF Merged
<1>3. /\ n \in DOMAIN pulls /\ pulls[n].stage = p /\ n \in Carrying(p)
      /\ known[p].head = pulls[n].head /\ known[p].merge = pulls[n].merge
  BY <1>2, KnownMerged, KnownNumbers
<1>4. /\ pulls[n].head = Feature(p, Parent(p))
      /\ pulls[n].merge = MergeOf(n, Parent(p), pulls[n].head)
  BY <1>2, <1>3, PullsMade
<1>5. Carrying(p) = {n}
  BY <1>1, <1>3, SoleMember DEF IInv, SolePart
<1>6. refs[p] = pulls[n].head
  BY <1>1, <1>3 DEF FinalRefs
<1>7. pulls[n].text /\ pulls[n].labelled
  <2>1. PICK k \in 1..3 : p = Stages[k]
    BY StageFacts
  <2>2. Described(k)
    BY DEF IInv, StagePart
  <2>3. QED
    BY <1>1, <2>1, <2>2 DEF Described, Past
<1>8. QED
  BY <1>2, <1>3, <1>4, <1>5, <1>6, <1>7, <1>9 DEF PullDone

LEMMA SuccessIsCompleteKept ==
  ASSUME IInv, [Next]_vars
  PROVE  SuccessIsComplete'
<1>1. SUFFICES ASSUME pc' = "done", ~touched', ~hasty'
               PROVE  Complete'
  BY DEF SuccessIsComplete
<1>2. ~touched /\ ~hasty
  BY <1>1, TouchedStep, HastyStays DEF Start, Goto
<1>3. CASE WriteEvidence /\ pc = "evidence"
  <2> USE DEF Making, Filing, Building, Finishing
  <2>1. repo' = "pushed" /\ UNCHANGED <<refs, milestones, labels, pulls>>
    BY <1>3, PushedWhenMaking DEF WriteEvidence
  <2>2. labels' = Elements(Labels) /\ milestones' = Milestones
    <3>1. /\ labels = Elements(Labels) /\ Len(milestones) = Len(Milestones)
          /\ milestones = SubSeq(Milestones, 1, Len(milestones))
      BY <1>3 DEF IInv, ListPart
    <3>2. milestones = Milestones
      BY <3>1, FirstMilestones, SubSeqFull
    <3>3. QED
      BY <2>1, <3>1, <3>2
  <2>3. \A key \in Elements(Issues) : IssueDone(key)'
    BY <1>2, <1>3, IssueDoneAtEnd
  <2>4. PICK i : i = known["previous_release"].number
    OBVIOUS
  <2>5. PICK j : j = known["previous_main"].number
    OBVIOUS
  <2>6. PICK k : k = known["current_main"].number
    OBVIOUS
  <2>7. /\ "previous_release" \in Pulls /\ "previous_main" \in Pulls
        /\ "current_main" \in Pulls
    BY StageFacts
  <2>8. /\ PullDone("previous_release", i, Parent("previous_release"))
        /\ i \in DOMAIN pulls /\ MergeKnown("previous_release") = pulls[i].merge
    BY <1>2, <1>3, <2>4, <2>7, PullDoneAtEnd
  <2>9. /\ PullDone("previous_main", j, Parent("previous_main"))
        /\ j \in DOMAIN pulls /\ MergeKnown("previous_main") = pulls[j].merge
    BY <1>2, <1>3, <2>5, <2>7, PullDoneAtEnd
  <2>10. /\ PullDone("current_main", k, Parent("current_main"))
         /\ k \in DOMAIN pulls /\ MergeKnown("current_main") = pulls[k].merge
    BY <1>2, <1>3, <2>6, <2>7, PullDoneAtEnd
  <2>11. /\ Parent("previous_release") = Bootstrap
         /\ Parent("previous_main") = Bootstrap
         /\ Parent("current_main") = MergeKnown("previous_main")
    BY DEF Parent
  <2>12. /\ PullDone("previous_release", i, Bootstrap)
         /\ PullDone("previous_main", j, Bootstrap)
         /\ PullDone("current_main", k, pulls[j].merge)
    BY <2>8, <2>9, <2>10, <2>11
  <2>13. /\ refs["previous"] = pulls[i].merge
         /\ refs["main"] = pulls[k].merge
         /\ refs["candidate"] = pulls[k].merge
    BY <1>2, <1>3, <2>8, <2>10 DEF IInv, FinalPart, FinalRefs
  <2>14. /\ Carrying("previous_release")' = Carrying("previous_release")
         /\ Carrying("previous_main")' = Carrying("previous_main")
         /\ Carrying("current_main")' = Carrying("current_main")
    BY <2>1, <2>7 DEF Carrying
  <2>15. QED
    BY <2>1, <2>2, <2>3, <2>8, <2>9, <2>10, <2>12, <2>13, <2>14
       DEF Complete, PullDone
<1>4. CASE pc = "done" /\ (Outside \/ UNCHANGED vars)
  <2>1. Complete
    BY <1>2, <1>4 DEF IInv, SuccessIsComplete
  <2>2. UNCHANGED <<repo, refs, milestones, labels, issues, pulls>>
    BY <1>1, <1>4, OutsideFrame, StillFrame DEF Outside, github
  <2>3. QED
    BY <2>1, <2>2 DEF Complete, IssueDone, PullDone, Carrying
<1>5. QED
  BY <1>1, <1>3, <1>4, EndStep

-----------------------------------------------------------------------------
(***************************************************************************)
(* No run is refused for what is there.                                    *)
(***************************************************************************)
Refusal ==
  LET p == Stages[item]
  IN  \/ pc = "find" /\ Cardinality(Hits(Markers[item])) > 1
      \/ pc = "topology" /\ ~ExistingTopology
      \/ pc = "base" /\ refs[Base(p)] = Absent /\ Base(p) # "previous"
      \/ /\ pc = "head"
         /\ refs[p] \notin {Absent, IF Missing(p) THEN Feature(p, Parent(p))
                                                  ELSE known[p].head}
      \/ pc = "open" /\ Refused(p)
      \/ pc = "describe" /\ known[p].base # Base(p)
      \/ /\ pc = "merge" /\ known[p].merge = Absent
         /\ BaseMoved(p) \/ ~pulls[known[p].number].open
      \/ pc = "validate" /\ ~PullTopology(p, known[p], Parent(p))
      \/ pc = "verify" /\ ~FinalRefs

LEMMA ConflictStep ==
  ASSUME [Next]_vars, pc' = "conflict"
  PROVE  \/ pc = "conflict" /\ (Outside \/ UNCHANGED vars)
         \/ Refusal /\ UNCHANGED <<repo, pulls, touched>> /\ (hasty => hasty')
<1>1. CASE Run
  <2>1. CASE Start \/ EnsureRepository \/ Push
    BY <2>1 DEF Start, EnsureRepository, Push, Goto, At
  <2>2. CASE EnsureMilestone \/ UpsertLabel \/ CreateIssue \/ UpdateIssue \/ LeaveIssue
    BY <2>2 DEF EnsureMilestone, UpsertLabel, CreateIssue, UpdateIssue, LeaveIssue,
       NextIssue, Advance, Goto, At
  <2>3. CASE Find
    BY <2>3 DEF Find, Conflict, Fail, github, Advance, Goto, Refusal
  <2>4. CASE Topology \/ EnsureBase
    BY <2>4 DEF Topology, EnsureBase, Conflict, Fail, github, Goto, At, others, Refusal
  <2>5. CASE EnsureHead \/ OpenPull
    BY <2>5 DEF EnsureHead, OpenPull, Conflict, Fail, github, Goto, At, others, Refusal
  <2>6. CASE Describe \/ PatchText \/ PatchLabels
    BY <2>6 DEF Describe, PatchText, PatchLabels, Conflict, Fail, github, Goto, At,
       others, Refusal
  <2>7. CASE MergePull \/ Validate
    BY <2>7 DEF MergePull, Validate, Conflict, Fail, github, Advance, Goto, At, others,
       Refusal
  <2>8. CASE EnsureCandidate \/ Verify
    BY <2>8 DEF EnsureCandidate, Verify, Conflict, Fail, github, Goto, At, others,
       Refusal
  <2>9. CASE Poll \/ WriteEvidence
    BY <2>9 DEF Poll, WriteEvidence, Goto, At, Fail, End, Quietly
  <2>10. QED
    BY <1>1, <2>1, <2>2, <2>3, <2>4, <2>5, <2>6, <2>7, <2>8, <2>9 DEF Run
<1>2. CASE Outside \/ Stop \/ UNCHANGED vars
  BY <1>2, OutsideFrame, StopFrame, StillFrame DEF Outside, seeder
<1>3. QED
  BY <1>1, <1>2, Steps

(* The stage at hand.                                                      *)
LEMMA AtStage ==
  ASSUME IInv, pc \in Building, NEW p, p = Stages[item]
  PROVE  /\ p \in Pulls /\ p \in Branches /\ Base(p) \in Branches
         /\ p \in Elements(Markers) /\ repo = "pushed" /\ refs["main"] # Absent
         /\ Parent(p) # Absent /\ Parents(pulls, p) = {Parent(p)}
         /\ Parent(p) = IF p = "current_main" THEN MergeKnown("previous_main")
                                              ELSE Bootstrap
BY ParentAtStage, StageFacts, MarkerFacts, PushedWhenMaking DEF Making, Parent

(* Where no pull request is displaced, a run knows of none.                *)
LEMMA NoneDisplaced ==
  ASSUME IInv, ~Displaced
  PROVE  /\ \A n \in DOMAIN pulls : /\ pulls[n].base = Base(pulls[n].stage)
                                     /\ pulls[n].open = (pulls[n].merge = Absent)
         /\ \A b : Astray(pulls, b) = {}
         /\ \A p \in Pulls : Placed(p)
         /\ \A p \in Pulls : ~touched /\ ~Missing(p) =>
              known[p].base = Base(p) /\ known[p].open = (known[p].merge = Absent)
<1>1. \A n \in DOMAIN pulls : /\ pulls[n].base = Base(pulls[n].stage)
                              /\ pulls[n].open = (pulls[n].merge = Absent)
  BY DEF Displaced, IInv, TypePart, IsPull
<1>2. \A b : Astray(pulls, b) = {}
  BY <1>1 DEF Astray
<1>3. ASSUME NEW p \in Pulls PROVE Placed(p)
  <2>1. SUFFICES ASSUME ~Missing(p), known[p].merge # Absent
                 PROVE  known[p].base = Base(p)
    BY DEF Placed
  <2>2. /\ known[p].number \in DOMAIN pulls /\ pulls[known[p].number].stage = p
        /\ known[p].base = pulls[known[p].number].base
    BY <2>1, KnownMerged, KnownNumbers DEF MergeKnown
  <2>3. QED
    BY <1>1, <2>2
<1>4. ASSUME NEW p \in Pulls, ~touched, ~Missing(p)
      PROVE  known[p].base = Base(p) /\ known[p].open = (known[p].merge = Absent)
  <2>1. /\ known[p].number \in DOMAIN pulls /\ pulls[known[p].number].stage = p
        /\ known[p].base = pulls[known[p].number].base
        /\ known[p].open = pulls[known[p].number].open
        /\ known[p].merge = pulls[known[p].number].merge
    BY <1>4, KnownNumbers DEF IInv, KnownPart, PullsKnown
  <2>2. QED
    BY <1>1, <2>1
<1>5. QED
  BY <1>1, <1>2, <1>3, <1>4

(* Until a stage is merged its base stands where the stage starts.         *)
LEMMA BaseStands ==
  ASSUME IInv, pc \in Building, ~touched, ~hasty, ~Displaced, NEW p, p = Stages[item],
         Merged(pulls, p) = {}, refs[Base(p)] # Absent
  PROVE  refs[Base(p)] = Parent(p)
<1>1. /\ p \in Pulls /\ repo = "pushed" /\ Parents(pulls, p) = {Parent(p)}
      /\ Parent(p) = IF p = "current_main" THEN MergeKnown("previous_main")
                                           ELSE Bootstrap
      /\ item \in 1..3
  BY AtStage, ItemFacts
<1>a. Astray(pulls, "main") = {} /\ Astray(pulls, "previous") = {}
  BY NoneDisplaced
<1>2. CASE p = "previous_release"
  <2>1. Base(p) = "previous" /\ Parent(p) = Bootstrap
    BY <1>1, <1>2, StageFacts
  <2>2. QED
    BY <1>2, <1>a, <2>1 DEF IInv, BranchPart, PreviousBranch
<1>3. CASE p = "previous_main"
  <2>1. Base(p) = "main" /\ Parent(p) = Bootstrap
    BY <1>1, <1>3, StageFacts
  <2>2. Merged(pulls, "current_main") = {}
    <3>1. SUFFICES ASSUME NEW n \in Merged(pulls, "current_main") PROVE FALSE
      OBVIOUS
    <3>2. \E c \in Parents(pulls, "current_main") : TRUE
      BY <3>1, MergedMade, StageFacts
    <3>3. QED
      BY <1>3, <3>2 DEF Parents
  <2>3. QED
    BY <1>1, <1>3, <1>a, <2>1, <2>2 DEF IInv, BranchPart, MainBranch
<1>4. CASE p = "current_main"
  <2>1. Base(p) = "main" /\ Parent(p) = MergeKnown("previous_main")
    BY <1>1, <1>4, StageFacts
  <2>2. \A m \in Merged(pulls, "previous_main") : pulls[m].merge = Parent(p)
    BY <1>1, <1>4 DEF Parents
  <2>3. Merged(pulls, "previous_main") # {}
    BY <1>1, <1>4 DEF Parents
  <2>4. QED
    BY <1>1, <1>4, <1>a, <2>1, <2>2, <2>3 DEF IInv, BranchPart, MainBranch
<1>5. QED
  BY <1>1, <1>2, <1>3, <1>4, StageFacts

(* Nothing unmerged is missed, so a record known not to be there is not.   *)
LEMMA NoneCarried ==
  ASSUME IInv, pc \in Making \cup {"topology"}, ~hasty,
         NEW x \in Elements(Markers), Missing(x)
  PROVE  Carrying(x) = {}
BY DEF IInv, KnownPart, Seen, Looked

LEMMA UnmergedIsNew ==
  ASSUME IInv, pc \in Making \cup {"topology"}, ~hasty, NEW p \in Pulls,
         MergeKnown(p) = Absent
  PROVE  Merged(pulls, p) = {}
<1>1. p \in Elements(Markers)
  BY MarkerFacts
<1>2. CASE Missing(p)
  BY <1>1, <1>2, NoneCarried, CarryingFacts DEF Merged
<1>3. CASE ~Missing(p)
  <2>1. /\ known[p].number \in Carrying(p)
        /\ pulls[known[p].number].merge = Absent
    BY <1>3, KnownMerged
  <2>2. Carrying(p) = {known[p].number}
    BY <1>1, <2>1, SoleMember DEF IInv, SolePart
  <2>3. QED
    BY <2>1, <2>2, CarryingFacts DEF Merged
<1>4. QED
  BY <1>2, <1>3

(* The one merge of a stage is the one known.                              *)
LEMMA MergedIsKnown ==
  ASSUME IInv, pc \in Making \cup {"topology"}, ~hasty, NEW p \in Pulls,
         NEW n \in Merged(pulls, p)
  PROVE  ~Missing(p) /\ MergeKnown(p) = pulls[n].merge /\ MergeKnown(p) # Absent
<1>1. MergeKnown(p) # Absent
  BY UnmergedIsNew
<1>2. /\ ~Missing(p) /\ known[p].number \in Carrying(p)
      /\ MergeKnown(p) = pulls[known[p].number].merge
  BY <1>1, KnownMerged
<1>3. n \in Carrying(p) /\ p \in Elements(Markers)
  BY MergedMade, MarkerFacts
<1>4. Carrying(p) = {known[p].number}
  BY <1>2, <1>3, SoleMember DEF IInv, SolePart
<1>5. QED
  BY <1>1, <1>2, <1>3, <1>4

LEMMA NotRefusedFinding ==
  ASSUME IInv, ~hasty, pc = "find", NEW x, x = Markers[item]
  PROVE  ~(Cardinality(Hits(x)) > 1)
<1>1. Sole(x)
  BY ItemFacts DEF IInv, SolePart
<1>2. Hits(x) \subseteq Carrying(x)
  BY DEF Hits
<1>3. CASE Hits(x) = {}
  BY <1>3, FS_EmptySet
<1>4. CASE Hits(x) # {}
  <2>1. PICK n : n \in Hits(x)
    BY <1>4
  <2>2. Hits(x) = {n}
    BY <1>1, <1>2, <2>1 DEF Sole
  <2>3. Cardinality({n}) = 1
    BY FS_Singleton
  <2>4. QED
    BY <2>2, <2>3
<1>5. QED
  BY <1>3, <1>4

LEMMA PullStands ==
  ASSUME IInv, ~touched, ~Displaced, NEW p \in Pulls, Parent(p) # Absent, ~Missing(p)
  PROVE  PullTopology(p, known[p], Parent(p))
<1>1. Parents(pulls, p) = {Parent(p)}
  BY NoneDisplaced, ParentKnown, StageFacts
<1>2. /\ known[p].number \in DOMAIN pulls /\ pulls[known[p].number].stage = p
      /\ known[p].head = pulls[known[p].number].head
      /\ known[p].merge = pulls[known[p].number].merge
  BY KnownMerged, KnownNumbers
<1>3. /\ known[p].head = Feature(p, Parent(p))
      /\ known[p].merge \in {Absent, MergeOf(known[p].number, Parent(p), known[p].head)}
  <2>1. known[p].merge # Absent => known[p].number \in Merged(pulls, p)
    BY <1>2, NoneDisplaced DEF Merged
  <2>2. QED
    BY <1>1, <1>2, <2>1, PullsMade
<1>4. refs[p] # Absent => refs[p] = Feature(p, Parent(p))
  BY <1>1 DEF IInv, BranchPart, StageBranches
<1>5. known[p].base = Base(p) /\ known[p].open = (known[p].merge = Absent)
  BY NoneDisplaced
<1>6. QED
  BY <1>3, <1>4, <1>5 DEF PullTopology

LEMMA NotRefusedLooking ==
  ASSUME IInv, ~touched, ~hasty, ~Displaced, pc = "topology", repo = "pushed"
  PROVE  ExistingTopology
<1>1. /\ "previous_release" \in Pulls /\ "previous_main" \in Pulls
      /\ "current_main" \in Pulls
  BY StageFacts
<1>2. \A p \in Pulls : \A n \in Merged(pulls, p) :
        MergeKnown(p) = pulls[n].merge /\ MergeKnown(p) # Absent
  BY MergedIsKnown
<1>3. \A p \in Pulls : Merged(pulls, p) = {} => MergeKnown(p) = Absent
  BY KnownMerged, NoneDisplaced
<1>a. Astray(pulls, "main") = {} /\ Astray(pulls, "previous") = {}
  BY NoneDisplaced
<1>4. ASSUME NEW p \in Pulls, ~Missing(p)
      PROVE  Parent(p) # Absent /\ PullTopology(p, known[p], Parent(p))
  <2>1. Parent(p) # Absent
    <3>1. CASE p = "current_main"
      <4>1. known[p].number \in DOMAIN pulls /\ pulls[known[p].number].stage = p
        BY <1>4, KnownNumbers
      <4>2. \E c \in Parents(pulls, p) : TRUE
        BY <4>1, PullsMade
      <4>3. \E n \in Merged(pulls, "previous_main") : TRUE
        BY <3>1, <4>2 DEF Parents
      <4>4. MergeKnown("previous_main") # Absent
        BY <1>1, <1>2, <4>3
      <4>5. QED
        BY <3>1, <4>4 DEF Parent
    <3>2. CASE p # "current_main"
      BY <3>2, Commits DEF Parent
    <3>3. QED
      BY <3>1, <3>2
  <2>2. QED
    BY <1>4, <2>1, PullStands
<1>5. refs["previous"] \in {Absent, Else(MergeKnown("previous_release"), Bootstrap)}
  BY <1>1, <1>2, <1>3, <1>a DEF IInv, BranchPart, PreviousBranch, Else
<1>6. refs["main"] = Else(MergeKnown("current_main"),
                          Else(MergeKnown("previous_main"), Bootstrap))
  BY <1>1, <1>2, <1>3, <1>a DEF IInv, BranchPart, MainBranch, Else
<1>7. refs["candidate"] # Absent =>
        /\ MergeKnown("current_main") # Absent
        /\ refs["candidate"] = MergeKnown("current_main")
  BY <1>1, <1>2 DEF IInv, BranchPart, CandidateBranch
<1>8. QED
  BY <1>4, <1>5, <1>6, <1>7 DEF ExistingTopology

LEMMA NotRefusedBuilding ==
  ASSUME IInv, ~touched, ~hasty, ~Displaced, pc \in Building
  PROVE  ~Refusal
<1> DEFINE p == Stages[item]
<1> USE DEF Building, Finishing
<1>1. /\ p \in Pulls /\ p \in Branches /\ p \in Elements(Markers)
      /\ repo = "pushed" /\ refs["main"] # Absent
      /\ Parent(p) # Absent /\ Parents(pulls, p) = {Parent(p)}
      /\ Base(p) \in {"main", "previous"}
  BY AtStage, StageFacts
<1>2. /\ item \in 1..3 /\ Staged(item) /\ Standing(item)
  BY ItemFacts DEF IInv, StagePart
<1>3. ~(pc = "base" /\ refs[Base(p)] = Absent /\ Base(p) # "previous")
  BY <1>1
<1>4. refs[p] \in {Absent, Feature(p, Parent(p))}
  BY <1>1 DEF IInv, BranchPart, StageBranches
<1>5. ~Missing(p) => known[p].head = Feature(p, Parent(p))
  BY HeadAtStage
<1>6. pc = "open" => ~Refused(p)
  <2>1. SUFFICES ASSUME pc = "open" PROVE ~Refused(p)
    OBVIOUS
  <2>2. Missing(p) /\ refs[Base(p)] # Absent /\ refs[p] # Absent
    BY <1>2, <2>1 DEF Staged, Standing, Past
  <2>3. Carrying(p) = {}
    BY <1>1, <2>1, <2>2, NoneCarried DEF Making
  <2>4. Carrying(p) = {n \in DOMAIN pulls : pulls[n].stage = p}
    BY <1>1, CarryingFacts
  <2>5. Merged(pulls, p) = {}
    BY <2>3, <2>4 DEF Merged
  <2>6. refs[Base(p)] = Parent(p)
    BY <2>2, <2>5, BaseStands
  <2>7. QED
    BY <2>2, <2>3, <2>4, <2>6 DEF Refused
<1>a. pc = "describe" => known[p].base = Base(p)
  <2>1. pc = "describe" => ~Missing(p)
    BY <1>2 DEF Staged, Past
  <2>2. QED
    BY <1>1, <2>1, NoneDisplaced
<1>7. pc = "merge" => ~(/\ known[p].merge = Absent
                        /\ BaseMoved(p) \/ ~pulls[known[p].number].open)
  <2>1. SUFFICES ASSUME pc = "merge", known[p].merge = Absent
                 PROVE  ~BaseMoved(p) /\ pulls[known[p].number].open
    OBVIOUS
  <2>2. ~Missing(p) /\ refs[Base(p)] # Absent
    BY <1>2, <2>1 DEF Staged, Standing, Past
  <2>3. MergeKnown(p) = Absent
    BY <2>1 DEF MergeKnown
  <2>4. Merged(pulls, p) = {}
    BY <1>1, <2>3, UnmergedIsNew DEF Making
  <2>5. pulls[known[p].number].open
    BY <1>1, <2>1, <2>2, KnownMerged, KnownNumbers, NoneDisplaced
  <2>6. QED
    BY <2>2, <2>4, <2>5, BaseStands DEF BaseMoved
<1>8. pc = "validate" => PullTopology(p, known[p], Parent(p))
  <2>1. pc = "validate" => ~Missing(p)
    BY <1>2 DEF Staged, Past
  <2>2. QED
    BY <1>1, <2>1, PullStands
<1>9. pc \notin {"find", "topology", "verify"}
  OBVIOUS
<1>10. QED
  BY <1>3, <1>4, <1>5, <1>6, <1>7, <1>8, <1>9, <1>a DEF Refusal

LEMMA NotRefusedVerifying ==
  ASSUME IInv, ~touched, ~hasty, ~Displaced, pc = "verify"
  PROVE  FinalRefs
<1> USE DEF Building, Finishing
<1>1. /\ "previous_release" \in Pulls /\ "previous_main" \in Pulls
      /\ "current_main" \in Pulls
  BY StageFacts
<1>2. \A p \in Pulls : \A n \in Merged(pulls, p) :
        MergeKnown(p) = pulls[n].merge /\ MergeKnown(p) # Absent
  BY MergedIsKnown DEF Making
<1>3. \A p \in Pulls : /\ ~Missing(p) /\ Parent(p) # Absent
                       /\ known[p].number \in Merged(pulls, p)
                       /\ Parents(pulls, p) = {Parent(p)}
  BY MergedAtEnd
<1>4. /\ repo = "pushed" /\ refs["candidate"] # Absent
      /\ \A k \in 1..3 : refs[Base(Stages[k])] # Absent /\ refs[Stages[k]] # Absent
  BY PushedWhenMaking DEF Making, IInv, FinalPart, StagePart, Standing, Past
<1>5. refs["candidate"] = MergeKnown("current_main")
  BY <1>1, <1>2, <1>4 DEF IInv, BranchPart, CandidateBranch
<1>a. Astray(pulls, "main") = {} /\ Astray(pulls, "previous") = {}
  BY NoneDisplaced
<1>6. refs["main"] = MergeKnown("current_main")
  BY <1>1, <1>2, <1>3, <1>4, <1>a DEF IInv, BranchPart, MainBranch
<1>7. refs["previous"] = MergeKnown("previous_release")
  <2>1. refs["previous"] # Absent
    BY <1>4, StageFacts
  <2>2. QED
    BY <1>1, <1>2, <1>3, <1>a, <2>1 DEF IInv, BranchPart, PreviousBranch
<1>8. ASSUME NEW p \in Pulls PROVE refs[p] = known[p].head
  <2>1. refs[p] # Absent
    BY <1>4, StageFacts
  <2>2. refs[p] = Feature(p, Parent(p))
    BY <1>3, <2>1 DEF IInv, BranchPart, StageBranches
  <2>3. known[p].head = Feature(p, Parent(p))
    BY <1>3, PullStands DEF PullTopology
  <2>4. QED
    BY <2>2, <2>3
<1>9. QED
  BY <1>5, <1>6, <1>7, <1>8 DEF FinalRefs

LEMMA NeverRefusedKept ==
  ASSUME IInv, [Next]_vars
  PROVE  NeverRefused'
<1>1. SUFFICES ASSUME pc' = "conflict", ~touched', ~hasty', repo' # "empty",
                      ~Displaced'
               PROVE  FALSE
  BY DEF NeverRefused
<1>2. CASE pc = "conflict" /\ (Outside \/ UNCHANGED vars)
  <2>1. pulls' = pulls /\ UNCHANGED <<repo, touched, hasty>>
    BY <1>1, <1>2, OutsideFrame, StillFrame DEF Outside, github
  <2>2. ~Displaced
    BY <1>1, <2>1 DEF Displaced
  <2>3. QED
    BY <1>1, <1>2, <2>1, <2>2 DEF IInv, NeverRefused
<1>3. CASE Refusal /\ UNCHANGED <<repo, pulls, touched>> /\ (hasty => hasty')
  <2>1. ~touched /\ ~hasty /\ repo # "empty" /\ ~Displaced
    BY <1>1, <1>3 DEF Displaced
  <2>2. pc \notin Building
    BY <1>3, <2>1, NotRefusedBuilding
  <2>3. pc # "find"
    BY <1>3, <2>1, NotRefusedFinding DEF Refusal
  <2>4. pc # "topology"
    <3>1. pc = "topology" => repo = "pushed"
      BY <2>1 DEF IInv, TypePart, RepoPart, Resting
    <3>2. QED
      BY <1>3, <2>1, <3>1, NotRefusedLooking DEF Refusal
  <2>5. pc # "verify"
    BY <1>3, <2>1, NotRefusedVerifying DEF Refusal
  <2>6. QED
    BY <1>3, <2>2, <2>3, <2>4, <2>5 DEF Refusal, Building
<1>4. QED
  BY <1>1, <1>2, <1>3, ConflictStep

-----------------------------------------------------------------------------
(***************************************************************************)
(* The inductive invariant.                                                *)
(***************************************************************************)
LEMMA InitInv ==
  ASSUME Init
  PROVE  IInv
<1>1. /\ pc = "off" /\ repo = "none" /\ issues = <<>> /\ pulls = <<>>
      /\ refs = [b \in Branches |-> Absent] /\ known = Blank
      /\ milestones = <<>> /\ labels = {} /\ touched = FALSE /\ hasty = FALSE
      /\ ci = [name \in {"blocking", "synthetic"} |-> "pending"]
  BY DEF Init
<1>2. pc \notin Looking \cup Making
  BY <1>1 DEF Looking, Making, Filing, Building, Finishing
<1>3. \A x \in Elements(Markers) : known[x] = Nothing /\ Missing(x)
  <2>1. ASSUME NEW x \in Elements(Markers) PROVE known[x] = Nothing
    BY <1>1, BlankFacts
  <2>2. Nothing.number = 0
    BY DEF Nothing
  <2>3. QED
    BY <2>1, <2>2 DEF Missing
<1>4. \A p \in Pulls : p \in Elements(Markers) /\ p \in Branches
  BY MarkerFacts, StageFacts
<1>5. \A key \in Elements(Issues) : key \in Elements(Markers)
  BY MarkerFacts
<1>6. \A b \in Branches : refs[b] = Absent
  BY <1>1
<1>7. DOMAIN issues = {} /\ DOMAIN pulls = {}
  BY <1>1
<1>8. ItemPart
  BY <1>1, <1>2 DEF ItemPart, Resting, Looking, Making, Filing, Building, Finishing
<1>9. TypePart
  <2>1. issues \in Seq(IssueRecord) /\ pulls \in Seq(Elements(pulls))
    BY <1>1
  <2>2. DOMAIN refs = Branches /\ refs = [b \in Branches |-> refs[b]]
    BY <1>1
  <2>3. DOMAIN known = Elements(Markers) /\ known = [x \in Elements(Markers) |-> known[x]]
    BY <1>1, BlankFacts
  <2>4. QED
    BY <1>1, <1>3, <1>4, <1>5, <1>7, <2>1, <2>2, <2>3 DEF TypePart
<1>10. RepoPart
  BY <1>1, <1>6 DEF RepoPart, Resting
<1>11. PullPart
  BY <1>7 DEF PullPart
<1>12. BranchPart
  BY <1>1, <1>4, <1>6, StageFacts
     DEF BranchPart, StageBranches, CandidateBranch, MainBranch, PreviousBranch
<1>13. SolePart
  BY <1>7, StageFacts DEF SolePart, Sole, SoleInForce, InForce, Carrying
<1>14. KnownPart
  <2>1. \A x : ~Looked(x)
    BY <1>1, <1>2 DEF Looked, Looking
  <2>2. QED
    BY <1>1, <1>2, <1>3, <1>4, <1>5, <2>1
       DEF KnownPart, Seen, PullsKnown, IssuesKnown, InPlace
<1>15. StagePart
  BY <1>1, <1>2
     DEF StagePart, Staged, Standing, Described, Past, Making, Filing, Building,
         Finishing
<1>16. FinalPart
  BY <1>1 DEF FinalPart
<1>17. ListPart
  <2>1. Len(milestones) = 0 /\ 0 \in 0..Len(Milestones)
    BY <1>1, MarkerFacts
  <2>2. SubSeq(Milestones, 1, 0) = <<>>
    BY SubSeqEmpty
  <2>3. QED
    BY <1>1, <1>2, <2>1, <2>2 DEF ListPart
<1>18. IssuePart
  BY <1>1, <1>2 DEF IssuePart, Filed, Making, Filing
<1>19. EvidencePart
  BY <1>1, <1>7 DEF EvidencePart, EvidenceIsEarned
<1>20. SuccessIsComplete /\ NeverRefused
  BY <1>1 DEF SuccessIsComplete, NeverRefused
<1>21. QED
  BY <1>8, <1>9, <1>10, <1>11, <1>12, <1>13, <1>14, <1>15, <1>16, <1>17, <1>18,
     <1>19, <1>20 DEF IInv

LEMMA NextInv ==
  ASSUME IInv, [Next]_vars
  PROVE  IInv'
BY ItemPartKept, TypePartKept, RepoPartKept, PullPartKept, BranchPartKept,
   SolePartKept, KnownPartKept, StagePartKept, FinalPartKept, ListPartKept,
   IssuePartKept, EvidencePartKept, SuccessIsCompleteKept, NeverRefusedKept DEF IInv

(***************************************************************************)
(* What any half-made repository looks like, and what a run knows of it at *)
(* each of its requests (seed_repository).                                 *)
(***************************************************************************)
THEOREM Invariance == Spec => []IInv
BY InitInv, NextInv, PTL DEF Spec

(***************************************************************************)
(* Every record, branch and piece of a run's knowledge has its type.       *)
(***************************************************************************)
THEOREM TypeCorrect == Spec => []TypePart
<1>1. IInv => TypePart
  BY DEF IInv
<1>2. QED
  BY <1>1, Invariance, PTL

(***************************************************************************)
(* A run that reports success has left the repository complete, for any    *)
(* manifest, whatever was half-made or edited before it started.           *)
(***************************************************************************)
THEOREM SuccessIsCompleteHolds == Spec => []SuccessIsComplete
<1>1. IInv => SuccessIsComplete
  BY DEF IInv
<1>2. QED
  BY <1>1, Invariance, PTL

(***************************************************************************)
(* No run is refused for what stops and edits before it have left, unless  *)
(* a managed pull request is closed unmerged or has another base than its  *)
(* own (_validate_existing_topology, _ensure_pull_stage).                  *)
(***************************************************************************)
THEOREM NeverRefusedHolds == Spec => []NeverRefused
<1>1. IInv => NeverRefused
  BY DEF IInv
<1>2. QED
  BY <1>1, Invariance, PTL

(***************************************************************************)
(* A marker is carried by one record only; even when the search is behind, *)
(* one pull request of a stage is open or merged on main (_find_pull).     *)
(***************************************************************************)
LEMMA SoleIsOne ==
  ASSUME NEW S, \A m, n \in S : m = n
  PROVE  Cardinality(S) <= 1
<1>1. CASE S = {}
  BY <1>1, FS_EmptySet
<1>2. CASE S # {}
  <2>1. PICK n : n \in S
    BY <1>2
  <2>2. S = {n}
    BY <2>1
  <2>3. Cardinality({n}) = 1
    BY FS_Singleton
  <2>4. QED
    BY <2>2, <2>3
<1>3. QED
  BY <1>1, <1>2

THEOREM OneOfEachHolds == Spec => []OneOfEach
<1>1. ASSUME IInv PROVE OneOfEach
  <2>1. ASSUME NEW p \in Pulls, Base(p) = "main"
        PROVE  Cardinality(InForce(p)) <= 1
    <3>1. SoleInForce(p)
      BY <1>1, <2>1, StageFacts DEF IInv, SolePart
    <3>2. QED
      BY <3>1, SoleIsOne DEF SoleInForce
  <2>2. ASSUME ~hasty, NEW x \in Elements(Markers)
        PROVE  Cardinality(Carrying(x)) <= 1
    <3>1. Sole(x)
      BY <1>1, <2>2 DEF IInv, SolePart
    <3>2. QED
      BY <3>1, SoleIsOne DEF Sole
  <2>3. QED
    BY <2>1, <2>2 DEF OneOfEach
<1>2. QED
  BY <1>1, Invariance, PTL

(***************************************************************************)
(* The operations issue cites the evidence only of a check pair that has   *)
(* ended as it should (_wait_for_migration_check).                         *)
(***************************************************************************)
THEOREM EvidenceIsEarnedHolds == Spec => []EvidenceIsEarned
<1>1. IInv => EvidenceIsEarned
  BY DEF IInv, EvidencePart
<1>2. QED
  BY <1>1, Invariance, PTL

-----------------------------------------------------------------------------
(***************************************************************************)
(* No step of a run undoes anything.                                       *)
(***************************************************************************)
LEMMA BranchesExtended ==
  ASSUME IInv, Run, NEW b \in Branches
  PROVE  Extends(refs'[b], refs[b])
<1>1. [Next]_vars
  BY DEF Next
<1>2. CASE \E c \in Branches : DeleteBranch(c)
  <2>1. pc' = pc
    BY <1>2 DEF DeleteBranch, Edited, seeder
  <2>2. ~Push /\ ~EnsureBase /\ ~EnsureHead /\ ~MergePull /\ ~EnsureCandidate
    BY <2>1 DEF Push, EnsureBase, EnsureHead, MergePull, EnsureCandidate, At, Goto,
       Conflict, Fail, End
  <2>3. refs' = refs
    BY <2>2, RunFrame
  <2>4. QED
    BY <2>3 DEF Extends
<1>3. CASE refs'[b] = MergeOf(known[Stages[item]].number, refs[b],
                              known[Stages[item]].head)
  BY <1>3, Commits DEF Extends
<1>4. CASE refs'[b] = refs[b] \/ refs[b] = Absent
  BY <1>4 DEF Extends
<1>5. QED
  BY <1>1, <1>2, <1>3, <1>4, RefsStep

LEMMA LabelsAndBodiesKept ==
  ASSUME IInv, Run, NEW n \in DOMAIN issues
  PROVE  /\ issues[n].body = "evidence" => issues'[n].body = "evidence"
         /\ "foreign" \in issues[n].labels =>
              "foreign" \in issues'[n].labels \/ Unseen(n)
<1>1. [Next]_vars /\ issues[n] \in IssueRecord
  BY DEF Next, IInv, TypePart
<1>2. CASE issues'[n] = issues[n]
  BY <1>2
<1>3. CASE CreateIssue \/ UpdateIssue
  <2>1. PICK key : key = Issues[item]
    OBVIOUS
  <2>2. \/ issues'[n] = issues[n]
        \/ n = known'[key].number
    BY <1>1, <1>3, <2>1, IssueLearns
  <2>3. CASE /\ n = known'[key].number /\ ~Missing(key)
             /\ known'[key].number = known[key].number /\ issues[n].key = key
             /\ issues'[n] = Patched(issues[n], key, known[key])
    <3>1. key \in Elements(Issues)
      BY <1>1, <1>3, <2>1, IssueLearns
    <3>2. known[key] \in KnownIssue
      BY <2>3, <3>1, KnownNumbers
    <3>3. LabelsFor(known[key].labels) \in SUBSET LabelNames
      BY <3>2 DEF KnownIssue, LabelsFor, LabelNames
    <3>4. /\ issues'[n].labels = LabelsFor(known[key].labels)
          /\ issues'[n].body =
               IF BodyPreservedFor(key) THEN issues[n].body ELSE "defined"
      BY <1>1, <2>3, <3>3, PatchedFields
    <3>5. issues[n].body = "evidence" => key = Operations
      BY <2>3 DEF IInv, EvidencePart
    <3>6. "foreign" \in known[key].labels => "foreign" \in issues'[n].labels
      BY <3>4 DEF LabelsFor
    <3>7. QED
      BY <2>3, <3>4, <3>5, <3>6 DEF Unseen, BodyPreservedFor
  <2>4. CASE known'[key].number = Len(issues) + 1
    <3>1. n # Len(issues) + 1
      BY LenProperties DEF IInv, TypePart
    <3>2. QED
      BY <1>2, <2>2, <2>4, <3>1
  <2>5. QED
    BY <1>1, <1>2, <1>3, <2>1, <2>2, <2>3, <2>4, IssueLearns
<1>4. CASE WriteEvidence
  <2>1. PICK m : m = known[Operations].number
    OBVIOUS
  <2>2. issues' = issues \/ issues' = [issues EXCEPT ![m].body = "evidence"]
    BY <1>4, <2>1 DEF WriteEvidence
  <2>3. CASE n = m
    BY <1>1, <2>2, <2>3 DEF IssueRecord
  <2>4. CASE n # m
    BY <2>2, <2>4
  <2>5. QED
    BY <2>3, <2>4
<1>5. QED
  BY <1>2, <1>3, <1>4, RunFrame

(***************************************************************************)
(* A branch moves only by a merge onto what it pointed to, a pull request  *)
(* stays merged, and an issue keeps its evidence and the labels that are   *)
(* not managed (_reconcile_issues, merge_pull).                            *)
(***************************************************************************)
THEOREM NothingIsUndoneHolds == Spec => NothingIsUndone
<1> DEFINE Kept == Run =>
       /\ \A b \in Branches : Extends(refs'[b], refs[b])
       /\ \A n \in DOMAIN pulls : pulls[n].merge # Absent =>
            pulls'[n].merge = pulls[n].merge
       /\ \A n \in DOMAIN issues :
            /\ issues[n].body = "evidence" => issues'[n].body = "evidence"
            /\ "foreign" \in issues[n].labels =>
                 "foreign" \in issues'[n].labels \/ Unseen(n)
<1>1. IInv /\ [Next]_vars => [Kept]_vars
  BY BranchesExtended, RecordsGrow, LabelsAndBodiesKept
<1>2. QED
  BY <1>1, Invariance, PTL DEF Spec, NothingIsUndone
=============================================================================
