--------------------------- MODULE AssessmentProofs ---------------------------
(***************************************************************************)
(* Facts about the verdict on one snapshot, for every snapshot, policy,    *)
(* set of decisions and time.  They hold of the operators alone; module    *)
(* DecisionsProofs rests on them.                                          *)
(***************************************************************************)
EXTENDS Assessment, TLAPS

(* A snapshot of the GitHub loader, as opposed to the demo fixture, and    *)
(* one whose other rules do not report advisory findings.                  *)
FromGitHub(s) == s.version = "github_v1"

Collected(s) ==
  /\ FromGitHub(s)
  /\ \A f \in s.rest : f.rule # AdvisoryRule

AllCodes(s, categories, ds, now) ==
  SnapshotCodes(s, now) \cup CheckRule(s, categories, ds).codes \cup s.restCodes

AllFindings(s, categories, ds) ==
  CheckRule(s, categories, ds).findings \cup s.rest

(***************************************************************************)
(* The verdict of a collected snapshot is the precedence over all codes    *)
(* and all findings (assess).                                              *)
(***************************************************************************)
LEMMA AssessUnfolded ==
  ASSUME NEW s, NEW categories, NEW ds, NEW now, FromGitHub(s)
  PROVE  /\ Assess(s, categories, ds, now).status =
              StatusOf(AllCodes(s, categories, ds, now),
                       AllFindings(s, categories, ds))
         /\ Assess(s, categories, ds, now).findings =
              AllFindings(s, categories, ds)
                \cup InsufficiencyFindings(AllCodes(s, categories, ds, now))
BY DEF FromGitHub, Assess, AssessConfigured, AllCodes, AllFindings

(***************************************************************************)
(* A verdict is one of the four statuses.                                  *)
(***************************************************************************)
LEMMA StatusIsReleaseStatus ==
  ASSUME NEW codes, NEW findings
  PROVE  StatusOf(codes, findings) \in ReleaseStatus
BY DEF StatusOf, ReleaseStatus

(***************************************************************************)
(* Any verdict above INSUFFICIENT_DATA means that nothing is wrong with    *)
(* the evidence: the window is whole, fresh and the policy's own, and no   *)
(* check record was put aside.                                             *)
(***************************************************************************)
LEMMA SufficientMeansClean ==
  ASSUME NEW s, NEW categories, NEW ds, NEW now, FromGitHub(s),
         Assess(s, categories, ds, now).status # "INSUFFICIENT_DATA"
  PROVE  /\ SnapshotCodes(s, now) = {}
         /\ CheckPrerequisites(s) = {}
         /\ EvidenceCodes(s.checks, s.candidate) = {}
         /\ DecisionCodes(s.checks, s.candidate, categories, ds) = {}
         /\ s.restCodes = {}
<1>1. AllCodes(s, categories, ds, now) = {}
  BY AssessUnfolded DEF StatusOf
<1>2. CheckRule(s, categories, ds).codes = {}
  BY <1>1 DEF AllCodes
<1>3. CheckPrerequisites(s) = {}
  BY <1>2 DEF CheckRule
<1>4. CheckRule(s, categories, ds) =
        EvaluateChecks(s.checks, s.candidate, categories, ds)
  BY <1>3 DEF CheckRule
<1>5. EvidenceCodes(s.checks, s.candidate)
        \cup DecisionCodes(s.checks, s.candidate, categories, ds) = {}
  BY <1>2, <1>4 DEF EvaluateChecks
<1>6. QED
  BY <1>1, <1>3, <1>5 DEF AllCodes

(* With sufficient data, the findings of a verdict are exactly those of    *)
(* the check rule and of the other rules (assess).                         *)
LEMMA CleanFindings ==
  ASSUME NEW s, NEW categories, NEW ds, CheckPrerequisites(s) = {}
  PROVE  AllFindings(s, categories, ds) =
           CheckFindings(s.checks, s.candidate, categories, ds) \cup s.rest
BY DEF AllFindings, CheckRule, EvaluateChecks

(***************************************************************************)
(* An advisory finding that asks for a decision is that of a failed        *)
(* advisory check whose fingerprint no given decision carries.             *)
(***************************************************************************)
DecidableIn(s, categories, ds, f) ==
  \E c \in Failing(s.checks, s.candidate, categories, "ADVISORY") :
    /\ f = AdvisoryFinding(c, FALSE)
    /\ f.subject = Fingerprint(c)
    /\ DecisionState(Fingerprint(c), ds) = "NONE"

(* A finding that asks for a decision is of a failed advisory check nobody *)
(* has decided (evaluate_checks).                                          *)
LEMMA OpenMeansUndecided ==
  ASSUME NEW s, NEW categories, NEW ds, NEW now, Collected(s),
         NEW f \in Assess(s, categories, ds, now).findings,
         f.rule = AdvisoryRule, f.severity = "DECISION_REQUIRED"
  PROVE  /\ CheckPrerequisites(s) = {}
         /\ DecidableIn(s, categories, ds, f)
         /\ \A d \in ds : d.fingerprint # f.subject
<1>1. f \notin InsufficiencyFindings(AllCodes(s, categories, ds, now))
  BY DEF InsufficiencyFindings, Finding, AdvisoryRule
<1>a. FromGitHub(s)
  BY DEF Collected
<1>b. f \in AllFindings(s, categories, ds)
  BY <1>a, <1>1, AssessUnfolded
<1>c. f \notin s.rest
  BY DEF Collected
<1>2. f \in CheckRule(s, categories, ds).findings
  BY <1>b, <1>c DEF AllFindings
<1>3. CheckPrerequisites(s) = {}
  BY <1>2 DEF CheckRule
<1>4. f \in CheckFindings(s.checks, s.candidate, categories, ds)
  BY <1>2, <1>3 DEF CheckRule, EvaluateChecks
<1>5. PICK c \in Failing(s.checks, s.candidate, categories, "ADVISORY") :
        /\ DecisionState(Fingerprint(c), ds) = "NONE"
        /\ f = AdvisoryFinding(c, FALSE)
  BY <1>4 DEF CheckFindings, BlockingFinding, MissingBlockingFinding,
              AdvisoryFinding, UnknownFinding, Finding, AdvisoryRule
<1>6. f.subject = Fingerprint(c)
  BY <1>5 DEF AdvisoryFinding, Finding
<1>7. \A d \in ds : d.fingerprint # Fingerprint(c)
  BY <1>5 DEF DecisionState
<1>8. QED
  BY <1>3, <1>5, <1>6, <1>7 DEF DecidableIn

(***************************************************************************)
(* READY is earned, whatever the snapshot, the policy and the decisions:   *)
(* no blocker of another rule, every blocking check there and successful,  *)
(* every check classified, undisputed and, when advisory, successful or    *)
(* accepted and marked a blocker by no decision.                           *)
(***************************************************************************)
Single(s, c) ==
  /\ c.sha = s.candidate
  /\ \A d \in s.checks : d.name = c.name \/ d.run = c.run => d = c

EarnedBy(s, categories, ds) ==
  /\ s.complete /\ s.errors = {} /\ s.candidate # NoSha
  /\ s.restCodes = {}
  /\ \A f \in s.rest : f.severity # "BLOCKING"
  /\ \A n \in DOMAIN categories :
       categories[n] = "BLOCKING" => \E c \in s.checks : c.name = n /\ Success(c)
  /\ \A c \in s.checks :
       /\ c.name \in DOMAIN categories
       /\ Single(s, c)
       /\ categories[c.name] = "BLOCKING" => Success(c)
       /\ categories[c.name] = "ADVISORY" =>
            \/ Success(c)
            \/ \E d \in ds : d.fingerprint = Fingerprint(c) /\ d.blocks = FALSE
  /\ \A c \in Failing(s.checks, s.candidate, categories, "ADVISORY") :
       \A d \in ds : d.fingerprint = Fingerprint(c) => d.blocks = FALSE

(***************************************************************************)
(* When no evidence code is raised every record of the snapshot is usable, *)
(* and it is the only one of its name and of its run.                      *)
(***************************************************************************)
LEMMA CleanMeansUsable ==
  ASSUME NEW s, EvidenceCodes(s.checks, s.candidate) = {}
  PROVE  /\ Usable(s.checks, s.candidate) = s.checks
         /\ \A c \in s.checks : Single(s, c)
<1>1. \A c \in s.checks : ~ConflictingRun(s.checks, c)
  BY DEF EvidenceCodes
<1>2. \A c \in s.checks : ValidIdentity(s.candidate, c) /\ ValidMatrix(c)
  BY <1>1 DEF EvidenceCodes
<1>3. \A c \in s.checks : Sound(s.checks, s.candidate, c)
  BY <1>1, <1>2 DEF Sound
<1>4. \A c \in s.checks : ~ConflictingName(s.checks, s.candidate, c)
  <2> DEFINE disputed == {d \in s.checks : ConflictingName(s.checks, s.candidate, d)}
             runs(c) == {d.run : d \in {e \in s.checks :
                          e.name = c.name /\ Sound(s.checks, s.candidate, e)}}
  <2>1. {Code("check.conflicting_name", runs(c)) : c \in disputed} = {}
    BY DEF EvidenceCodes
  <2> HIDE DEF runs
  <2>2. disputed = {}
    BY <2>1
  <2>3. QED
    BY <2>2
<1>5. Usable(s.checks, s.candidate) = s.checks
  BY <1>3, <1>4 DEF Usable, Quarantined
<1>6. ASSUME NEW c \in s.checks
      PROVE  Single(s, c)
  <2>1. c.run > 0 /\ c.sha = s.candidate
    BY <1>2 DEF ValidIdentity
  <2>2. \A d \in s.checks : d.run = c.run => d = c
    BY <1>1, <2>1 DEF ConflictingRun
  <2>3. \A d \in s.checks : d.name = c.name => d = c
    BY <1>3, <1>4 DEF ConflictingName
  <2>4. QED
    BY <2>1, <2>2, <2>3 DEF Single
<1>7. QED
  BY <1>5, <1>6

(* READY is earned: whatever the snapshot, the policy, the decisions and the *)
(* time, a READY verdict rests on sound and complete checks (assess).      *)
THEOREM ReadyMeansEarned ==
  ASSUME NEW s, NEW categories, NEW ds, NEW now, FromGitHub(s),
         \A d \in ds : d.blocks \in BOOLEAN,
         Assess(s, categories, ds, now).status = "READY"
  PROVE  EarnedBy(s, categories, ds)
<1> DEFINE failing == Failing(s.checks, s.candidate, categories, "ADVISORY")
           findings == CheckFindings(s.checks, s.candidate, categories, ds)
<1>1. /\ SnapshotCodes(s, now) = {}
      /\ CheckPrerequisites(s) = {}
      /\ EvidenceCodes(s.checks, s.candidate) = {}
      /\ DecisionCodes(s.checks, s.candidate, categories, ds) = {}
      /\ s.restCodes = {}
  BY SufficientMeansClean
<1>2. s.complete /\ s.errors = {} /\ s.candidate # NoSha
  BY <1>1 DEF SnapshotCodes, If
<1>3. \A f \in findings \cup s.rest :
        f.severity # "BLOCKING" /\ f.severity # "DECISION_REQUIRED"
  <2>1. StatusOf(AllCodes(s, categories, ds, now),
                 AllFindings(s, categories, ds)) = "READY"
    BY AssessUnfolded
  <2>2. \A f \in AllFindings(s, categories, ds) :
          f.severity # "BLOCKING" /\ f.severity # "DECISION_REQUIRED"
    BY <2>1 DEF StatusOf
  <2>3. QED
    BY <1>1, <2>2, CleanFindings
<1>4. /\ Usable(s.checks, s.candidate) = s.checks
      /\ \A c \in s.checks : Single(s, c)
  BY <1>1, CleanMeansUsable
<1>5. \A c \in s.checks : c.name \in DOMAIN categories
  <2>1. ASSUME NEW c \in s.checks, c.name \notin DOMAIN categories
        PROVE  FALSE
    <3>1. UnknownFinding(c) \in findings
      BY <1>4, <2>1 DEF CheckFindings
    <3>2. QED
      BY <3>1, <1>3 DEF UnknownFinding, Finding
  <2>2. QED
    BY <2>1
<1>6. \A c \in s.checks : categories[c.name] = "BLOCKING" => Success(c)
  <2>1. ASSUME NEW c \in s.checks, categories[c.name] = "BLOCKING", ~Success(c)
        PROVE  FALSE
    <3>1. c \in Failing(s.checks, s.candidate, categories, "BLOCKING")
      BY <1>4, <1>5, <2>1 DEF Failing, Classified
    <3>2. BlockingFinding(c) \in findings
      BY <3>1 DEF CheckFindings
    <3>3. QED
      BY <3>2, <1>3 DEF BlockingFinding, Finding
  <2>2. QED
    BY <2>1
<1>7. \A n \in DOMAIN categories :
        categories[n] = "BLOCKING" => \E c \in s.checks : c.name = n /\ Success(c)
  <2>1. ASSUME NEW n \in DOMAIN categories, categories[n] = "BLOCKING",
               \A c \in s.checks : c.name # n
        PROVE  FALSE
    <3>1. MissingBlockingFinding(s.candidate, n) \in findings
      BY <2>1 DEF CheckFindings, MissingNames
    <3>2. QED
      BY <3>1, <1>3 DEF MissingBlockingFinding, Finding
  <2>2. QED
    BY <2>1, <1>6
<1>8. \A c \in failing : DecisionState(Fingerprint(c), ds) = "ACCEPTED"
  <2>1. ASSUME NEW c \in failing
        PROVE  DecisionState(Fingerprint(c), ds) = "ACCEPTED"
    <3>1. DecisionState(Fingerprint(c), ds) # "NONE"
      <4>1. AdvisoryFinding(c, FALSE).severity = "DECISION_REQUIRED"
        BY DEF AdvisoryFinding, Finding
      <4>2. QED
        BY <4>1, <1>3 DEF CheckFindings
    <3>2. DecisionState(Fingerprint(c), ds) # "BLOCKER"
      <4>1. AdvisoryFinding(c, TRUE).severity = "BLOCKING"
        BY DEF AdvisoryFinding, Finding
      <4>2. QED
        BY <4>1, <1>3 DEF CheckFindings
    <3>3. /\ DecisionState(Fingerprint(c), ds) # "CONFLICTING"
          /\ DecisionState(Fingerprint(c), ds) # "INVALID"
      BY <1>1 DEF DecisionCodes
    <3>4. QED
      BY <3>1, <3>2, <3>3 DEF DecisionState
  <2>2. QED
    BY <2>1
<1>9. \A c \in failing :
        /\ \E d \in ds : d.fingerprint = Fingerprint(c) /\ d.blocks = FALSE
        /\ \A d \in ds : d.fingerprint = Fingerprint(c) => d.blocks = FALSE
  <2>1. ASSUME NEW c \in failing
        PROVE  /\ \E d \in ds : d.fingerprint = Fingerprint(c) /\ d.blocks = FALSE
               /\ \A d \in ds : d.fingerprint = Fingerprint(c) => d.blocks = FALSE
    <3> DEFINE outcomes == {d.blocks : d \in {e \in ds : e.fingerprint = Fingerprint(c)}}
    <3>1. outcomes # {} /\ outcomes # {TRUE, FALSE} /\ outcomes # {TRUE}
      BY <1>8, <2>1 DEF DecisionState
    <3>2. outcomes \subseteq BOOLEAN
      OBVIOUS
    <3>3. outcomes = {FALSE}
      BY <3>1, <3>2, Zenon
    <3>4. QED
      BY <3>3
  <2>2. QED
    BY <2>1
<1>10. \A c \in s.checks :
         categories[c.name] = "ADVISORY" =>
            \/ Success(c)
            \/ \E d \in ds : d.fingerprint = Fingerprint(c) /\ d.blocks = FALSE
  <2>1. \A c \in s.checks :
          categories[c.name] = "ADVISORY" /\ ~Success(c) => c \in failing
    BY <1>4, <1>5 DEF Failing, Classified
  <2>2. QED
    BY <2>1, <1>9
<1>11. \A f \in s.rest : f.severity # "BLOCKING"
  BY <1>3
<1>12. QED
  BY <1>1, <1>2, <1>4, <1>5, <1>6, <1>7, <1>9, <1>10, <1>11 DEF EarnedBy

(***************************************************************************)
(* A first decision on a fingerprint settles that fingerprint and no other *)
(* (_decision_state).                                                      *)
(***************************************************************************)
LEMMA FirstDecision ==
  ASSUME NEW ds, NEW e, NEW f,
         \A d \in ds \cup {e} : IsFingerprint(d.fingerprint),
         \A d \in ds : d.fingerprint # e.fingerprint,
         e.blocks \in BOOLEAN
  PROVE  /\ f # e.fingerprint => DecisionState(f, ds \cup {e}) = DecisionState(f, ds)
         /\ f = e.fingerprint => DecisionState(f, ds \cup {e}) =
                                   IF e.blocks THEN "BLOCKER" ELSE "ACCEPTED"
<1> DEFINE bound(es) == {d \in es : d.fingerprint = f}
           outcomes(es) == {d.blocks : d \in bound(es)}
<1>1. /\ ~\E d \in ds : ~IsFingerprint(d.fingerprint)
      /\ ~\E d \in ds \cup {e} : ~IsFingerprint(d.fingerprint)
  OBVIOUS
<1>2. CASE f # e.fingerprint
  <2>1. bound(ds \cup {e}) = bound(ds)
    BY <1>2
  <2>2. outcomes(ds \cup {e}) = outcomes(ds)
    BY <2>1
  <2> HIDE DEF outcomes
  <2>3. DecisionState(f, ds \cup {e}) = DecisionState(f, ds)
    BY <1>1, <2>2 DEF DecisionState, outcomes, bound
  <2>4. QED
    BY <1>2, <2>3
<1>3. CASE f = e.fingerprint
  <2>1. bound(ds \cup {e}) = {e}
    BY <1>3
  <2>2. outcomes(ds \cup {e}) = {e.blocks}
    BY <2>1
  <2>3. DecisionState(f, ds \cup {e}) = IF e.blocks THEN "BLOCKER" ELSE "ACCEPTED"
    <3>1. CASE e.blocks = TRUE
      <4>1. outcomes(ds \cup {e}) = {TRUE}
        BY <2>2, <3>1
      <4>2. {TRUE} # {} /\ {TRUE} # {TRUE, FALSE}
        OBVIOUS
      <4> HIDE DEF outcomes
      <4>3. QED
        BY <1>1, <3>1, <4>1, <4>2 DEF DecisionState, outcomes, bound
    <3>2. CASE e.blocks = FALSE
      <4>1. outcomes(ds \cup {e}) = {FALSE}
        BY <2>2, <3>2
      <4>2. {FALSE} # {} /\ {FALSE} # {TRUE, FALSE} /\ {FALSE} # {TRUE}
        OBVIOUS
      <4> HIDE DEF outcomes
      <4>3. QED
        BY <1>1, <3>2, <4>1, <4>2 DEF DecisionState, outcomes, bound
    <3>3. QED
      BY <3>1, <3>2
  <2>4. QED
    BY <1>3, <2>3
<1>4. QED
  BY <1>2, <1>3

(***************************************************************************)
(* On a run that needs a decision, deciding a failed advisory check for    *)
(* the first time closes its finding, leaves the other open findings as    *)
(* they are, keeps the evidence sufficient, and settles the run when the   *)
(* decision blocks (reassess_stored_decision).                             *)
(***************************************************************************)
OpenOf(findings) ==
  {f \in findings : f.rule = AdvisoryRule /\ f.severity = "DECISION_REQUIRED"}

OtherOpen(findings) ==
  {f \in findings : f.rule # AdvisoryRule /\ f.severity = "DECISION_REQUIRED"}

Decidable(s, categories, ds) ==
  {AdvisoryFinding(c, FALSE) : c \in
     {b \in Failing(s.checks, s.candidate, categories, "ADVISORY") :
        DecisionState(Fingerprint(b), ds) = "NONE"}}

(* The open findings of a sufficient verdict are those of the undecided    *)
(* failed advisory checks (evaluate_checks).                               *)
LEMMA OpenFindingsOf ==
  ASSUME NEW s, NEW categories, NEW ds, NEW now, Collected(s),
         CheckPrerequisites(s) = {}
  PROVE  OpenOf(Assess(s, categories, ds, now).findings) =
           Decidable(s, categories, ds)
<1> DEFINE findings == Assess(s, categories, ds, now).findings
           undecided ==
              {b \in Failing(s.checks, s.candidate, categories, "ADVISORY") :
                 DecisionState(Fingerprint(b), ds) = "NONE"}
<1>1. ASSUME NEW f \in OpenOf(findings)
      PROVE  \E c \in undecided : f = AdvisoryFinding(c, FALSE)
  <2>1. /\ f \in Assess(s, categories, ds, now).findings
        /\ f.rule = AdvisoryRule
        /\ f.severity = "DECISION_REQUIRED"
    BY <1>1 DEF OpenOf
  <2>2. DecidableIn(s, categories, ds, f)
    BY <2>1, OpenMeansUndecided
  <2>3. QED
    BY <2>2 DEF DecidableIn
<1>2. ASSUME NEW c \in undecided
      PROVE  AdvisoryFinding(c, FALSE) \in OpenOf(findings)
  <2>1. AdvisoryFinding(c, FALSE) \in
          CheckFindings(s.checks, s.candidate, categories, ds)
    BY DEF CheckFindings
  <2>2. AdvisoryFinding(c, FALSE) \in AllFindings(s, categories, ds)
    BY <2>1, CleanFindings
  <2>3. AllFindings(s, categories, ds) \subseteq findings
    <3>1. findings = AllFindings(s, categories, ds)
                       \cup InsufficiencyFindings(AllCodes(s, categories, ds, now))
      BY AssessUnfolded DEF Collected
    <3>2. QED
      BY <3>1
  <2>4. QED
    BY <2>2, <2>3 DEF OpenOf, AdvisoryFinding, Finding
<1>3. QED
  BY <1>1, <1>2 DEF Decidable

Settling(s, categories, ds, e, c, now) ==
  LET before == Assess(s, categories, ds, now)
      after  == Assess(s, categories, ds \cup {e}, now)
  IN  /\ after.status # "INSUFFICIENT_DATA"
      /\ OpenOf(after.findings) =
           OpenOf(before.findings) \ {AdvisoryFinding(c, FALSE)}
      /\ OtherOpen(after.findings) = OtherOpen(before.findings)
      /\ e.blocks = TRUE => after.status = "NOT_READY"
      /\ e.blocks = FALSE =>
           after.status = IF OpenOf(after.findings) = {}
                               /\ OtherOpen(after.findings) = {}
                            THEN "READY" ELSE "NEEDS_DECISION"

(* One decision on an undecided check closes its finding and no other, and *)
(* settles the run when it blocks or was the last one (reassess_stored_decision). *)
LEMMA DecidingOnce ==
  ASSUME NEW s, NEW categories, NEW ds, NEW now, NEW e, Collected(s),
         Assess(s, categories, ds, now).status = "NEEDS_DECISION",
         NEW c \in Failing(s.checks, s.candidate, categories, "ADVISORY"),
         e.fingerprint = Fingerprint(c),
         e.blocks \in BOOLEAN,
         \A d \in ds : d.fingerprint # e.fingerprint
  PROVE  Settling(s, categories, ds, e, c, now)
<1> DEFINE after == Assess(s, categories, ds \cup {e}, now)
           before == Assess(s, categories, ds, now)
           failing == Failing(s.checks, s.candidate, categories, "ADVISORY")
           with(es) == CheckFindings(s.checks, s.candidate, categories, es)
<1>1. /\ SnapshotCodes(s, now) = {}
      /\ CheckPrerequisites(s) = {}
      /\ EvidenceCodes(s.checks, s.candidate) = {}
      /\ DecisionCodes(s.checks, s.candidate, categories, ds) = {}
      /\ s.restCodes = {}
  BY SufficientMeansClean DEF Collected
<1>2. \A b \in failing : /\ DecisionState(Fingerprint(b), ds) # "INVALID"
                         /\ DecisionState(Fingerprint(b), ds) # "CONFLICTING"
  BY <1>1 DEF DecisionCodes
<1>3. \A d \in ds \cup {e} : IsFingerprint(d.fingerprint)
  <2>1. \A d \in ds : IsFingerprint(d.fingerprint)
    BY <1>2 DEF DecisionState
  <2>2. IsFingerprint(Fingerprint(c))
    BY DEF IsFingerprint, Fingerprint
  <2>3. QED
    BY <2>1, <2>2
<1>4. \A b \in failing :
        /\ Fingerprint(b) # e.fingerprint =>
             DecisionState(Fingerprint(b), ds \cup {e}) =
               DecisionState(Fingerprint(b), ds)
        /\ Fingerprint(b) = e.fingerprint =>
             DecisionState(Fingerprint(b), ds \cup {e}) =
               IF e.blocks THEN "BLOCKER" ELSE "ACCEPTED"
  BY <1>3, FirstDecision
<1>5. \A b \in failing :
        /\ DecisionState(Fingerprint(b), ds \cup {e}) # "INVALID"
        /\ DecisionState(Fingerprint(b), ds \cup {e}) # "CONFLICTING"
  <2>1. ASSUME NEW b \in failing
        PROVE  /\ DecisionState(Fingerprint(b), ds \cup {e}) # "INVALID"
               /\ DecisionState(Fingerprint(b), ds \cup {e}) # "CONFLICTING"
    <3>1. CASE Fingerprint(b) # e.fingerprint
      BY <1>2, <1>4, <3>1
    <3>2. CASE Fingerprint(b) = e.fingerprint
      <4>1. DecisionState(Fingerprint(b), ds \cup {e}) \in {"BLOCKER", "ACCEPTED"}
        BY <1>4, <3>2
      <4>2. QED
        BY <4>1
    <3>3. QED
      BY <3>1, <3>2
  <2>2. QED
    BY <2>1
<1>6. AllCodes(s, categories, ds \cup {e}, now) = {}
  <2>1. DecisionCodes(s.checks, s.candidate, categories, ds \cup {e}) = {}
    BY <1>5 DEF DecisionCodes
  <2>2. CheckRule(s, categories, ds \cup {e}).codes = {}
    BY <1>1, <2>1 DEF CheckRule, EvaluateChecks
  <2>3. QED
    BY <1>1, <2>2 DEF AllCodes
<1>7. /\ after.status = StatusOf({}, with(ds \cup {e}) \cup s.rest)
      /\ after.findings = with(ds \cup {e}) \cup s.rest
  <2>1. InsufficiencyFindings({}) = {}
    BY DEF InsufficiencyFindings
  <2>2. AllFindings(s, categories, ds \cup {e}) = with(ds \cup {e}) \cup s.rest
    BY <1>1, CleanFindings
  <2>3. /\ after.status = StatusOf(AllCodes(s, categories, ds \cup {e}, now),
                                   AllFindings(s, categories, ds \cup {e}))
        /\ after.findings =
             AllFindings(s, categories, ds \cup {e})
               \cup InsufficiencyFindings(AllCodes(s, categories, ds \cup {e}, now))
    BY AssessUnfolded DEF Collected
  <2>4. QED
    BY <1>6, <2>1, <2>2, <2>3
<1>8. /\ before.status = StatusOf({}, with(ds) \cup s.rest)
      /\ before.findings = with(ds) \cup s.rest
  <2>1. InsufficiencyFindings({}) = {}
    BY DEF InsufficiencyFindings
  <2>2. AllCodes(s, categories, ds, now) = {}
    BY <1>1 DEF AllCodes, CheckRule, EvaluateChecks
  <2>3. AllFindings(s, categories, ds) = with(ds) \cup s.rest
    BY <1>1, CleanFindings
  <2>4. /\ before.status = StatusOf(AllCodes(s, categories, ds, now),
                                    AllFindings(s, categories, ds))
        /\ before.findings =
             AllFindings(s, categories, ds)
               \cup InsufficiencyFindings(AllCodes(s, categories, ds, now))
    BY AssessUnfolded DEF Collected
  <2>5. QED
    BY <2>1, <2>2, <2>3, <2>4
<1>9. after.status # "INSUFFICIENT_DATA"
  BY <1>7 DEF StatusOf
<1>10. OpenOf(after.findings) =
         OpenOf(before.findings) \ {AdvisoryFinding(c, FALSE)}
  <2> DEFINE undecided(es) == {b \in failing : DecisionState(Fingerprint(b), es) = "NONE"}
  <2>1. /\ OpenOf(after.findings) = Decidable(s, categories, ds \cup {e})
        /\ OpenOf(before.findings) = Decidable(s, categories, ds)
    BY <1>1, OpenFindingsOf
  <2>2. undecided(ds \cup {e}) =
          {b \in undecided(ds) : Fingerprint(b) # Fingerprint(c)}
    BY <1>4
  <2>3. \A b : AdvisoryFinding(b, FALSE) = AdvisoryFinding(c, FALSE)
                <=> Fingerprint(b) = Fingerprint(c)
    BY DEF AdvisoryFinding, Finding
  <2>4. QED
    BY <2>1, <2>2, <2>3 DEF Decidable
<1>11. OtherOpen(after.findings) = OtherOpen(before.findings)
  <2>1. \A es : \A f : f \in with(es) /\ f.rule # AdvisoryRule =>
                  \A os : f \in with(os)
    BY DEF CheckFindings, AdvisoryFinding, Finding
  <2>2. QED
    BY <1>7, <1>8, <2>1 DEF OtherOpen
<1>12. ASSUME e.blocks = TRUE
       PROVE  after.status = "NOT_READY"
  <2>1. DecisionState(Fingerprint(c), ds \cup {e}) = "BLOCKER"
    BY <1>4, <1>12
  <2>2. AdvisoryFinding(c, TRUE) \in with(ds \cup {e})
    BY <2>1 DEF CheckFindings
  <2>3. AdvisoryFinding(c, TRUE).severity = "BLOCKING"
    BY DEF AdvisoryFinding, Finding
  <2>4. QED
    BY <1>7, <2>2, <2>3 DEF StatusOf
<1>13. ASSUME e.blocks = FALSE
       PROVE  after.status = IF OpenOf(after.findings) = {}
                                  /\ OtherOpen(after.findings) = {}
                               THEN "READY" ELSE "NEEDS_DECISION"
  <2>1. \A f \in with(ds) \cup s.rest : f.severity # "BLOCKING"
    BY <1>8 DEF StatusOf
  <2>2. \A b \in failing : DecisionState(Fingerprint(b), ds \cup {e}) # "BLOCKER"
    <3>1. ASSUME NEW b \in failing,
                 DecisionState(Fingerprint(b), ds \cup {e}) = "BLOCKER"
          PROVE  FALSE
      <4>1. DecisionState(Fingerprint(b), ds) = "BLOCKER"
        BY <1>4, <1>13, <3>1
      <4>2. AdvisoryFinding(b, TRUE) \in with(ds)
        BY <4>1 DEF CheckFindings
      <4>3. AdvisoryFinding(b, TRUE).severity = "BLOCKING"
        BY DEF AdvisoryFinding, Finding
      <4>4. QED
        BY <2>1, <4>2, <4>3
    <3>2. QED
      BY <3>1
  <2>3. \A f \in with(ds \cup {e}) : f \in with(ds) \/ f.severity # "BLOCKING"
    BY <2>2 DEF CheckFindings, AdvisoryFinding, Finding
  <2>4. \A f \in after.findings : f.severity # "BLOCKING"
    BY <1>7, <2>1, <2>3
  <2>5. (\E f \in after.findings : f.severity = "DECISION_REQUIRED")
          <=> ~(OpenOf(after.findings) = {} /\ OtherOpen(after.findings) = {})
    BY DEF OpenOf, OtherOpen
  <2>6. QED
    BY <1>7, <2>4, <2>5 DEF StatusOf
<1>14. QED
  BY <1>9, <1>10, <1>11, <1>12, <1>13 DEF Settling
=============================================================================
