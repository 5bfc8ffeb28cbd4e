------------------------------- MODULE Checks -------------------------------
(***************************************************************************)
(* The CI-check rule family: evaluate_checks of domain/rules/checks.py.    *)
(*                                                                         *)
(* A check record is one GitHub check run as the snapshot holds it:        *)
(*   run         the check-run id                                          *)
(*   name        the displayed check name                                  *)
(*   sha         the commit the run was made for                           *)
(*   status      queued, in_progress, completed, ...                       *)
(*   conclusion  success, failure, ..., or None while it is not completed  *)
(*   identified  source id, canonical name and evidence URL agree with     *)
(*               run and name                                              *)
(*   timed       started_at and completed_at are aware, ordered, not after *)
(*               the snapshot, and present where the status needs them     *)
(* The last two stand for the field-by-field comparisons of                *)
(* _is_valid_identity and _is_valid_matrix that no property tells apart.   *)
(*                                                                         *)
(* The snapshot's checks are a set: the code deduplicates the records by   *)
(* their canonical JSON before it looks at them.  Nothing here counts or   *)
(* recurses, so that the operators can be expanded in proofs.              *)
(***************************************************************************)
EXTENDS Integers

(***************************************************************************)
(* What GitHub may say of a check run.                                     *)
(***************************************************************************)
None == "none"

Statuses == {"queued", "in_progress", "completed", "waiting", "requested",
             "pending"}

Conclusions == {"action_required", "cancelled", "failure", "neutral",
                "success", "skipped", "stale", "startup_failure", "timed_out"}

(***************************************************************************)
(* The fingerprint a human decision is bound to: the facts digested by     *)
(* CheckFingerprint.value.  The status and the timestamps of the run are   *)
(* not among them.                                                         *)
(***************************************************************************)
Fingerprint(c) == [sha |-> c.sha, name |-> c.name, run |-> c.run,
                   conclusion |-> c.conclusion]

IsFingerprint(f) ==
  DOMAIN f = {"sha", "name", "run", "conclusion"}

Success(c) == c.status = "completed" /\ c.conclusion = "success"

(***************************************************************************)
(* _is_valid_identity and _is_valid_matrix.                                *)
(***************************************************************************)
ValidIdentity(candidate, c) ==
  /\ c.run > 0
  /\ c.identified
  /\ c.sha = candidate

ValidMatrix(c) ==
  /\ c.status \in Statuses
  /\ c.timed
  /\ IF c.status = "completed"
       THEN c.conclusion \in Conclusions
       ELSE c.conclusion = None

(***************************************************************************)
(* _analyze_evidence: two different records of one run id, a record that   *)
(* is not valid, and then two remaining records of one name are put aside; *)
(* the rule never picks the favourable one.                                *)
(***************************************************************************)
ConflictingRun(cs, c) ==
  c.run > 0 /\ \E d \in cs : d # c /\ d.run = c.run

Sound(cs, candidate, c) ==
  ~ConflictingRun(cs, c) /\ ValidIdentity(candidate, c) /\ ValidMatrix(c)

ConflictingNameIgnored(cs, candidate, c) == FALSE

ConflictingName(cs, candidate, c) ==
  /\ Sound(cs, candidate, c)
  /\ \E d \in cs : d # c /\ d.name = c.name /\ Sound(cs, candidate, d)

Quarantined(cs, candidate) ==
  {c \in cs : ~Sound(cs, candidate, c) \/ ConflictingName(cs, candidate, c)}

Usable(cs, candidate) == cs \ Quarantined(cs, candidate)

Code(code, at) == [code |-> code, at |-> at]

EvidenceCodes(cs, candidate) ==
  {Code("check.conflicting_run", {c.run}) :
     c \in {d \in cs : ConflictingRun(cs, d)}}
  \cup
  {Code("check.invalid_identity", {c.run}) :
     c \in {d \in cs : ~ConflictingRun(cs, d) /\ ~ValidIdentity(candidate, d)}}
  \cup
  {Code("check.invalid_matrix", {c.run}) :
     c \in {d \in cs : ~ConflictingRun(cs, d) /\ ~ValidMatrix(d)}}
  \cup
  {Code("check.conflicting_name",
        {d.run : d \in {e \in cs : e.name = c.name /\ Sound(cs, candidate, e)}}) :
     c \in {d \in cs : ConflictingName(cs, candidate, d)}}

(***************************************************************************)
(* _decision_state over the current decisions, each the fingerprint it is  *)
(* bound to and whether it blocks the release.                             *)
(***************************************************************************)
DecisionStateAnyAccepts(f, ds) ==
  IF \E d \in ds : d.fingerprint = f THEN "ACCEPTED" ELSE "NONE"

DecisionState(f, ds) ==
  LET outcomes == {d.blocks : d \in {e \in ds : e.fingerprint = f}}
  IN  IF \E d \in ds : ~IsFingerprint(d.fingerprint) THEN "INVALID"
      ELSE IF outcomes = {}            THEN "NONE"
      ELSE IF outcomes = {TRUE, FALSE} THEN "CONFLICTING"
      ELSE IF outcomes = {TRUE}        THEN "BLOCKER"
      ELSE                                  "ACCEPTED"

(***************************************************************************)
(* The findings.  subject stands for the evidence and the wording, which   *)
(* are a function of it.                                                   *)
(***************************************************************************)
Finding(rule, severity, subject) ==
  [rule |-> rule, severity |-> severity, subject |-> subject]

BlockingFinding(c) ==
  Finding("checks.blocking_not_successful", "BLOCKING", Fingerprint(c))

MissingBlockingFinding(candidate, name) ==
  Finding("checks.blocking_not_successful", "BLOCKING",
          [sha |-> candidate, missing |-> name])

AdvisoryRule == "checks.advisory_requires_decision"

AdvisoryFinding(c, blocker) ==
  Finding(AdvisoryRule,
          IF blocker THEN "BLOCKING" ELSE "DECISION_REQUIRED", Fingerprint(c))

UnknownFinding(c) ==
  Finding("checks.unknown_requires_classification", "DECISION_REQUIRED",
          Fingerprint(c))

(***************************************************************************)
(* evaluate_checks.  categories is the policy's classification: a function *)
(* whose domain is the set of configured check names.                      *)
(***************************************************************************)
Classified(categories, c, category) ==
  c.name \in DOMAIN categories /\ categories[c.name] = category

(* The usable checks of a category that did not succeed.                   *)
Failing(cs, candidate, categories, category) ==
  {c \in Usable(cs, candidate) :
     Classified(categories, c, category) /\ ~Success(c)}

MissingNames(cs, candidate, categories) ==
  {n \in DOMAIN categories :
     /\ categories[n] = "BLOCKING"
     /\ \A c \in cs : c.name # n}

CheckFindings(cs, candidate, categories, ds) ==
  LET advisory(state) ==
        {c \in Failing(cs, candidate, categories, "ADVISORY") :
           DecisionState(Fingerprint(c), ds) = state}
  IN  {BlockingFinding(c) : c \in Failing(cs, candidate, categories, "BLOCKING")}
      \cup {AdvisoryFinding(c, FALSE) : c \in advisory("NONE")}
      \cup {AdvisoryFinding(c, TRUE) : c \in advisory("BLOCKER")}
      \cup {UnknownFinding(c) : c \in {d \in Usable(cs, candidate) :
                                         d.name \notin DOMAIN categories}}
      \cup {MissingBlockingFinding(candidate, n) :
              n \in MissingNames(cs, candidate, categories)}

DecisionCodes(cs, candidate, categories, ds) ==
  LET advisory(state) ==
        {c \in Failing(cs, candidate, categories, "ADVISORY") :
           DecisionState(Fingerprint(c), ds) = state}
  IN  {Code("decision.conflicting", {c.run}) : c \in advisory("CONFLICTING")}
      \cup {Code("decision.invalid", {c.run}) : c \in advisory("INVALID")}

(* Both what evaluate_checks returns and what its CheckEvidenceError holds. *)
EvaluateChecks(cs, candidate, categories, ds) ==
  [findings |-> CheckFindings(cs, candidate, categories, ds),
   codes    |-> EvidenceCodes(cs, candidate)
                  \cup DecisionCodes(cs, candidate, categories, ds)]
=============================================================================
