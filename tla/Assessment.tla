----------------------------- MODULE Assessment -----------------------------
(***************************************************************************)
(* The verdict on one release snapshot: assess and                         *)
(* refresh_snapshot_freshness of domain/assessment.py.                     *)
(*                                                                         *)
(* A snapshot is the frozen source window of one analysis:                 *)
(*   version         github_v1, or legacy for the demo fixture             *)
(*   fixture         it is the demo repository and holds no GitHub data    *)
(*   unlinked        (fixture) the code-change issue has no pull request   *)
(*   complete        both collection windows were whole and agreed         *)
(*   errors          the source errors the loader recorded                 *)
(*   candidate       the candidate commit, NoSha when it was not resolved  *)
(*   identity        repository and milestone are named                    *)
(*   matchesPolicy   milestone and candidate ref are the policy's          *)
(*   started, fetched  the fetch times, NoTime when there is none          *)
(*   checks          the check runs (module Checks)                        *)
(*   rest, restCodes findings and codes of the scope, blocker, operations  *)
(*                   and back-merge rules, which read neither the          *)
(*                   decisions nor the clock                               *)
(***************************************************************************)
EXTENDS Checks

CONSTANT
  MaxAge      \* MAX_SNAPSHOT_AGE, in ticks of the clock

ASSUME MaxAgeAssumption == MaxAge \in Nat

NoSha == "nosha"
NoTime == -1

ReleaseStatus == {"READY", "NEEDS_DECISION", "NOT_READY", "INSUFFICIENT_DATA"}

Plain(code) == Code(code, {})

(* The code when the condition holds, nothing otherwise.                   *)
If(condition, code) == IF condition THEN {Plain(code)} ELSE {}

(***************************************************************************)
(* _snapshot_error_codes: what makes the source window itself unfit, at    *)
(* the time the verdict is asked for.  The boundary belongs to the fresh   *)
(* side.                                                                   *)
(***************************************************************************)
TimeCodes(s, now) ==
  IF s.started = NoTime \/ s.fetched = NoTime
    THEN {Plain("snapshot.invalid_timestamps")}
  ELSE IF s.started > s.fetched \/ s.fetched > now
    THEN {Plain("snapshot.invalid_timestamps")}
  ELSE If(now - s.fetched > MaxAge, "snapshot.stale")

SnapshotCodes(s, now) ==
  If(s.version # "github_v1", "snapshot.invalid_version")
  \cup If(~s.complete, "snapshot.incomplete")
  \cup If(s.errors # {}, "snapshot.source_errors")
  \cup If(s.candidate = NoSha, "snapshot.invalid_candidate")
  \cup If(~s.identity, "snapshot.invalid_identity")
  \cup TimeCodes(s, now)

(***************************************************************************)
(* _prerequisite_error_codes of the check rule: with any of them the rule  *)
(* reports the code and no finding.                                        *)
(***************************************************************************)
CheckPrerequisites(s) ==
  If(s.version # "github_v1", "snapshot.invalid_version")
  \cup If(~s.complete, "snapshot.incomplete")
  \cup If(s.errors # {}, "snapshot.source_errors")
  \cup If(~s.matchesPolicy, "snapshot.policy_mismatch")
  \cup If(~s.identity, "snapshot.invalid_repository")
  \cup If(s.candidate = NoSha, "snapshot.invalid_candidate")
  \cup If(s.started = NoTime \/ s.fetched = NoTime \/ s.started > s.fetched,
          "snapshot.invalid_timestamps")

CheckRule(s, categories, ds) ==
  IF CheckPrerequisites(s) # {}
    THEN [findings |-> {}, codes |-> CheckPrerequisites(s)]
    ELSE EvaluateChecks(s.checks, s.candidate, categories, ds)

(* _insufficiency_findings: one finding per code.                          *)
InsufficiencyFindings(codes) ==
  {Finding("evidence", "INSUFFICIENT_DATA", code) : code \in codes}

(***************************************************************************)
(* The strict precedence: doubt about the evidence, then a blocker, then   *)
(* an open decision.                                                       *)
(***************************************************************************)
StatusOf(codes, findings) ==
  IF codes # {} THEN "INSUFFICIENT_DATA"
  ELSE IF \E f \in findings : f.severity = "BLOCKING" THEN "NOT_READY"
  ELSE IF \E f \in findings : f.severity = "DECISION_REQUIRED"
         THEN "NEEDS_DECISION"
  ELSE "READY"

AssessConfigured(s, categories, ds, now) ==
  LET rule     == CheckRule(s, categories, ds)
      codes    == SnapshotCodes(s, now) \cup rule.codes \cup s.restCodes
      findings == rule.findings \cup s.rest
  IN  [status   |-> StatusOf(codes, findings),
       findings |-> findings \cup InsufficiencyFindings(codes)]

(***************************************************************************)
(* A legacy snapshot is assessed only as the demo fixture, by its one rule *)
(* (assess_release); anything else of that version is insufficient.        *)
(***************************************************************************)
TrustedFixture(s) ==
  /\ s.fixture
  /\ s.complete
  /\ s.errors = {}
  /\ s.started = NoTime
  /\ s.fetched = NoTime
  /\ s.candidate = NoSha
  /\ s.checks = {}

AssessFixture(s) ==
  IF s.unlinked
    THEN [status   |-> "NOT_READY",
          findings |-> {Finding("scope.code_change_requires_pr", "BLOCKING",
                                Plain("issue"))}]
    ELSE [status |-> "READY", findings |-> {}]

AssessLegacy(s, now) ==
  IF TrustedFixture(s)
    THEN AssessFixture(s)
    ELSE [status   |-> "INSUFFICIENT_DATA",
          findings |-> InsufficiencyFindings(SnapshotCodes(s, now))]

Assess(s, categories, ds, now) ==
  IF s.version = "legacy" THEN AssessLegacy(s, now)
                          ELSE AssessConfigured(s, categories, ds, now)

(***************************************************************************)
(* refresh_snapshot_freshness: a stored verdict is read together with the  *)
(* age its source window has by now.                                       *)
(***************************************************************************)
RefreshNothing(assessment, s, now) == assessment

Refresh(assessment, s, now) ==
  LET codes == SnapshotCodes(s, now)
  IN  IF codes = {}
        THEN assessment
        ELSE [status   |-> "INSUFFICIENT_DATA",
              findings |-> assessment.findings \cup InsufficiencyFindings(codes)]

Fresh(s, now) == TimeCodes(s, now) = {}
=============================================================================
