------------------------------ MODULE Decisions ------------------------------
(***************************************************************************)
(* Analysis runs, the human decisions appended to them and the readers of  *)
(* the resulting verdict: AnalysisService.run and create_run, the decision *)
(* route with DecisionService and persist_decision, and the report route.  *)
(*                                                                         *)
(* A run is one COMPLETED row of analysis_runs with its frozen snapshot,   *)
(* the categories of the policy version it was assessed under, and the     *)
(* verdict reached without any decision.  decisions[r] holds its rows of   *)
(* human_decisions in the order of decision_sequence.  Requests run        *)
(* concurrently: a decision reads the clock, then waits for the row lock   *)
(* of its run, then loads the rows already there, and inserts its own.     *)
(***************************************************************************)
EXTENDS Assessment, Sequences

CONSTANTS
  Runs,        \* analysis run ids
  Snapshots,   \* the snapshots the loader may hand over
  Policies,    \* check categories of the configured policy versions
  Deciders,    \* concurrent decision requests
  Readers,     \* concurrent report requests
  NoOne,       \* the row lock is free
  MaxClock     \* bound on the clock

ASSUME ConstantsAssumption ==
  /\ NoOne \notin Deciders
  /\ MaxClock \in Nat

(* What every snapshot of the GitHub loader is: current version, with its  *)
(* fetch time or NoTime, and the rules other than the check rule never     *)
(* report an advisory finding.                                             *)
ASSUME SnapshotAssumption ==
  \A s \in Snapshots :
    /\ s.version = "github_v1"
    /\ s.fetched \in Int
    /\ \A f \in s.rest : f.rule # AdvisoryRule

VARIABLES
  clock,       \* the wall clock, read by every request
  run,         \* the stored runs: a function from their ids
  decisions,   \* the decision rows of each run, in sequence order
  lock,        \* the decision transaction holding each run's row lock
  pc,          \* where each decision request stands
  request,     \* what it asks for, with the time it read from the clock
  seen,        \* the decision rows its transaction has loaded
  report       \* what each report request has read, then answered

Nothing == [state |-> "none"]

vars == <<clock, run, decisions, lock, pc, request, seen, report>>

decider == <<lock, pc, request, seen>>

(* The row of analysis_runs, with its snapshot and its findings.           *)
RunRow(s, categories, verdict) ==
  [snapshot   |-> s,
   categories |-> categories,
   status     |-> verdict.status,
   findings   |-> verdict.findings]

(***************************************************************************)
(* A verdict is what a run row or a decision row stores.                   *)
(***************************************************************************)
Verdict(row) == [status |-> row.status, findings |-> row.findings]

(* _persisted_decision_status, and the override in get_run: the row of the *)
(* highest sequence speaks for the run.                                    *)
Latest(r, rows) ==
  IF rows = <<>> THEN Verdict(run[r]) ELSE Verdict(rows[Len(rows)])

Stored(r) == Latest(r, decisions[r])

(* _active_decisions: the rows no other row supersedes.                    *)
Active(rows) ==
  {k \in DOMAIN rows : \A j \in DOMAIN rows : rows[j].supersedes # k}

(* A row as the decision evaluate_checks is given.                         *)
AsDecision(row) == [fingerprint |-> row.fingerprint, blocks |-> row.blocks]

ActiveDecisions(rows) == {AsDecision(rows[k]) : k \in Active(rows)}

(* The active rows of one fingerprint (target_active).                     *)
Target(rows, f) == {k \in Active(rows) : rows[k].fingerprint = f}

NextSequence(rows) == Len(rows) + 1

(* DecisionService.record reads the clock once per decision.               *)
ReadClock == clock

(***************************************************************************)
(* reassess_stored_decision: the verdict before the decision, with the     *)
(* rows loaded, and after it, with its own fingerprint replaced.  Both are *)
(* reached at the time the request read from the clock.                    *)
(***************************************************************************)
Current(q, rows) ==
  Assess(run[q.run].snapshot, run[q.run].categories, ActiveDecisions(rows),
         q.decidedAt)

ReassessedAlone(q, rows) ==
  Assess(run[q.run].snapshot, run[q.run].categories, {AsDecision(q)},
         q.decidedAt)

Reassessed(q, rows) ==
  LET others == {d \in ActiveDecisions(rows) : d.fingerprint # q.fingerprint}
  IN  Assess(run[q.run].snapshot, run[q.run].categories,
             others \cup {AsDecision(q)}, q.decidedAt)

(* The conditions persist_decision answers with a conflict.                *)
ConflictWithoutReassessment(q, rows) ==
  \/ \E j, k \in Target(rows, q.fingerprint) : j # k
  \/ Latest(q.run, rows).status # "NEEDS_DECISION"

ConflictOnDuplicateOnly(q, rows) ==
  \E j, k \in Target(rows, q.fingerprint) : j # k

Conflict(q, rows) ==
  \/ \E j, k \in Target(rows, q.fingerprint) : j # k
  \/ Latest(q.run, rows).status # "NEEDS_DECISION"
  \/ Current(q, rows).status # "NEEDS_DECISION"

(* _decision_eligible: the finding asked about, still undecided.           *)
EligibleAsStored(q, rows) ==
  /\ q.finding.rule = AdvisoryRule
  /\ q.finding.subject = q.fingerprint
  /\ q.finding.severity = "DECISION_REQUIRED"
  /\ q.finding \in run[q.run].findings

Eligible(q, rows) ==
  /\ q.finding.rule = AdvisoryRule
  /\ q.finding.subject = q.fingerprint
  /\ q.finding.severity = "DECISION_REQUIRED"
  /\ q.finding \in Current(q, rows).findings

NewRow(q, rows) ==
  LET target == Target(rows, q.fingerprint)
      after  == Reassessed(q, rows)
  IN  [fingerprint |-> q.fingerprint,
       blocks      |-> q.blocks,
       decidedAt   |-> q.decidedAt,
       supersedes  |-> IF target = {} THEN 0 ELSE CHOOSE k \in target : TRUE,
       status      |-> after.status,
       findings    |-> after.findings]

(***************************************************************************)
(* The wall clock.  It does not run backwards: the one assumption made on  *)
(* the hosts' time.                                                        *)
(***************************************************************************)
Tick ==
  /\ clock < MaxClock
  /\ clock' = clock + 1
  /\ UNCHANGED <<run, decisions, decider, report>>

(***************************************************************************)
(* POST /api/analyses: a snapshot collected up to now is assessed without  *)
(* decisions, and snapshot, findings and verdict are stored in one         *)
(* transaction.                                                            *)
(***************************************************************************)
CreateRun(r) ==
  /\ r \notin DOMAIN run
  /\ \E s \in Snapshots, categories \in Policies :
       LET verdict == Assess(s, categories, {}, clock)
       IN  /\ s.fetched <= clock
           /\ run' = [x \in DOMAIN run \cup {r} |->
                        IF x = r THEN RunRow(s, categories, verdict) ELSE run[x]]
  /\ UNCHANGED <<clock, decisions, decider, report>>

(***************************************************************************)
(* POST /api/analyses/{run}/decisions.  The request names a stored finding *)
(* of the run and the fingerprint of one of its checks, and reads the      *)
(* clock before the transaction begins.                                    *)
(***************************************************************************)
Submit(d, r) ==
  /\ pc[d] = "idle"
  /\ r \in DOMAIN run
  /\ \E f \in run[r].findings, c \in run[r].snapshot.checks, blocks \in BOOLEAN :
       request' = [request EXCEPT ![d] =
                     [run |-> r, finding |-> f, fingerprint |-> Fingerprint(c),
                      blocks |-> blocks, decidedAt |-> ReadClock]]
  /\ pc' = [pc EXCEPT ![d] = "waiting"]
  /\ UNCHANGED <<clock, run, decisions, lock, seen, report>>

(* SELECT ... FOR UPDATE on the run, and the loads that follow it.         *)
Acquire(d) ==
  LET r == request[d].run
  IN  /\ pc[d] = "waiting"
      /\ lock[r] = NoOne
      /\ lock' = [lock EXCEPT ![r] = d]
      /\ seen' = [seen EXCEPT ![d] = decisions[r]]
      /\ pc' = [pc EXCEPT ![d] = "locked"]
      /\ UNCHANGED <<clock, run, decisions, request, report>>

(* The row locks left when the transaction of d has ended.                 *)
ReleasedNever(d) == lock

Released(d) == [r \in Runs |-> IF lock[r] = d THEN NoOne ELSE lock[r]]

(* The transaction ends, its lock is released and the caller is answered.  *)
Finish(d) ==
  /\ pc' = [pc EXCEPT ![d] = "idle"]
  /\ lock' = Released(d)
  /\ request' = [request EXCEPT ![d] = Nothing]
  /\ seen' = [seen EXCEPT ![d] = <<>>]
  /\ UNCHANGED <<clock, run, report>>

(* The row is inserted; (run, decision_sequence) is unique in the table.   *)
Insert(d) ==
  LET q == request[d]
  IN  /\ pc[d] = "locked"
      /\ Finish(d)
      /\ ~Conflict(q, seen[d])
      /\ Eligible(q, seen[d])
      /\ NextSequence(seen[d]) = Len(decisions[q.run]) + 1
      /\ decisions' = [decisions EXCEPT ![q.run] =
                         Append(@, NewRow(q, seen[d]))]

(* A DecisionConflictError, or else a DecisionFindingNotFoundError.        *)
Reject(d) ==
  /\ pc[d] = "locked"
  /\ Finish(d)
  /\ UNCHANGED decisions
  /\ Conflict(request[d], seen[d]) \/ ~Eligible(request[d], seen[d])

(* A database error, a lost connection or a crash rolls everything back.   *)
Abort(d) ==
  /\ pc[d] \in {"waiting", "locked"}
  /\ Finish(d)
  /\ UNCHANGED decisions

(* The three ways a transaction that holds the lock ends.                  *)
Settle(d) == pc[d] = "locked" /\ (Abort(d) \/ Reject(d) \/ Insert(d))

(***************************************************************************)
(* GET /api/analyses/{run}: the rows are read, access is checked, and only *)
(* then is the clock read and the verdict refreshed and answered.          *)
(***************************************************************************)
Read(c, r) ==
  /\ report[c].state # "read"
  /\ r \in DOMAIN run
  /\ report' = [report EXCEPT ![c] =
                  [state |-> "read", run |-> r, verdict |-> Stored(r)]]
  /\ UNCHANGED <<clock, run, decisions, decider>>

Respond(c) ==
  LET r == report[c].run
  IN  /\ report[c].state = "read"
      /\ report' = [report EXCEPT ![c] =
                      [state |-> "shown", run |-> r,
                       status |-> Refresh(report[c].verdict, run[r].snapshot,
                                          clock).status]]
      /\ UNCHANGED <<clock, run, decisions, decider>>

Init ==
  /\ clock = 0
  /\ run = [r \in {} |-> {}]
  /\ decisions = [r \in Runs |-> <<>>]
  /\ lock = [r \in Runs |-> NoOne]
  /\ pc = [d \in Deciders |-> "idle"]
  /\ request = [d \in Deciders |-> Nothing]
  /\ seen = [d \in Deciders |-> <<>>]
  /\ report = [c \in Readers |-> Nothing]

Next ==
  \/ Tick
  \/ \E r \in Runs : CreateRun(r)
  \/ \E d \in Deciders, r \in Runs : Submit(d, r)
  \/ \E d \in Deciders : Acquire(d) \/ Insert(d) \/ Reject(d) \/ Abort(d)
  \/ \E c \in Readers : (\E r \in Runs : Read(c, r)) \/ Respond(c)

Spec == Init /\ [][Next]_vars

(***************************************************************************)
(* Row locks are queued by PostgreSQL, so a request that keeps waiting is  *)
(* served; a transaction that holds the lock always ends, if only by its   *)
(* failure.                                                                *)
(***************************************************************************)
Fairness ==
  \A d \in Deciders : /\ SF_vars(Acquire(d))
                       /\ WF_vars(Settle(d))

FairSpec == Spec /\ Fairness

-----------------------------------------------------------------------------
(***************************************************************************)
(* The shape of the state.                                                 *)
(***************************************************************************)
StoredTypes ==
  /\ clock \in 0..MaxClock
  /\ DOMAIN run \subseteq Runs
  /\ \A r \in DOMAIN run : /\ run[r].snapshot \in Snapshots
                            /\ run[r].snapshot.fetched <= clock
                            /\ run[r].categories \in Policies
                            /\ run[r].status \in ReleaseStatus
  /\ DOMAIN decisions = Runs
  /\ \A r \in Runs : \A k \in DOMAIN decisions[r] :
       /\ decisions[r][k].blocks \in BOOLEAN
       /\ decisions[r][k].decidedAt \in 0..clock
       /\ decisions[r][k].status \in ReleaseStatus

TypeOK ==
  /\ StoredTypes
  /\ lock \in [Runs -> Deciders \cup {NoOne}]
  /\ pc \in [Deciders -> {"idle", "waiting", "locked"}]
  /\ \A d \in Deciders :
       pc[d] # "idle" => /\ request[d].run \in DOMAIN run
                         /\ request[d].decidedAt \in 0..clock

(***************************************************************************)
(* A fingerprint is decided at most once in a run, so that no row ever     *)
(* supersedes another: of the requests that race to decide one finding,    *)
(* one wins, whatever they had seen of the run before they waited for its  *)
(* lock (persist_decision).                                                *)
(***************************************************************************)
DecidedOnce ==
  \A r \in Runs : \A j, k \in DOMAIN decisions[r] :
    /\ decisions[r][k].supersedes = 0
    /\ decisions[r][j].fingerprint = decisions[r][k].fingerprint => j = k

(***************************************************************************)
(* The decision rows are a serial history: the verdict stored with each    *)
(* row is the assessment of the run's own snapshot and policy under that   *)
(* row and every row before it, at the time the decision was made.         *)
(***************************************************************************)
DecidedBy(rows, k) == {AsDecision(rows[j]) : j \in 1..k}

SerialHistory ==
  \A r \in DOMAIN run : \A k \in DOMAIN decisions[r] :
    Verdict(decisions[r][k]) =
      Assess(run[r].snapshot, run[r].categories,
             DecidedBy(decisions[r], k),
             decisions[r][k].decidedAt)

(***************************************************************************)
(* READY is earned.  However the decisions of a run interleaved, a run     *)
(* whose stored verdict is READY rests on whole evidence, every configured *)
(* blocking check ran once and succeeded on the candidate, every check is  *)
(* classified, every advisory check succeeded or had its very evidence     *)
(* accepted, nobody marked anything a release blocker, and no other rule   *)
(* found a blocker.                                                        *)
(***************************************************************************)
Undisputed(s, c) ==
  /\ c.sha = s.candidate
  /\ \A d \in s.checks : d.name = c.name \/ d.run = c.run => d = c

Accepted(r, c) ==
  \E k \in DOMAIN decisions[r] :
    decisions[r][k].fingerprint = Fingerprint(c) /\ ~decisions[r][k].blocks

Earned(r) ==
  LET s == run[r].snapshot
      categories == run[r].categories
  IN  /\ s.complete /\ s.errors = {} /\ s.candidate # NoSha
      /\ s.restCodes = {}
      /\ \A f \in s.rest : f.severity # "BLOCKING"
      /\ \A n \in DOMAIN categories :
           categories[n] = "BLOCKING" =>
             \E c \in s.checks : c.name = n /\ Success(c)
      /\ \A c \in s.checks :
           /\ c.name \in DOMAIN categories
           /\ Undisputed(s, c)
           /\ categories[c.name] = "BLOCKING" => Success(c)
           /\ categories[c.name] = "ADVISORY" => Success(c) \/ Accepted(r, c)
      /\ \A k \in DOMAIN decisions[r] : ~decisions[r][k].blocks

ReadyIsEarned ==
  \A r \in DOMAIN run : Stored(r).status = "READY" => Earned(r)

(***************************************************************************)
(* What the proofs add to make these inductive.  A transaction that holds  *)
(* a row lock has loaded every row of the run; a run is the assessment of  *)
(* its snapshot at some time; every row decides a failed advisory check of *)
(* the run; a report still being answered read no more than was stored.    *)
(***************************************************************************)
RequestsAreOfRuns ==
  \A d \in Deciders :
    pc[d] # "idle" =>
      /\ request[d].run \in DOMAIN run
      /\ request[d].fingerprint \in
           {Fingerprint(c) : c \in run[request[d].run].snapshot.checks}
      /\ request[d].blocks \in BOOLEAN
      /\ request[d].decidedAt \in 0..clock

LockDiscipline ==
  \A d \in Deciders :
    /\ pc[d] = "locked" => /\ lock[request[d].run] = d
                           /\ seen[d] = decisions[request[d].run]
    /\ \A r \in Runs : lock[r] = d => pc[d] = "locked" /\ request[d].run = r

RunsAreAssessed ==
  /\ \A r \in Runs \ DOMAIN run : decisions[r] = <<>>
  /\ \A r \in DOMAIN run : \E t \in 0..clock :
       Verdict(run[r]) = Assess(run[r].snapshot, run[r].categories, {}, t)

DecisionsAreEligible ==
  \A r \in DOMAIN run : \A k \in DOMAIN decisions[r] :
    \E c \in Failing(run[r].snapshot.checks, run[r].snapshot.candidate,
                     run[r].categories, "ADVISORY") :
      decisions[r][k].fingerprint = Fingerprint(c)

ReportsWereStored ==
  \A c \in Readers :
    report[c].state = "read" =>
      /\ report[c].run \in DOMAIN run
      /\ report[c].verdict.status = "READY" =>
           Stored(report[c].run) = report[c].verdict

(***************************************************************************)
(* A decision is only ever made on evidence that is fresh at the time it   *)
(* carries, and never leaves a run with insufficient data: the verdicts of *)
(* the decision rows are NEEDS_DECISION, then READY or NOT_READY.          *)
(***************************************************************************)
DecidedOnFreshEvidence ==
  \A r \in DOMAIN run : \A k \in DOMAIN decisions[r] :
    /\ Fresh(run[r].snapshot, decisions[r][k].decidedAt)
    /\ decisions[r][k].status # "INSUFFICIENT_DATA"

(***************************************************************************)
(* A run that no longer needs a decision keeps its verdict for good, and   *)
(* no step rewrites or removes a row of its history.                       *)
(***************************************************************************)
Settled ==
  \A r \in DOMAIN run :
    /\ r \in DOMAIN run'
    /\ run'[r] = run[r]
    /\ \A k \in DOMAIN decisions[r] :
         k \in DOMAIN decisions'[r] /\ decisions'[r][k] = decisions[r][k]
    /\ Stored(r).status # "NEEDS_DECISION" => decisions'[r] = decisions[r]

VerdictIsFinal == [][Settled]_vars

(***************************************************************************)
(* A report that says READY is true when it is given, although the run was *)
(* read earlier: the run is still READY and its evidence still fresh.      *)
(***************************************************************************)
ShownReady ==
  \A c \in Readers, r \in DOMAIN run :
    /\ report[c].state = "read"
    /\ report'[c] = [state |-> "shown", run |-> r, status |-> "READY"]
    => Stored(r).status = "READY" /\ Fresh(run[r].snapshot, clock)

ReadyIsStillTrue == [][ShownReady]_vars

(***************************************************************************)
(* Every decision request is answered: waiting for a row lock ends, with   *)
(* the decision recorded, rejected or rolled back.                         *)
(***************************************************************************)
Answered == \A d \in Deciders : pc[d] = "waiting" ~> pc[d] = "idle"

(***************************************************************************)
(* What docs/portfolio/architecture.md:126 says of a decision: a stale run *)
(* rejects it.                                                             *)
(***************************************************************************)
StaleRunRejectsDecision ==
  [][\A r \in DOMAIN run :
       decisions'[r] # decisions[r] => Fresh(run[r].snapshot, clock)]_vars

(***************************************************************************)
(* The lifecycle implements RunVerdict: every insertion of a decision row  *)
(* accepts or blocks exactly one finding that is still open, and every     *)
(* other step of a request leaves all verdicts alone.                      *)
(***************************************************************************)
AllFingerprints == UNION {{Fingerprint(c) : c \in s.checks} : s \in Snapshots}

OpenFindings(r) ==
  {f \in Stored(r).findings :
     f.rule = AdvisoryRule /\ f.severity = "DECISION_REQUIRED"}

Unclassified(r) ==
  \E f \in Stored(r).findings :
    f.rule # AdvisoryRule /\ f.severity = "DECISION_REQUIRED"

statusBar ==
  [r \in Runs |-> IF r \in DOMAIN run THEN Stored(r).status ELSE "none"]

openBar ==
  [r \in Runs |-> IF r \in DOMAIN run
                    THEN {f.subject : f \in OpenFindings(r)} ELSE {}]

unclassifiedBar == [r \in Runs |-> r \in DOMAIN run /\ Unclassified(r)]

Abstract == INSTANCE RunVerdict
              WITH Findings <- AllFingerprints, status <- statusBar,
                   open <- openBar, unclassified <- unclassifiedBar

ImplementsRunVerdict == Abstract!Spec
=============================================================================
