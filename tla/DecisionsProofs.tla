---------------------------- MODULE DecisionsProofs ----------------------------
(***************************************************************************)
(* Proofs of the safety properties of module Decisions, for every number   *)
(* of runs, requests and readers, every set of snapshots and policies and  *)
(* every clock bound.  The inductive invariant IInv adds to the properties *)
(* what a request knows while it holds the row lock of its run: the lock   *)
(* is what makes the verdict it reassesses the verdict of the row it       *)
(* inserts.                                                                *)
(***************************************************************************)
EXTENDS Decisions, AssessmentProofs

Taken(rows) == DecidedBy(rows, Len(rows))

(* The rows a decision table may hold.                                     *)
AllChoices == [fingerprint : AllFingerprints, blocks : BOOLEAN]

AllFindingSets ==
  {Assess(x[1], x[2], x[3], x[4]).findings :
     x \in Snapshots \X Policies \X (SUBSET AllChoices) \X Nat}

Row == [fingerprint : AllFingerprints, blocks : BOOLEAN, decidedAt : Nat,
        supersedes : Nat, status : ReleaseStatus, findings : AllFindingSets]

(* What is stored, what the requests know, what the readers know.          *)
StoredPart ==
  /\ StoredTypes
  /\ decisions \in [Runs -> Seq(Row)]
  /\ RunsAreAssessed
  /\ DecisionsAreEligible
  /\ DecidedOnce
  /\ SerialHistory
  /\ DecidedOnFreshEvidence

RequestPart ==
  /\ lock \in [Runs -> Deciders \cup {NoOne}]
  /\ pc \in [Deciders -> {"idle", "waiting", "locked"}]
  /\ DOMAIN request = Deciders
  /\ DOMAIN seen = Deciders
  /\ RequestsAreOfRuns
  /\ LockDiscipline

ReportPart ==
  /\ DOMAIN report = Readers
  /\ ReportsWereStored

IInv == StoredPart /\ RequestPart /\ ReportPart

-----------------------------------------------------------------------------
(***************************************************************************)
(* Every stored run is one of a collected snapshot.                        *)
(***************************************************************************)
LEMMA RunsAreCollected ==
  ASSUME StoredTypes, NEW r \in DOMAIN run
  PROVE  Collected(run[r].snapshot)
BY SnapshotAssumption DEF StoredTypes, Collected, FromGitHub

(***************************************************************************)
(* The verdict of a collected snapshot is a record of its two fields, the  *)
(* status being one of the four.                                           *)
(***************************************************************************)
LEMMA AssessIsVerdict ==
  ASSUME NEW s, NEW categories, NEW ds, NEW now, Collected(s)
  PROVE  /\ Assess(s, categories, ds, now) =
              [status   |-> Assess(s, categories, ds, now).status,
               findings |-> Assess(s, categories, ds, now).findings]
         /\ Assess(s, categories, ds, now).status \in ReleaseStatus
<1>1. Assess(s, categories, ds, now).status \in ReleaseStatus
  BY AssessUnfolded, StatusIsReleaseStatus DEF Collected
<1>2. QED
  BY <1>1 DEF Collected, FromGitHub, Assess, AssessConfigured

(***************************************************************************)
(* While no row supersedes another every row is active (_active_decisions).*)
(***************************************************************************)
LEMMA AllActive ==
  ASSUME NEW rows \in Seq(Row), \A k \in DOMAIN rows : rows[k].supersedes = 0
  PROVE  ActiveDecisions(rows) = Taken(rows)
<1>1. Active(rows) = 1..Len(rows)
  BY DEF Active
<1>2. QED
  BY <1>1 DEF ActiveDecisions, Taken, DecidedBy

(***************************************************************************)
(* The decisions of a history are those of its rows.                       *)
(***************************************************************************)
LEMMA TakenRows ==
  ASSUME NEW rows \in Seq(Row)
  PROVE  /\ Taken(rows) \subseteq AllChoices
         /\ \A k \in DOMAIN rows : AsDecision(rows[k]) \in Taken(rows)
         /\ \A k \in DOMAIN rows :
              /\ AsDecision(rows[k]).fingerprint = rows[k].fingerprint
              /\ AsDecision(rows[k]).blocks = rows[k].blocks
<1>1. DOMAIN rows = 1..Len(rows) /\ \A k \in DOMAIN rows : rows[k] \in Row
  OBVIOUS
<1>2. \A row \in Row : AsDecision(row) \in AllChoices
  BY DEF AsDecision, AllChoices, Row
<1>3. Taken(rows) \subseteq AllChoices
  BY <1>1, <1>2 DEF Taken, DecidedBy
<1>4. QED
  BY <1>1, <1>3 DEF Taken, DecidedBy, AsDecision

(***************************************************************************)
(* Appending a row to one run's history keeps its other rows and the other *)
(* runs'.                                                                  *)
(***************************************************************************)
LEMMA Appended ==
  ASSUME NEW table \in [Runs -> Seq(Row)], NEW r \in Runs, NEW row \in Row
  PROVE  LET after == [table EXCEPT ![r] = Append(@, row)]
         IN  /\ after \in [Runs -> Seq(Row)]
             /\ \A x \in Runs : x # r => after[x] = table[x]
             /\ DOMAIN table[r] = 1..Len(table[r])
             /\ Len(table[r]) \in Nat
             /\ Len(after[r]) = Len(table[r]) + 1
             /\ DOMAIN after[r] = 1..(Len(table[r]) + 1)
             /\ \A k \in 1..Len(table[r]) : after[r][k] = table[r][k]
             /\ after[r][Len(table[r]) + 1] = row
<1> DEFINE after == [table EXCEPT ![r] = Append(@, row)]
<1>1. table[r] \in Seq(Row)
  OBVIOUS
<1>2. after[r] = Append(table[r], row) /\ Append(table[r], row) \in Seq(Row)
  BY <1>1
<1>3. after \in [Runs -> Seq(Row)] /\ \A x \in Runs : x # r => after[x] = table[x]
  BY <1>2
<1>4. QED
  BY <1>1, <1>2, <1>3

-----------------------------------------------------------------------------
(***************************************************************************)
(* What persist_decision knows of the row it is about to insert, under the *)
(* row lock: it is the first row of its fingerprint, that of a failed      *)
(* advisory check, and its verdict is the assessment under every row       *)
(* before it and its own.                                                  *)
(***************************************************************************)
Settles(q, rows) ==
  LET s == run[q.run].snapshot
      categories == run[q.run].categories
      row == NewRow(q, rows)
  IN  /\ \A k \in DOMAIN rows : rows[k].fingerprint # q.fingerprint
      /\ \E c \in Failing(s.checks, s.candidate, categories, "ADVISORY") :
           /\ q.fingerprint = Fingerprint(c)
           /\ q.finding = AdvisoryFinding(c, FALSE)
           /\ Settling(s, categories, Taken(rows), AsDecision(q), c, q.decidedAt)
      /\ q.finding \in OpenOf(Assess(s, categories, Taken(rows), q.decidedAt).findings)
      /\ row \in Row
      /\ row.fingerprint = q.fingerprint
      /\ row.blocks = q.blocks
      /\ row.decidedAt = q.decidedAt
      /\ row.supersedes = 0
      /\ Verdict(row) =
           Assess(s, categories, Taken(rows) \cup {AsDecision(q)}, q.decidedAt)
      /\ row.status # "INSUFFICIENT_DATA"
      /\ Fresh(s, q.decidedAt)
      /\ Latest(q.run, rows).status = "NEEDS_DECISION"
      /\ Assess(s, categories, Taken(rows), q.decidedAt).status = "NEEDS_DECISION"

(* What an inserted row does to the verdict of its run (persist_decision). *)
LEMMA InsertSettles ==
  ASSUME IInv, NEW d \in Deciders, pc[d] = "locked",
         ~Conflict(request[d], seen[d]), Eligible(request[d], seen[d])
  PROVE  Settles(request[d], decisions[request[d].run])
<1> DEFINE q == request[d]
           rows == decisions[q.run]
           s == run[q.run].snapshot
           categories == run[q.run].categories
           before == Assess(s, categories, Taken(rows), q.decidedAt)
           row == NewRow(q, rows)
<1>1. /\ q.run \in DOMAIN run /\ q.run \in Runs
      /\ q.fingerprint \in {Fingerprint(c) : c \in s.checks}
      /\ q.blocks \in BOOLEAN
      /\ q.decidedAt \in Nat
  BY DEF IInv, StoredPart, RequestPart, RequestsAreOfRuns, StoredTypes
<1>2. seen[d] = rows
  BY DEF IInv, RequestPart, LockDiscipline
<1>3. Collected(s) /\ s \in Snapshots /\ categories \in Policies
  BY <1>1, RunsAreCollected DEF IInv, StoredPart, StoredTypes
<1>4. rows \in Seq(Row)
  BY <1>1 DEF IInv, StoredPart
<1>5. ActiveDecisions(rows) = Taken(rows)
  BY <1>1, <1>4, AllActive DEF IInv, StoredPart, DecidedOnce
<1>6. Current(q, rows) = before
  BY <1>5 DEF Current
<1>7. before.status = "NEEDS_DECISION" /\ Latest(q.run, rows).status = "NEEDS_DECISION"
  BY <1>2, <1>6 DEF Conflict
<1>8. /\ q.finding \in before.findings
      /\ q.finding.rule = AdvisoryRule
      /\ q.finding.severity = "DECISION_REQUIRED"
      /\ q.finding.subject = q.fingerprint
  BY <1>2, <1>6 DEF Eligible
<1>9. /\ DecidableIn(s, categories, Taken(rows), q.finding)
      /\ \A e \in Taken(rows) : e.fingerprint # q.fingerprint
  BY <1>3, <1>8, OpenMeansUndecided
<1>10. \A k \in DOMAIN rows : rows[k].fingerprint # q.fingerprint
  BY <1>4, <1>9, TakenRows
<1>11. PICK c \in Failing(s.checks, s.candidate, categories, "ADVISORY") :
         q.fingerprint = Fingerprint(c) /\ q.finding = AdvisoryFinding(c, FALSE)
  BY <1>8, <1>9 DEF DecidableIn
<1>12. Target(rows, q.fingerprint) = {}
  BY <1>10 DEF Target, Active
<1>13. {e \in ActiveDecisions(rows) : e.fingerprint # q.fingerprint} = Taken(rows)
  BY <1>5, <1>9
<1> DEFINE after == Assess(s, categories, Taken(rows) \cup {AsDecision(q)}, q.decidedAt)
<1>14. Reassessed(q, rows) = after
  BY <1>13 DEF Reassessed
<1>15. row = [fingerprint |-> q.fingerprint, blocks |-> q.blocks,
              decidedAt |-> q.decidedAt, supersedes |-> 0,
              status |-> after.status, findings |-> after.findings]
  BY <1>12, <1>14 DEF NewRow
<1>16. Settling(s, categories, Taken(rows), AsDecision(q), c, q.decidedAt)
  <2>1. /\ AsDecision(q).fingerprint = Fingerprint(c)
        /\ AsDecision(q).blocks \in BOOLEAN
        /\ \A x \in Taken(rows) : x.fingerprint # AsDecision(q).fingerprint
    BY <1>1, <1>9, <1>11 DEF AsDecision
  <2> HIDE DEF q, rows, s, categories
  <2>2. QED
    BY <1>3, <1>7, <1>11, <2>1, DecidingOnce
<1>17. row \in Row
  <2>1. q.fingerprint \in AllFingerprints
    BY <1>1, <1>3 DEF AllFingerprints
  <2>2. Taken(rows) \cup {AsDecision(q)} \in SUBSET AllChoices
    <3>1. AsDecision(q) \in AllChoices
      BY <1>1, <2>1 DEF AsDecision, AllChoices
    <3>2. QED
      BY <1>4, <3>1, TakenRows
  <2>3. after.findings \in AllFindingSets
    <3> DEFINE x == <<s, categories, Taken(rows) \cup {AsDecision(q)}, q.decidedAt>>
    <3>1. x \in Snapshots \X Policies \X (SUBSET AllChoices) \X Nat
      BY <1>1, <1>3, <2>2
    <3>2. after.findings = Assess(x[1], x[2], x[3], x[4]).findings
      OBVIOUS
    <3> HIDE DEF x
    <3>3. QED
      BY <3>1, <3>2 DEF AllFindingSets
  <2>4. after.status \in ReleaseStatus
    BY <1>3, AssessIsVerdict
  <2>5. QED
    BY <1>1, <1>15, <2>1, <2>3, <2>4 DEF Row
<1>18. Verdict(row) = after
  <2>1. after = [status |-> after.status, findings |-> after.findings]
    BY <1>3, AssessIsVerdict
  <2>2. QED
    BY <1>15, <2>1 DEF Verdict
<1>19. Fresh(s, q.decidedAt)
  <2>1. SnapshotCodes(s, q.decidedAt) = {}
    BY <1>3, <1>7, SufficientMeansClean DEF Collected
  <2>2. QED
    BY <2>1 DEF SnapshotCodes, Fresh
<1>19a. after.status # "INSUFFICIENT_DATA"
  BY <1>16 DEF Settling
<1>20. /\ row.fingerprint = q.fingerprint
       /\ row.blocks = q.blocks
       /\ row.decidedAt = q.decidedAt
       /\ row.supersedes = 0
       /\ row.status # "INSUFFICIENT_DATA"
  BY <1>15, <1>19a
<1>21. q.finding \in OpenOf(before.findings)
  BY <1>8 DEF OpenOf
<1> HIDE DEF q, rows, s, categories, before, row
<1>22. \E x \in Failing(s.checks, s.candidate, categories, "ADVISORY") :
         /\ q.fingerprint = Fingerprint(x)
         /\ q.finding = AdvisoryFinding(x, FALSE)
         /\ Settling(s, categories, Taken(rows), AsDecision(q), x, q.decidedAt)
  BY <1>11, <1>16
<1>23. QED
  BY <1>7, <1>10, <1>17, <1>18, <1>19, <1>20, <1>21, <1>22
  DEF Settles, q, rows, s, categories, before, row

-----------------------------------------------------------------------------
(***************************************************************************)
(* The parts of the invariant under the steps that do not concern them.    *)
(***************************************************************************)
LEMMA StoredKept ==
  ASSUME StoredPart, UNCHANGED <<run, decisions>>,
         clock' \in 0..MaxClock, clock <= clock'
  PROVE  StoredPart'
<1>1. clock \in 0..MaxClock
  BY DEF StoredPart, StoredTypes
<1>2. StoredTypes'
  <2>1. 0..clock \subseteq 0..clock'
    BY <1>1, ConstantsAssumption
  <2>2. \A r \in DOMAIN run : run[r].snapshot.fetched <= clock'
    BY <1>1, SnapshotAssumption, ConstantsAssumption DEF StoredPart, StoredTypes
  <2>3. QED
    BY <2>1, <2>2 DEF StoredPart, StoredTypes
<1>3. RunsAreAssessed'
  <2>1. 0..clock \subseteq 0..clock'
    BY <1>1, ConstantsAssumption
  <2>2. QED
    BY <2>1 DEF StoredPart, RunsAreAssessed, Verdict
<1>4. DecisionsAreEligible'
  BY DEF StoredPart, DecisionsAreEligible
<1>5. DecidedOnce'
  BY DEF StoredPart, DecidedOnce
<1>6. SerialHistory'
  BY DEF StoredPart, SerialHistory, Verdict
<1>7. DecidedOnFreshEvidence'
  BY DEF StoredPart, DecidedOnFreshEvidence
<1>8. QED
  BY <1>2, <1>3, <1>4, <1>5, <1>6, <1>7 DEF StoredPart

(* A step that leaves rows, locks and requests alone keeps RequestPart.    *)
LEMMA RequestKept ==
  ASSUME StoredTypes, RequestPart, UNCHANGED <<decisions, lock, pc, request, seen>>,
         \A r \in DOMAIN run : r \in DOMAIN run' /\ run'[r] = run[r],
         clock' \in 0..MaxClock, clock <= clock'
  PROVE  RequestPart'
<1>1. 0..clock \subseteq 0..clock'
  BY ConstantsAssumption DEF StoredTypes
<1>2. RequestsAreOfRuns'
  BY <1>1 DEF RequestPart, RequestsAreOfRuns
<1>3. LockDiscipline'
  BY DEF RequestPart, LockDiscipline
<1>4. QED
  BY <1>2, <1>3 DEF RequestPart

(* A step that leaves reports and READY runs alone keeps ReportPart.       *)
LEMMA ReportKept ==
  ASSUME ReportPart, UNCHANGED report,
         \A r \in DOMAIN run : r \in DOMAIN run' /\ run'[r] = run[r],
         \A r \in DOMAIN run : Stored(r).status = "READY" =>
                                decisions'[r] = decisions[r]
  PROVE  ReportPart'
<1>1. ASSUME NEW c \in Readers, report[c].state = "read"
      PROVE  /\ report[c].run \in DOMAIN run'
             /\ report[c].verdict.status = "READY" =>
                  Stored(report[c].run)' = report[c].verdict
  <2>1. /\ report[c].run \in DOMAIN run
        /\ report[c].verdict.status = "READY" =>
             Stored(report[c].run) = report[c].verdict
    BY <1>1 DEF ReportPart, ReportsWereStored
  <2>2. report[c].verdict.status = "READY" =>
          Stored(report[c].run)' = Stored(report[c].run)
    BY <2>1 DEF Stored, Latest, Verdict
  <2>3. QED
    BY <2>1, <2>2
<1>2. QED
  BY <1>1 DEF ReportPart, ReportsWereStored

-----------------------------------------------------------------------------
(***************************************************************************)
(* One lemma for each action.                                              *)
(***************************************************************************)
LEMMA InitInv == Init => IInv
<1> SUFFICES ASSUME Init PROVE IInv
  OBVIOUS
<1>1. DOMAIN run = {} /\ \A r \in Runs : decisions[r] = <<>> /\ DOMAIN decisions[r] = {}
  BY DEF Init
<1>2. StoredPart
  BY <1>1, ConstantsAssumption
  DEF Init, StoredPart, StoredTypes, RunsAreAssessed, DecisionsAreEligible,
      DecidedOnce, SerialHistory, DecidedOnFreshEvidence
<1>3. RequestPart
  BY ConstantsAssumption DEF Init, RequestPart, RequestsAreOfRuns, LockDiscipline
<1>4. ReportPart
  BY DEF Init, ReportPart, ReportsWereStored, Nothing
<1>5. QED
  BY <1>2, <1>3, <1>4 DEF IInv

(* The clock moves on (datetime.now).                                      *)
LEMMA TickInv == IInv /\ Tick => IInv'
<1> SUFFICES ASSUME IInv, Tick PROVE IInv'
  OBVIOUS
<1>1. clock' \in 0..MaxClock /\ clock <= clock'
  BY ConstantsAssumption DEF Tick, IInv, StoredPart, StoredTypes
<1>2. StoredPart'
  BY <1>1, StoredKept DEF IInv, Tick
<1>3. RequestPart'
  BY <1>1, RequestKept DEF IInv, StoredPart, Tick, decider
<1>4. ReportPart'
  BY ReportKept DEF IInv, Tick
<1>5. QED
  BY <1>2, <1>3, <1>4 DEF IInv

(* A run is stored (create_run).                                           *)
LEMMA CreateRunInv ==
  ASSUME IInv, NEW r \in Runs, CreateRun(r)
  PROVE  IInv'
<1>1. PICK s \in Snapshots, categories \in Policies :
        /\ s.fetched <= clock
        /\ run' = [x \in DOMAIN run \cup {r} |->
                     IF x = r
                       THEN RunRow(s, categories, Assess(s, categories, {}, clock))
                       ELSE run[x]]
  BY DEF CreateRun
<1>2. r \notin DOMAIN run /\ UNCHANGED <<clock, decisions, lock, pc, request, seen, report>>
  BY DEF CreateRun, decider
<1>3. /\ DOMAIN run' = DOMAIN run \cup {r}
      /\ \A x \in DOMAIN run : run'[x] = run[x]
      /\ run'[r].snapshot = s /\ run'[r].categories = categories
      /\ run'[r].status = Assess(s, categories, {}, clock).status
      /\ run'[r].findings = Assess(s, categories, {}, clock).findings
  BY <1>1, <1>2 DEF RunRow
<1>4. Collected(s)
  BY SnapshotAssumption DEF Collected, FromGitHub
<1>5. decisions[r] = <<>> /\ DOMAIN decisions[r] = {}
  BY <1>2 DEF IInv, StoredPart, RunsAreAssessed
<1>6. StoredTypes'
  BY <1>1, <1>2, <1>3, <1>4, AssessIsVerdict DEF IInv, StoredPart, StoredTypes
<1>7. RunsAreAssessed'
  <2>1. Verdict(run'[r]) = Assess(s, categories, {}, clock)
    BY <1>3, <1>4, AssessIsVerdict DEF Verdict
  <2>2. clock \in 0..clock
    BY ConstantsAssumption DEF IInv, StoredPart, StoredTypes
  <2>3. \A x \in DOMAIN run : Verdict(run'[x]) = Verdict(run[x])
    BY <1>3 DEF Verdict
  <2>4. \A x \in DOMAIN run' : \E t \in 0..clock :
          Verdict(run'[x]) = Assess(run'[x].snapshot, run'[x].categories, {}, t)
    BY <1>3, <2>1, <2>2, <2>3 DEF IInv, StoredPart, RunsAreAssessed
  <2>5. \A x \in Runs \ DOMAIN run' : decisions[x] = <<>>
    BY <1>3 DEF IInv, StoredPart, RunsAreAssessed
  <2>6. QED
    BY <1>2, <2>4, <2>5 DEF RunsAreAssessed, Verdict
<1>8. DecisionsAreEligible' /\ DecidedOnce' /\ SerialHistory' /\ DecidedOnFreshEvidence'
  <2>1. DecisionsAreEligible'
    BY <1>2, <1>3, <1>5 DEF IInv, StoredPart, DecisionsAreEligible
  <2>2. DecidedOnce'
    BY <1>2, <1>3, <1>5 DEF IInv, StoredPart, DecidedOnce
  <2>3. SerialHistory'
    BY <1>2, <1>3, <1>5 DEF IInv, StoredPart, SerialHistory, Verdict
  <2>4. DecidedOnFreshEvidence'
    BY <1>2, <1>3, <1>5 DEF IInv, StoredPart, DecidedOnFreshEvidence
  <2>5. QED
    BY <2>1, <2>2, <2>3, <2>4
<1>9. StoredPart'
  BY <1>2, <1>6, <1>7, <1>8 DEF IInv, StoredPart
<1>10. clock' \in 0..MaxClock /\ clock <= clock'
  BY <1>2, ConstantsAssumption DEF IInv, StoredPart, StoredTypes
<1>11. RequestPart'
  BY <1>2, <1>3, <1>10, RequestKept DEF IInv, StoredPart
<1>12. ReportPart'
  BY <1>2, <1>3, ReportKept DEF IInv
<1>13. QED
  BY <1>9, <1>11, <1>12 DEF IInv

(* A decision is asked for (create_decision).                              *)
LEMMA SubmitInv ==
  ASSUME IInv, NEW d \in Deciders, NEW r \in Runs, Submit(d, r)
  PROVE  IInv'
<1>1. clock' \in 0..MaxClock /\ clock <= clock' /\ clock \in 0..clock
  BY ConstantsAssumption DEF Submit, IInv, StoredPart, StoredTypes
<1>2. StoredPart'
  BY <1>1, StoredKept DEF IInv, Submit
<1>3. PICK f \in run[r].findings, c \in run[r].snapshot.checks, blocks \in BOOLEAN :
        request' = [request EXCEPT ![d] =
                      [run |-> r, finding |-> f, fingerprint |-> Fingerprint(c),
                       blocks |-> blocks, decidedAt |-> clock]]
  BY DEF Submit, ReadClock
<1>4. /\ pc[d] = "idle"
      /\ pc' = [pc EXCEPT ![d] = "waiting"]
      /\ r \in DOMAIN run
      /\ UNCHANGED <<clock, run, decisions, lock, seen, report>>
  BY DEF Submit
<1>5. /\ request'[d].run = r
      /\ request'[d].fingerprint \in {Fingerprint(x) : x \in run[r].snapshot.checks}
      /\ request'[d].blocks \in BOOLEAN
      /\ request'[d].decidedAt = clock
      /\ DOMAIN request' = Deciders
      /\ \A e \in Deciders : e # d => request'[e] = request[e] /\ pc'[e] = pc[e]
      /\ pc'[d] = "waiting"
  BY <1>3, <1>4 DEF IInv, RequestPart
<1>6. RequestsAreOfRuns'
  BY <1>1, <1>4, <1>5 DEF IInv, RequestPart, RequestsAreOfRuns
<1>7. LockDiscipline'
  BY <1>4, <1>5 DEF IInv, RequestPart, LockDiscipline
<1>8. RequestPart'
  BY <1>4, <1>5, <1>6, <1>7 DEF IInv, RequestPart
<1>9. ReportPart'
  BY <1>4, ReportKept DEF IInv
<1>10. QED
  BY <1>2, <1>8, <1>9 DEF IInv

(* The row lock is granted and the rows are loaded (persist_decision).     *)
LEMMA AcquireInv ==
  ASSUME IInv, NEW d \in Deciders, Acquire(d)
  PROVE  IInv'
<1> DEFINE r == request[d].run
<1>1. /\ pc[d] = "waiting"
      /\ lock[r] = NoOne
      /\ lock' = [lock EXCEPT ![r] = d]
      /\ seen' = [seen EXCEPT ![d] = decisions[r]]
      /\ pc' = [pc EXCEPT ![d] = "locked"]
      /\ UNCHANGED <<clock, run, decisions, request, report>>
  BY DEF Acquire
<1>2. clock' \in 0..MaxClock /\ clock <= clock'
  BY <1>1, ConstantsAssumption DEF IInv, StoredPart, StoredTypes
<1>3. StoredPart'
  BY <1>1, <1>2, StoredKept DEF IInv
<1>4. r \in Runs
  BY <1>1 DEF IInv, RequestPart, RequestsAreOfRuns, StoredPart, StoredTypes
<1>5. /\ pc' \in [Deciders -> {"idle", "waiting", "locked"}]
      /\ lock' \in [Runs -> Deciders \cup {NoOne}]
      /\ DOMAIN seen' = Deciders
      /\ pc'[d] = "locked" /\ lock'[r] = d /\ seen'[d] = decisions[r]
      /\ \A e \in Deciders : e # d => pc'[e] = pc[e] /\ seen'[e] = seen[e]
      /\ \A x \in Runs : x # r => lock'[x] = lock[x]
  BY <1>1, <1>4 DEF IInv, RequestPart
<1>6. RequestsAreOfRuns'
  BY <1>1, <1>5 DEF IInv, RequestPart, RequestsAreOfRuns
<1>7. LockDiscipline'
  <2>1. NoOne \notin Deciders
    BY ConstantsAssumption
  <2>2. ASSUME NEW e \in Deciders, e # d
        PROVE  /\ pc'[e] = "locked" => /\ lock'[request'[e].run] = e
                                       /\ seen'[e] = decisions'[request'[e].run]
               /\ \A x \in Runs : lock'[x] = e => pc'[e] = "locked"
                                                   /\ request'[e].run = x
    <3>1. pc[e] = "locked" => request[e].run \in Runs /\ request[e].run # r
      BY <1>1, <2>1 DEF IInv, RequestPart, LockDiscipline, RequestsAreOfRuns,
                        StoredPart, StoredTypes
    <3>2. QED
      BY <1>1, <1>5, <2>2, <3>1 DEF IInv, RequestPart, LockDiscipline
  <2>3. \A x \in Runs : lock'[x] = d => x = r
    BY <1>1, <1>5 DEF IInv, RequestPart, LockDiscipline
  <2>4. QED
    BY <1>1, <1>5, <2>2, <2>3 DEF LockDiscipline
<1>8. RequestPart'
  BY <1>1, <1>5, <1>6, <1>7 DEF IInv, RequestPart
<1>9. ReportPart'
  BY <1>1, ReportKept DEF IInv
<1>10. QED
  BY <1>3, <1>8, <1>9 DEF IInv

(***************************************************************************)
(* However a transaction ends, the other requests are as they were.        *)
(***************************************************************************)
LEMMA FinishKeepsRequests ==
  ASSUME IInv, NEW d \in Deciders, pc[d] # "idle", Finish(d),
         \A x \in Runs : decisions'[x] = decisions[x] \/ lock[x] = d
  PROVE  RequestPart'
<1>1. /\ pc' = [pc EXCEPT ![d] = "idle"]
      /\ lock' = [x \in Runs |-> IF lock[x] = d THEN NoOne ELSE lock[x]]
      /\ request' = [request EXCEPT ![d] = Nothing]
      /\ seen' = [seen EXCEPT ![d] = <<>>]
      /\ UNCHANGED <<clock, run, report>>
  BY DEF Finish, Released
<1>2. /\ pc' \in [Deciders -> {"idle", "waiting", "locked"}]
      /\ lock' \in [Runs -> Deciders \cup {NoOne}]
      /\ DOMAIN seen' = Deciders /\ DOMAIN request' = Deciders
      /\ pc'[d] = "idle"
      /\ \A e \in Deciders : e # d => /\ pc'[e] = pc[e]
                                        /\ seen'[e] = seen[e]
                                        /\ request'[e] = request[e]
      /\ \A x \in Runs : lock'[x] = IF lock[x] = d THEN NoOne ELSE lock[x]
  BY <1>1 DEF IInv, RequestPart
<1>3. RequestsAreOfRuns'
  BY <1>1, <1>2 DEF IInv, RequestPart, RequestsAreOfRuns
<1>4. LockDiscipline'
  <2>1. ASSUME NEW e \in Deciders, e # d, pc'[e] = "locked"
        PROVE  lock'[request'[e].run] = e /\ seen'[e] = decisions'[request'[e].run]
    <3>1. /\ pc[e] = "locked" /\ lock[request[e].run] = e
          /\ seen[e] = decisions[request[e].run]
          /\ request[e].run \in Runs
      BY <1>2, <2>1 DEF IInv, RequestPart, LockDiscipline, RequestsAreOfRuns,
                        StoredPart, StoredTypes
    <3>2. QED
      BY <1>2, <2>1, <3>1
  <2>2. ASSUME NEW e \in Deciders, NEW x \in Runs, lock'[x] = e
        PROVE  pc'[e] = "locked" /\ request'[e].run = x
    <3>1. lock[x] = e /\ e # d
      BY <1>2, <2>2, ConstantsAssumption
    <3>2. QED
      BY <1>2, <3>1 DEF IInv, RequestPart, LockDiscipline
  <2>3. QED
    BY <1>2, <2>1, <2>2 DEF LockDiscipline
<1>5. QED
  BY <1>2, <1>3, <1>4 DEF RequestPart

(* A transaction ends without a row (persist_decision).                    *)
LEMMA GiveUpInv ==
  ASSUME IInv, NEW d \in Deciders, Reject(d) \/ Abort(d)
  PROVE  IInv'
<1>1. pc[d] # "idle" /\ Finish(d) /\ UNCHANGED decisions
  BY DEF Reject, Abort
<1>2. UNCHANGED <<clock, run, report>>
  BY <1>1 DEF Finish
<1>3. clock' \in 0..MaxClock /\ clock <= clock'
  BY <1>2, ConstantsAssumption DEF IInv, StoredPart, StoredTypes
<1>4. StoredPart'
  BY <1>1, <1>2, <1>3, StoredKept DEF IInv
<1>5. RequestPart'
  BY <1>1, FinishKeepsRequests
<1>6. ReportPart'
  BY <1>1, <1>2, ReportKept DEF IInv
<1>7. QED
  BY <1>4, <1>5, <1>6 DEF IInv

(* A report reads its run (get_run).                                       *)
LEMMA ReadInv ==
  ASSUME IInv, NEW c \in Readers, NEW r \in Runs, Read(c, r)
  PROVE  IInv'
<1>1. /\ r \in DOMAIN run
      /\ report' = [report EXCEPT ![c] =
                      [state |-> "read", run |-> r, verdict |-> Stored(r)]]
      /\ UNCHANGED <<clock, run, decisions, lock, pc, request, seen>>
  BY DEF Read, decider
<1>2. clock' \in 0..MaxClock /\ clock <= clock'
  BY <1>1, ConstantsAssumption DEF IInv, StoredPart, StoredTypes
<1>3. StoredPart'
  BY <1>1, <1>2, StoredKept DEF IInv
<1>4. RequestPart'
  BY <1>1, <1>2, RequestKept DEF IInv, StoredPart
<1>5. /\ DOMAIN report' = Readers
      /\ report'[c].run = r /\ report'[c].verdict = Stored(r)
      /\ \A b \in Readers : b # c => report'[b] = report[b]
  BY <1>1 DEF IInv, ReportPart
<1>6. \A x : Stored(x)' = Stored(x)
  BY <1>1 DEF Stored, Latest, Verdict
<1>7. ReportsWereStored'
  BY <1>1, <1>5, <1>6 DEF IInv, ReportPart, ReportsWereStored
<1>8. QED
  BY <1>3, <1>4, <1>5, <1>7 DEF IInv, ReportPart

(* A report is answered (get_analysis).                                    *)
LEMMA RespondInv ==
  ASSUME IInv, NEW c \in Readers, Respond(c)
  PROVE  IInv'
<1>1. /\ UNCHANGED <<clock, run, decisions, lock, pc, request, seen>>
      /\ report' = [report EXCEPT ![c] =
                      [state |-> "shown", run |-> report[c].run,
                       status |-> Refresh(report[c].verdict,
                                          run[report[c].run].snapshot, clock).status]]
  BY DEF Respond, decider
<1>2. clock' \in 0..MaxClock /\ clock <= clock'
  BY <1>1, ConstantsAssumption DEF IInv, StoredPart, StoredTypes
<1>3. StoredPart'
  BY <1>1, <1>2, StoredKept DEF IInv
<1>4. RequestPart'
  BY <1>1, <1>2, RequestKept DEF IInv, StoredPart
<1>5. /\ DOMAIN report' = Readers
      /\ report'[c].state = "shown"
      /\ \A b \in Readers : b # c => report'[b] = report[b]
  BY <1>1 DEF IInv, ReportPart
<1>6. \A x : Stored(x)' = Stored(x)
  BY <1>1 DEF Stored, Latest, Verdict
<1>7. ReportsWereStored'
  BY <1>1, <1>5, <1>6 DEF IInv, ReportPart, ReportsWereStored
<1>8. QED
  BY <1>3, <1>4, <1>5, <1>7 DEF IInv, ReportPart

(***************************************************************************)
(* The insertion: the new row continues the serial history of its run, and *)
(* leaves every settled run alone.                                         *)
(***************************************************************************)
LEMMA InsertStored ==
  ASSUME IInv, NEW d \in Deciders, Insert(d)
  PROVE  /\ StoredPart'
         /\ \A x \in Runs : decisions'[x] = decisions[x] \/ lock[x] = d
         /\ \A x \in Runs : \A k \in DOMAIN decisions[x] :
              k \in DOMAIN decisions'[x] /\ decisions'[x][k] = decisions[x][k]
         /\ \A x \in DOMAIN run : Stored(x).status # "NEEDS_DECISION" =>
                                  decisions'[x] = decisions[x]
<1> DEFINE q == request[d]
           r == q.run
           rows == decisions[r]
           row == NewRow(q, rows)
           last == Len(rows) + 1
<1>1. /\ pc[d] = "locked"
      /\ ~Conflict(q, seen[d]) /\ Eligible(q, seen[d])
      /\ decisions' = [decisions EXCEPT ![r] = Append(@, NewRow(q, seen[d]))]
      /\ UNCHANGED <<clock, run>>
  BY DEF Insert, Finish
<1>2. seen[d] = rows /\ lock[r] = d
  BY <1>1 DEF IInv, RequestPart, LockDiscipline
<1>3. r \in DOMAIN run /\ r \in Runs /\ q.decidedAt \in 0..clock /\ q.blocks \in BOOLEAN
  BY <1>1 DEF IInv, RequestPart, RequestsAreOfRuns, StoredPart, StoredTypes
<1>4. Settles(q, rows)
  BY <1>1, InsertSettles
<1>5. /\ row \in Row /\ row.fingerprint = q.fingerprint /\ row.blocks = q.blocks
      /\ row.decidedAt = q.decidedAt /\ row.supersedes = 0
  BY <1>4 DEF Settles
<1>6. decisions \in [Runs -> Seq(Row)]
  BY DEF IInv, StoredPart
<1>7. /\ decisions' \in [Runs -> Seq(Row)]
      /\ \A x \in Runs : x # r => decisions'[x] = decisions[x]
      /\ DOMAIN rows = 1..Len(rows) /\ Len(rows) \in Nat
      /\ Len(decisions'[r]) = last
      /\ DOMAIN decisions'[r] = 1..last
      /\ \A k \in 1..Len(rows) : decisions'[r][k] = rows[k]
      /\ decisions'[r][last] = row
  <2>1. decisions' = [decisions EXCEPT ![r] = Append(@, row)]
    BY <1>1, <1>2
  <2> HIDE DEF row
  <2>2. QED
    BY <1>3, <1>5, <1>6, <2>1, Appended
<1>8. /\ last \in Nat /\ 1..last = (1..Len(rows)) \cup {last} /\ last \notin 1..Len(rows)
  BY <1>7
<1> HIDE DEF q, r, rows, row, last
<1>9. StoredTypes'
  <2>1. row.status \in ReleaseStatus
    BY <1>5 DEF Row
  <2>2. \A x \in Runs : \A k \in DOMAIN decisions'[x] :
          /\ decisions'[x][k].blocks \in BOOLEAN
          /\ decisions'[x][k].decidedAt \in 0..clock
          /\ decisions'[x][k].status \in ReleaseStatus
    <3>1. ASSUME NEW x \in Runs, NEW k \in DOMAIN decisions'[x]
          PROVE  /\ decisions'[x][k].blocks \in BOOLEAN
                 /\ decisions'[x][k].decidedAt \in 0..clock
                 /\ decisions'[x][k].status \in ReleaseStatus
      <4>1. CASE x = r /\ k = last
        BY <1>3, <1>5, <1>7, <2>1, <4>1
      <4>2. CASE ~(x = r /\ k = last)
        <5>1. k \in DOMAIN decisions[x] /\ decisions'[x][k] = decisions[x][k]
          BY <1>7, <1>8, <3>1, <4>2 DEF rows
        <5>2. QED
          BY <5>1 DEF IInv, StoredPart, StoredTypes
      <4>3. QED
        BY <4>1, <4>2
    <3>2. QED
      BY <3>1
  <2>3. DOMAIN decisions' = Runs
    BY <1>7
  <2>4. QED
    BY <1>1, <2>2, <2>3 DEF IInv, StoredPart, StoredTypes
<1>10. RunsAreAssessed'
  BY <1>1, <1>3, <1>7 DEF IInv, StoredPart, RunsAreAssessed, Verdict
<1>11. DecisionsAreEligible'
  <2>1. ASSUME NEW x \in DOMAIN run, NEW k \in DOMAIN decisions'[x]
        PROVE  \E c \in Failing(run[x].snapshot.checks, run[x].snapshot.candidate,
                                run[x].categories, "ADVISORY") :
                 decisions'[x][k].fingerprint = Fingerprint(c)
    <3>1. CASE x = r /\ k = last
      BY <1>4, <1>5, <1>7, <3>1 DEF Settles, r
    <3>2. CASE ~(x = r /\ k = last)
      <4>1. x \in Runs
        BY <2>1 DEF IInv, StoredPart, StoredTypes
      <4>2. k \in DOMAIN decisions[x] /\ decisions'[x][k] = decisions[x][k]
        BY <1>7, <1>8, <2>1, <3>2, <4>1 DEF rows
      <4>3. QED
        BY <4>2 DEF IInv, StoredPart, DecisionsAreEligible
    <3>3. QED
      BY <3>1, <3>2
  <2>2. QED
    BY <1>1, <2>1 DEF DecisionsAreEligible
<1>12. DecidedOnce'
  <2>1. \A k \in 1..Len(rows) : rows[k].fingerprint # row.fingerprint
    BY <1>4, <1>5, <1>7 DEF Settles
  <2>2. \A j, k \in 1..Len(rows) :
          /\ rows[k].supersedes = 0
          /\ rows[j].fingerprint = rows[k].fingerprint => j = k
    <3>1. DecidedOnce
      BY DEF IInv, StoredPart
    <3>2. QED
      BY <1>3, <1>7, <3>1 DEF DecidedOnce, rows
  <2>3. \A j, k \in DOMAIN decisions'[r] :
          /\ decisions'[r][k].supersedes = 0
          /\ decisions'[r][j].fingerprint = decisions'[r][k].fingerprint => j = k
    BY <1>5, <1>7, <1>8, <2>1, <2>2
  <2>4. \A x \in Runs : x # r => \A j, k \in DOMAIN decisions'[x] :
          /\ decisions'[x][k].supersedes = 0
          /\ decisions'[x][j].fingerprint = decisions'[x][k].fingerprint => j = k
    BY <1>7 DEF IInv, StoredPart, DecidedOnce
  <2>5. QED
    BY <2>3, <2>4 DEF DecidedOnce
<1>13. SerialHistory'
  <2>1. \A k \in 1..Len(rows) : DecidedBy(decisions'[r], k) = DecidedBy(rows, k)
    BY <1>7 DEF DecidedBy
  <2>2. DecidedBy(decisions'[r], last) = Taken(rows) \cup {AsDecision(q)}
    <3>1. AsDecision(row) = AsDecision(q)
      BY <1>5 DEF AsDecision
    <3>2. \A k \in 1..last : decisions'[r][k] = IF k = last THEN row ELSE rows[k]
      BY <1>7, <1>8
    <3>3. QED
      BY <1>8, <3>1, <3>2 DEF DecidedBy, Taken
  <2>3. Verdict(row) = Assess(run[r].snapshot, run[r].categories,
                              Taken(rows) \cup {AsDecision(q)}, row.decidedAt)
    BY <1>4, <1>5 DEF Settles, r, row
  <2>4. ASSUME NEW x \in DOMAIN run, NEW k \in DOMAIN decisions'[x]
        PROVE  Verdict(decisions'[x][k]) =
                 Assess(run[x].snapshot, run[x].categories,
                        DecidedBy(decisions'[x], k), decisions'[x][k].decidedAt)
    <3>1. CASE x = r /\ k = last
      BY <1>7, <2>2, <2>3, <3>1
    <3>2. CASE ~(x = r /\ k = last)
      <4>1. x \in Runs
        BY <2>4 DEF IInv, StoredPart, StoredTypes
      <4>2. k \in DOMAIN decisions[x] /\ decisions'[x][k] = decisions[x][k]
            /\ DecidedBy(decisions'[x], k) = DecidedBy(decisions[x], k)
        BY <1>7, <1>8, <2>1, <2>4, <3>2, <4>1 DEF rows
      <4>3. QED
        BY <4>2 DEF IInv, StoredPart, SerialHistory
    <3>3. QED
      BY <3>1, <3>2
  <2>5. QED
    BY <1>1, <2>4 DEF SerialHistory, Verdict
<1>14. DecidedOnFreshEvidence'
  <2>1. row.status # "INSUFFICIENT_DATA" /\ Fresh(run[r].snapshot, row.decidedAt)
    BY <1>4, <1>5 DEF Settles, r, row
  <2>2. ASSUME NEW x \in DOMAIN run, NEW k \in DOMAIN decisions'[x]
        PROVE  /\ Fresh(run[x].snapshot, decisions'[x][k].decidedAt)
               /\ decisions'[x][k].status # "INSUFFICIENT_DATA"
    <3>1. CASE x = r /\ k = last
      BY <1>7, <2>1, <3>1
    <3>2. CASE ~(x = r /\ k = last)
      <4>1. x \in Runs
        BY <2>2 DEF IInv, StoredPart, StoredTypes
      <4>2. k \in DOMAIN decisions[x] /\ decisions'[x][k] = decisions[x][k]
        BY <1>7, <1>8, <2>2, <3>2, <4>1 DEF rows
      <4>3. QED
        BY <4>2 DEF IInv, StoredPart, DecidedOnFreshEvidence
    <3>3. QED
      BY <3>1, <3>2
  <2>3. QED
    BY <1>1, <2>2 DEF DecidedOnFreshEvidence
<1>15. StoredPart'
  BY <1>7, <1>9, <1>10, <1>11, <1>12, <1>13, <1>14 DEF StoredPart
<1>16. \A x \in Runs : decisions'[x] = decisions[x] \/ lock[x] = d
  BY <1>2, <1>7
<1>17. \A x \in Runs : \A k \in DOMAIN decisions[x] :
         k \in DOMAIN decisions'[x] /\ decisions'[x][k] = decisions[x][k]
  BY <1>7, <1>8 DEF rows
<1>18. \A x \in DOMAIN run : Stored(x).status # "NEEDS_DECISION" =>
                              decisions'[x] = decisions[x]
  <2>1. Stored(r).status = "NEEDS_DECISION"
    BY <1>4 DEF Settles, Stored, rows, r
  <2>2. QED
    BY <1>7, <2>1 DEF IInv, StoredPart, StoredTypes
<1>19. QED
  BY <1>15, <1>16, <1>17, <1>18

(* A decision row is inserted (persist_decision).                          *)
LEMMA InsertInv ==
  ASSUME IInv, NEW d \in Deciders, Insert(d)
  PROVE  IInv'
<1>1. pc[d] # "idle" /\ Finish(d) /\ UNCHANGED <<run, report>>
  BY DEF Insert, Finish
<1>2. RequestPart'
  BY <1>1, InsertStored, FinishKeepsRequests
<1>3. ReportPart'
  BY <1>1, InsertStored, ReportKept DEF IInv
<1>4. QED
  BY <1>2, <1>3, InsertStored DEF IInv

(* Nothing happens.                                                        *)
LEMMA StutterInv == IInv /\ UNCHANGED vars => IInv'
<1> SUFFICES ASSUME IInv, UNCHANGED vars PROVE IInv'
  OBVIOUS
<1>1. UNCHANGED <<clock, run, decisions, lock, pc, request, seen, report>>
  BY DEF vars
<1>2. clock' \in 0..MaxClock /\ clock <= clock'
  BY <1>1, ConstantsAssumption DEF IInv, StoredPart, StoredTypes
<1>3. StoredPart' /\ RequestPart' /\ ReportPart'
  BY <1>1, <1>2, StoredKept, RequestKept, ReportKept DEF IInv, StoredPart
<1>4. QED
  BY <1>3 DEF IInv

-----------------------------------------------------------------------------
(***************************************************************************)
(* The invariant is inductive, and holds of every behaviour.               *)
(***************************************************************************)
LEMMA NextInv == IInv /\ [Next]_vars => IInv'
<1> SUFFICES ASSUME IInv, [Next]_vars PROVE IInv'
  OBVIOUS
<1>1. CASE Tick
  BY <1>1, TickInv
<1>2. CASE \E r \in Runs : CreateRun(r)
  BY <1>2, CreateRunInv
<1>3. CASE \E d \in Deciders, r \in Runs : Submit(d, r)
  BY <1>3, SubmitInv
<1>4. CASE \E d \in Deciders : Acquire(d) \/ Insert(d) \/ Reject(d) \/ Abort(d)
  BY <1>4, AcquireInv, InsertInv, GiveUpInv
<1>5. CASE \E c \in Readers : (\E r \in Runs : Read(c, r)) \/ Respond(c)
  BY <1>5, ReadInv, RespondInv
<1>6. CASE UNCHANGED vars
  BY <1>6, StutterInv
<1>7. QED
  BY <1>1, <1>2, <1>3, <1>4, <1>5, <1>6 DEF Next

(* The inductive invariant holds of every state of the lifecycle.          *)
THEOREM Invariance == Spec => []IInv
BY InitInv, NextInv, PTL DEF Spec

(***************************************************************************)
(* Every state has its type.                                               *)
(***************************************************************************)
THEOREM TypeCorrect == Spec => []TypeOK
<1>1. IInv => TypeOK
  BY DEF IInv, StoredPart, RequestPart, RequestsAreOfRuns, TypeOK
<1>2. QED
  BY <1>1, Invariance, PTL

(***************************************************************************)
(* A fingerprint is decided at most once in a run, whatever races.         *)
(***************************************************************************)
THEOREM DecidedOnceHolds == Spec => []DecidedOnce
<1>1. IInv => DecidedOnce
  BY DEF IInv, StoredPart
<1>2. QED
  BY <1>1, Invariance, PTL

(***************************************************************************)
(* The decision rows of a run are a serial history.                        *)
(***************************************************************************)
THEOREM SerialHistoryHolds == Spec => []SerialHistory
<1>1. IInv => SerialHistory
  BY DEF IInv, StoredPart
<1>2. QED
  BY <1>1, Invariance, PTL

(***************************************************************************)
(* Decisions are made on fresh evidence only.                              *)
(***************************************************************************)
THEOREM DecidedOnFreshEvidenceHolds == Spec => []DecidedOnFreshEvidence
<1>1. IInv => DecidedOnFreshEvidence
  BY DEF IInv, StoredPart
<1>2. QED
  BY <1>1, Invariance, PTL

(***************************************************************************)
(* READY is earned: the serial history turns the fact about one assessment *)
(* (ReadyMeansEarned) into one about every interleaving of decisions.      *)
(***************************************************************************)
LEMMA StoredIsAssessed ==
  ASSUME StoredPart, NEW r \in DOMAIN run
  PROVE  \E t \in Nat : Stored(r) = Assess(run[r].snapshot, run[r].categories,
                                          Taken(decisions[r]), t)
<1> DEFINE rows == decisions[r]
<1>1. rows \in Seq(Row)
  BY DEF StoredPart, StoredTypes
<1>2. CASE rows = <<>>
  <2>1. Taken(rows) = {}
    BY <1>2 DEF Taken, DecidedBy
  <2>2. Stored(r) = Verdict(run[r])
    BY <1>2 DEF Stored, Latest
  <2>3. QED
    BY <2>1, <2>2, ConstantsAssumption DEF StoredPart, RunsAreAssessed, StoredTypes
<1>3. CASE rows # <<>>
  <2>1. Len(rows) \in DOMAIN rows /\ rows[Len(rows)] \in Row
    BY <1>1, <1>3
  <2>2. Stored(r) = Verdict(rows[Len(rows)])
    BY <1>3 DEF Stored, Latest
  <2>3. rows[Len(rows)].decidedAt \in Nat
    BY <2>1 DEF Row
  <2>4. Verdict(rows[Len(rows)]) =
          Assess(run[r].snapshot, run[r].categories, Taken(rows),
                 rows[Len(rows)].decidedAt)
    BY <2>1 DEF StoredPart, SerialHistory, Taken
  <2>5. QED
    BY <2>2, <2>3, <2>4
<1>4. QED
  BY <1>2, <1>3

(* A stored READY is earned, whatever requests raced (assess,              *)
(* persist_decision).                                                      *)
THEOREM ReadyIsEarnedHolds == Spec => []ReadyIsEarned
<1>1. IInv => ReadyIsEarned
  <2> SUFFICES ASSUME IInv, NEW r \in DOMAIN run, Stored(r).status = "READY"
               PROVE  Earned(r)
    BY DEF ReadyIsEarned
  <2> DEFINE s == run[r].snapshot
             categories == run[r].categories
             rows == decisions[r]
  <2>1. rows \in Seq(Row)
    BY DEF IInv, StoredPart, StoredTypes
  <2>2. PICK t \in Nat : Stored(r) = Assess(s, categories, Taken(rows), t)
    BY StoredIsAssessed DEF IInv
  <2>3. Collected(s)
    BY RunsAreCollected DEF IInv, StoredPart
  <2>4. \A d \in Taken(rows) : d.blocks \in BOOLEAN
    BY <2>1, TakenRows DEF AllChoices
  <2>5. EarnedBy(s, categories, Taken(rows))
    BY <2>2, <2>3, <2>4, ReadyMeansEarned DEF Collected
  <2>6. \A d \in Taken(rows) : \E k \in DOMAIN rows :
          d.fingerprint = rows[k].fingerprint /\ d.blocks = rows[k].blocks
    BY <2>1 DEF Taken, DecidedBy, AsDecision
  <2>7. \A k \in DOMAIN rows : rows[k].blocks = FALSE
    <3>1. ASSUME NEW k \in DOMAIN rows
          PROVE  rows[k].blocks = FALSE
      <4>1. PICK c \in Failing(s.checks, s.candidate, categories, "ADVISORY") :
              rows[k].fingerprint = Fingerprint(c)
        BY DEF IInv, StoredPart, DecisionsAreEligible
      <4>2. QED
        BY <2>1, <2>5, <4>1, TakenRows DEF EarnedBy
    <3>2. QED
      BY <3>1
  <2>8. ASSUME NEW c \in s.checks
        PROVE  /\ c.name \in DOMAIN categories
               /\ Undisputed(s, c)
               /\ categories[c.name] = "BLOCKING" => Success(c)
               /\ categories[c.name] = "ADVISORY" => Success(c) \/ Accepted(r, c)
    BY <2>5, <2>6, <2>7 DEF EarnedBy, Single, Undisputed, Accepted
  <2>9. QED
    BY <2>5, <2>7, <2>8 DEF EarnedBy, Earned
<1>2. QED
  BY <1>1, Invariance, PTL

(***************************************************************************)
(* A settled run keeps its verdict and no row of its history changes.      *)
(***************************************************************************)
THEOREM VerdictIsFinalHolds == Spec => VerdictIsFinal
<1>1. IInv /\ [Next]_vars => [Settled]_vars
  <2> SUFFICES ASSUME IInv, Next PROVE Settled
    OBVIOUS
  <2>1. CASE \E d \in Deciders : Insert(d)
    <3>1. PICK d \in Deciders : Insert(d)
      BY <2>1
    <3>2. UNCHANGED run
      BY <3>1 DEF Insert, Finish
    <3>3. DOMAIN run \subseteq Runs
      BY DEF IInv, StoredPart, StoredTypes
    <3>4. QED
      BY <3>1, <3>2, <3>3, InsertStored DEF Settled
  <2>2. CASE UNCHANGED decisions
    <3>1. \A r \in DOMAIN run : r \in DOMAIN run' /\ run'[r] = run[r]
      BY DEF Next, Tick, CreateRun, Submit, Acquire, Insert, Reject, Abort, Finish,
             Read, Respond
    <3>2. QED
      BY <2>2, <3>1 DEF Settled
  <2>3. QED
    BY <2>1, <2>2 DEF Next, Tick, CreateRun, Submit, Acquire, Reject, Abort, Read,
                      Respond
<1>2. QED
  BY <1>1, Invariance, PTL DEF Spec, VerdictIsFinal

(***************************************************************************)
(* A report that says READY is true when it is given.                      *)
(***************************************************************************)
THEOREM ReadyIsStillTrueHolds == Spec => ReadyIsStillTrue
<1>1. IInv /\ [Next]_vars => [ShownReady]_vars
  <2> SUFFICES ASSUME IInv, Next,
                      NEW c \in Readers, NEW r \in DOMAIN run,
                      report[c].state = "read",
                      report'[c] = [state |-> "shown", run |-> r, status |-> "READY"]
               PROVE  Stored(r).status = "READY" /\ Fresh(run[r].snapshot, clock)
    BY DEF ShownReady
  <2>1. report'[c].state = "shown" /\ report'[c].run = r /\ report'[c].status = "READY"
    OBVIOUS
  <2>2. Respond(c)
    <3>1. report' # report
      BY <2>1
    <3>2. PICK b \in Readers : (\E x \in Runs : Read(b, x)) \/ Respond(b)
      BY <3>1 DEF Next, Tick, CreateRun, Submit, Acquire, Insert, Reject, Abort, Finish
    <3>3. b = c
      BY <2>1, <3>2 DEF Read, Respond, IInv, ReportPart
    <3>4. ~\E x \in Runs : Read(c, x)
      BY DEF Read
    <3>5. QED
      BY <3>2, <3>3, <3>4
  <2>3. /\ report[c].run = r
        /\ Refresh(report[c].verdict, run[r].snapshot, clock).status = "READY"
    BY <2>1, <2>2 DEF Respond, IInv, ReportPart
  <2>4. SnapshotCodes(run[r].snapshot, clock) = {} /\ report[c].verdict.status = "READY"
    BY <2>3 DEF Refresh
  <2>5. Stored(r).status = "READY"
    BY <2>3, <2>4 DEF IInv, ReportPart, ReportsWereStored
  <2>6. Fresh(run[r].snapshot, clock)
    BY <2>4 DEF SnapshotCodes, Fresh
  <2>7. QED
    BY <2>5, <2>6
<1>2. QED
  BY <1>1, Invariance, PTL DEF Spec, ReadyIsStillTrue

-----------------------------------------------------------------------------
(***************************************************************************)
(* The decision lifecycle implements RunVerdict: the analysis publishes a  *)
(* verdict, the insertion of a row accepts or blocks one open finding, and *)
(* no other step changes anything the users of a run see stored.           *)
(***************************************************************************)
Subjects(findings) == {f.subject : f \in OpenOf(findings)}

(***************************************************************************)
(* The open findings depend on the decisions, never on the time.           *)
(***************************************************************************)
LEMMA OpenWhenever ==
  ASSUME NEW s, NEW categories, NEW ds, NEW t, NEW now, Collected(s)
  PROVE  /\ OpenOf(Assess(s, categories, ds, t).findings) =
              OpenOf(Assess(s, categories, ds, now).findings)
         /\ OtherOpen(Assess(s, categories, ds, t).findings) =
              OtherOpen(Assess(s, categories, ds, now).findings)
<1> DEFINE stable == AllFindings(s, categories, ds)
           doubts(time) == InsufficiencyFindings(AllCodes(s, categories, ds, time))
<1>1. \A time : Assess(s, categories, ds, time).findings = stable \cup doubts(time)
  BY AssessUnfolded DEF Collected
<1>2. \A codes : \A f \in InsufficiencyFindings(codes) : f.severity # "DECISION_REQUIRED"
  BY DEF InsufficiencyFindings, Finding
<1>3. \A time : \A f \in doubts(time) : f.severity # "DECISION_REQUIRED"
  BY <1>2
<1> HIDE DEF stable, doubts
<1>4. \A time : /\ OpenOf(stable \cup doubts(time)) = OpenOf(stable)
                /\ OtherOpen(stable \cup doubts(time)) = OtherOpen(stable)
  BY <1>3 DEF OpenOf, OtherOpen
<1>5. QED
  BY <1>1, <1>4

(***************************************************************************)
(* An open finding is named by the fingerprint of a check of the snapshot, *)
(* and by nothing else.                                                    *)
(***************************************************************************)
LEMMA OpenIsNamed ==
  ASSUME NEW s, NEW categories, NEW ds, NEW now, Collected(s),
         NEW f \in OpenOf(Assess(s, categories, ds, now).findings)
  PROVE  /\ f.subject \in {Fingerprint(c) : c \in s.checks}
         /\ f = Finding(AdvisoryRule, "DECISION_REQUIRED", f.subject)
<1>1. /\ f \in Assess(s, categories, ds, now).findings
      /\ f.rule = AdvisoryRule /\ f.severity = "DECISION_REQUIRED"
  BY DEF OpenOf
<1>2. DecidableIn(s, categories, ds, f)
  BY <1>1, OpenMeansUndecided
<1>3. PICK c \in Failing(s.checks, s.candidate, categories, "ADVISORY") :
        f = AdvisoryFinding(c, FALSE)
  BY <1>2 DEF DecidableIn
<1>4. f = Finding(AdvisoryRule, "DECISION_REQUIRED", Fingerprint(c))
  BY <1>3 DEF AdvisoryFinding
<1>5. f.subject = Fingerprint(c)
  BY <1>4 DEF Finding
<1>6. c \in s.checks
  BY DEF Failing, Usable
<1>7. QED
  BY <1>4, <1>5, <1>6

(***************************************************************************)
(* A published verdict: something open exactly when a decision is needed.  *)
(***************************************************************************)
LEMMA PublishedVerdict ==
  ASSUME NEW s, NEW categories, NEW ds, NEW now, Collected(s)
  PROVE  LET v == Assess(s, categories, ds, now)
         IN  /\ v.status \in ReleaseStatus
             /\ v.status = "NEEDS_DECISION" =>
                  OpenOf(v.findings) # {} \/ OtherOpen(v.findings) # {}
             /\ v.status = "READY" =>
                  OpenOf(v.findings) = {} /\ OtherOpen(v.findings) = {}
<1> DEFINE v == Assess(s, categories, ds, now)
           codes == AllCodes(s, categories, ds, now)
           stable == AllFindings(s, categories, ds)
<1>1. /\ v.status = StatusOf(codes, stable)
      /\ v.findings = stable \cup InsufficiencyFindings(codes)
  BY AssessUnfolded DEF Collected
<1>2. v.status # "INSUFFICIENT_DATA" => codes = {} /\ v.findings = stable
  BY <1>1 DEF StatusOf, InsufficiencyFindings
<1> HIDE DEF v, codes, stable
<1>3. v.status = "NEEDS_DECISION" =>
        \E f \in v.findings : f.severity = "DECISION_REQUIRED"
  BY <1>1, <1>2 DEF StatusOf
<1>4. v.status = "READY" =>
        \A f \in v.findings : f.severity # "DECISION_REQUIRED"
  BY <1>1, <1>2 DEF StatusOf
<1>5. v.status \in ReleaseStatus
  BY <1>1, StatusIsReleaseStatus
<1>6. QED
  BY <1>3, <1>4, <1>5 DEF OpenOf, OtherOpen, v

(***************************************************************************)
(* The refinement mapping, for a run that is stored.                       *)
(***************************************************************************)
LEMMA MappingOf ==
  ASSUME StoredTypes, NEW r \in Runs
  PROVE  /\ statusBar[r] = IF r \in DOMAIN run THEN Stored(r).status ELSE "none"
         /\ openBar[r] = IF r \in DOMAIN run THEN Subjects(Stored(r).findings) ELSE {}
         /\ unclassifiedBar[r] = (r \in DOMAIN run /\ OtherOpen(Stored(r).findings) # {})
BY DEF statusBar, openBar, unclassifiedBar, OpenFindings, Unclassified, Subjects,
       OpenOf, OtherOpen

(* A step that stores no run and no row is a stutter of RunVerdict.        *)
LEMMA QuietMaps ==
  ASSUME UNCHANGED <<run, decisions>>
  PROVE  UNCHANGED <<statusBar, openBar, unclassifiedBar>>
<1>1. \A r : Stored(r)' = Stored(r)
  BY DEF Stored, Latest, Verdict
<1>2. QED
  BY <1>1 DEF statusBar, openBar, unclassifiedBar, OpenFindings, Unclassified

(***************************************************************************)
(* Bars are functions on the runs, so they are equal when they agree on    *)
(* every run.                                                              *)
(***************************************************************************)
LEMMA BarsAreFunctions ==
  /\ statusBar = [r \in Runs |-> statusBar[r]]
  /\ openBar = [r \in Runs |-> openBar[r]]
  /\ unclassifiedBar = [r \in Runs |-> unclassifiedBar[r]]
  /\ statusBar' = [r \in Runs |-> statusBar'[r]]
  /\ openBar' = [r \in Runs |-> openBar'[r]]
  /\ unclassifiedBar' = [r \in Runs |-> unclassifiedBar'[r]]
BY DEF statusBar, openBar, unclassifiedBar

(***************************************************************************)
(* A step that leaves every other run alone changes the mapping at one run.*)
(***************************************************************************)
LEMMA OthersKept ==
  ASSUME IInv, StoredTypes', NEW r \in Runs,
         \A x \in Runs : x # r =>
           /\ x \in DOMAIN run <=> x \in DOMAIN run'
           /\ x \in DOMAIN run => run'[x] = run[x]
           /\ decisions'[x] = decisions[x]
  PROVE  \A x \in Runs : x # r => /\ statusBar'[x] = statusBar[x]
                                  /\ openBar'[x] = openBar[x]
                                  /\ unclassifiedBar'[x] = unclassifiedBar[x]
<1>1. ASSUME NEW x \in Runs, x # r
      PROVE  /\ statusBar'[x] = statusBar[x]
             /\ openBar'[x] = openBar[x]
             /\ unclassifiedBar'[x] = unclassifiedBar[x]
  <2>1. x \in DOMAIN run => Stored(x)' = Stored(x)
    BY <1>1 DEF Stored, Latest, Verdict
  <2>2. (x \in DOMAIN run)' = (x \in DOMAIN run)
    BY <1>1
  <2>3. QED
    BY <2>1, <2>2 DEF statusBar, openBar, unclassifiedBar, OpenFindings, Unclassified
<1>2. QED
  BY <1>1

(* The initial states are initial states of RunVerdict.                    *)
LEMMA InitMaps == Init => Abstract!Init
BY DEF Init, Abstract!Init, statusBar, openBar, unclassifiedBar

(***************************************************************************)
(* create_run publishes the verdict reached without decisions.             *)
(***************************************************************************)
LEMMA CreateRunMaps ==
  ASSUME IInv, NEW r \in Runs, CreateRun(r)
  PROVE  Abstract!Publish(r)
<1>1. IInv'
  BY CreateRunInv
<1>2. /\ r \notin DOMAIN run /\ DOMAIN run' = DOMAIN run \cup {r}
      /\ \A x \in DOMAIN run : run'[x] = run[x]
      /\ UNCHANGED decisions
  BY DEF CreateRun
<1>3. StoredTypes /\ StoredTypes'
  BY <1>1 DEF IInv, StoredPart
<1>4. \A x \in Runs : x # r => /\ statusBar'[x] = statusBar[x]
                               /\ openBar'[x] = openBar[x]
                               /\ unclassifiedBar'[x] = unclassifiedBar[x]
  BY <1>2, <1>3, OthersKept
<1>5. PICK s \in Snapshots, categories \in Policies, t \in Nat :
        Stored(r)' = Assess(s, categories, {}, t)
  <2>1. decisions'[r] = <<>>
    BY <1>2 DEF IInv, StoredPart, RunsAreAssessed
  <2>2. Stored(r)' = Verdict(run'[r])
    BY <2>1 DEF Stored, Latest, Verdict
  <2>3. PICK t \in 0..clock' :
          Verdict(run'[r]) = Assess(run'[r].snapshot, run'[r].categories, {}, t)
    BY <1>1, <1>2 DEF IInv, StoredPart, RunsAreAssessed, Verdict
  <2>4. run'[r].snapshot \in Snapshots /\ run'[r].categories \in Policies /\ t \in Nat
    BY <1>2, <1>3 DEF StoredTypes
  <2>5. QED
    BY <2>2, <2>3, <2>4
<1> DEFINE v == Assess(s, categories, {}, t)
           open == Subjects(v.findings)
           more == OtherOpen(v.findings) # {}
<1>6. Collected(s)
  BY SnapshotAssumption DEF Collected, FromGitHub
<1>7. /\ statusBar[r] = "none"
      /\ statusBar'[r] = v.status
      /\ openBar'[r] = open
      /\ unclassifiedBar'[r] = more
  <2>1. statusBar[r] = "none"
    BY <1>2 DEF statusBar
  <2>2. r \in DOMAIN run'
    BY <1>2
  <2>3. QED
    BY <1>5, <2>1, <2>2 DEF statusBar, openBar, unclassifiedBar, OpenFindings,
                            Unclassified, Subjects, OpenOf, OtherOpen
<1>8. open \in SUBSET AllFingerprints /\ more \in BOOLEAN
  BY <1>6, OpenIsNamed DEF Subjects, AllFingerprints
<1>9. /\ v.status \in ReleaseStatus
      /\ v.status = "NEEDS_DECISION" => open # {} \/ more
      /\ v.status = "READY" => open = {} /\ ~more
  BY <1>6, PublishedVerdict DEF Subjects
<1> HIDE DEF v, open, more
<1>10. /\ statusBar' = [statusBar EXCEPT ![r] = v.status]
       /\ openBar' = [openBar EXCEPT ![r] = open]
       /\ unclassifiedBar' = [unclassifiedBar EXCEPT ![r] = more]
  BY <1>4, <1>7, BarsAreFunctions
<1>11. QED
  BY <1>7, <1>8, <1>9, <1>10 DEF Abstract!Publish, ReleaseStatus

(***************************************************************************)
(* The inserted row accepts or blocks the open finding it names.           *)
(***************************************************************************)
LEMMA InsertMaps ==
  ASSUME IInv, NEW d \in Deciders, Insert(d)
  PROVE  \E r \in Runs : \E f \in AllFingerprints :
           Abstract!Accept(r, f) \/ Abstract!Block(r, f)
<1> DEFINE q == request[d]
<1>1. /\ pc[d] = "locked"
      /\ ~Conflict(q, seen[d]) /\ Eligible(q, seen[d])
      /\ decisions' = [decisions EXCEPT ![q.run] = Append(@, NewRow(q, seen[d]))]
      /\ UNCHANGED run
  BY DEF Insert, Finish
<1>2. PICK r \in Runs : r = q.run /\ r \in DOMAIN run
  BY <1>1 DEF IInv, RequestPart, RequestsAreOfRuns, StoredPart, StoredTypes
<1> DEFINE rows == decisions[r]
           s == run[r].snapshot
           categories == run[r].categories
           before == Assess(s, categories, Taken(rows), q.decidedAt)
           after == Assess(s, categories, Taken(rows) \cup {AsDecision(q)}, q.decidedAt)
           old == Stored(r).findings
<1>3. /\ seen[d] = rows /\ rows \in Seq(Row)
      /\ q.blocks \in BOOLEAN /\ q.fingerprint \in AllFingerprints
  <2>1. seen[d] = rows
    BY <1>1, <1>2 DEF IInv, RequestPart, LockDiscipline
  <2>2. rows \in Seq(Row)
    BY DEF IInv, StoredPart
  <2>3. q.blocks \in BOOLEAN /\ q.fingerprint \in {Fingerprint(x) : x \in s.checks}
    BY <1>1, <1>2 DEF IInv, RequestPart, RequestsAreOfRuns
  <2>4. s \in Snapshots
    BY <1>2 DEF IInv, StoredPart, StoredTypes
  <2>5. QED
    BY <2>1, <2>2, <2>3, <2>4 DEF AllFingerprints
<1>4. Settles(q, rows)
  BY <1>1, <1>2, InsertSettles
<1>5. PICK c \in Failing(s.checks, s.candidate, categories, "ADVISORY") :
        /\ q.fingerprint = Fingerprint(c)
        /\ q.finding = AdvisoryFinding(c, FALSE)
        /\ Settling(s, categories, Taken(rows), AsDecision(q), c, q.decidedAt)
  BY <1>2, <1>4 DEF Settles
<1>6. Collected(s)
  BY <1>2, RunsAreCollected DEF IInv, StoredPart
<1>7. /\ decisions'[r] = Append(rows, NewRow(q, rows))
      /\ \A x \in Runs : x # r => decisions'[x] = decisions[x]
  BY <1>1, <1>2, <1>3 DEF IInv, StoredPart
<1>8. Stored(r)' = after
  <2>1. NewRow(q, rows) \in Row /\ Verdict(NewRow(q, rows)) = after
    BY <1>2, <1>4 DEF Settles
  <2>2. /\ decisions'[r] # <<>>
        /\ decisions'[r][Len(decisions'[r])] = NewRow(q, rows)
    BY <1>3, <1>7, <2>1
  <2>3. QED
    BY <2>1, <2>2 DEF Stored, Latest, Verdict
<1>9. Stored(r).status = "NEEDS_DECISION"
  BY <1>2, <1>4 DEF Settles, Stored
<1>10. OpenOf(old) = OpenOf(before.findings) /\ OtherOpen(old) = OtherOpen(before.findings)
  <2>1. PICK t \in Nat : Stored(r) = Assess(s, categories, Taken(rows), t)
    BY <1>2, StoredIsAssessed DEF IInv
  <2>2. QED
    BY <1>6, <2>1, OpenWhenever
<1>11. /\ OpenOf(after.findings) = OpenOf(old) \ {q.finding}
       /\ OtherOpen(after.findings) = OtherOpen(old)
       /\ q.blocks = TRUE => after.status = "NOT_READY"
       /\ q.blocks = FALSE => after.status = IF OpenOf(after.findings) = {}
                                                 /\ OtherOpen(after.findings) = {}
                                              THEN "READY" ELSE "NEEDS_DECISION"
  <2>1. AsDecision(q).blocks = q.blocks
    BY DEF AsDecision
  <2>2. QED
    BY <1>5, <1>10, <2>1 DEF Settling
<1>12. q.finding \in OpenOf(old) /\ q.finding.subject = q.fingerprint
  <2>1. q.finding \in OpenOf(before.findings)
    BY <1>2, <1>4 DEF Settles
  <2>2. q.finding.subject = q.fingerprint
    BY <1>5 DEF AdvisoryFinding, Finding
  <2>3. QED
    BY <1>10, <2>1, <2>2
<1>13. \A f \in OpenOf(old) : f.subject = q.fingerprint => f = q.finding
  <2>1. \A f \in OpenOf(before.findings) :
          f = Finding(AdvisoryRule, "DECISION_REQUIRED", f.subject)
    BY <1>6, OpenIsNamed
  <2>2. QED
    BY <1>10, <1>12, <2>1
<1>14. Subjects(after.findings) = Subjects(old) \ {q.fingerprint}
  BY <1>11, <1>12, <1>13 DEF Subjects
<1>15. OpenOf(after.findings) = {} <=> Subjects(old) = {q.fingerprint}
  BY <1>11, <1>12, <1>13 DEF Subjects
<1>16. IInv'
  BY InsertInv
<1>17. /\ StoredTypes /\ StoredTypes'
       /\ (r \in DOMAIN run)'
  BY <1>1, <1>2, <1>16 DEF IInv, StoredPart
<1>18. \A x \in Runs : x # r => /\ statusBar'[x] = statusBar[x]
                                /\ openBar'[x] = openBar[x]
                                /\ unclassifiedBar'[x] = unclassifiedBar[x]
  BY <1>1, <1>2, <1>7, <1>17, OthersKept
<1>19. /\ statusBar[r] = "NEEDS_DECISION"
       /\ openBar[r] = Subjects(old)
       /\ unclassifiedBar[r] = (OtherOpen(old) # {})
  BY <1>2, <1>9, <1>17, MappingOf
<1>20. /\ statusBar'[r] = after.status
       /\ openBar'[r] = Subjects(after.findings)
       /\ unclassifiedBar'[r] = (OtherOpen(after.findings) # {})
  BY <1>1, <1>2, <1>8 DEF statusBar, openBar, unclassifiedBar, OpenFindings,
                          Unclassified, Subjects, OpenOf, OtherOpen
<1>21. q.fingerprint \in openBar[r]
  BY <1>12, <1>19 DEF Subjects
<1> DEFINE f == q.fingerprint
<1>22. r \in Runs /\ f \in AllFingerprints
  BY <1>3
<1> HIDE DEF q, rows, s, categories, before, after, old, f
<1>23. /\ openBar' = [openBar EXCEPT ![r] = @ \ {f}]
       /\ unclassifiedBar' = unclassifiedBar
       /\ statusBar' = [statusBar EXCEPT ![r] = after.status]
  <2>1. openBar'[r] = openBar[r] \ {f} /\ unclassifiedBar'[r] = unclassifiedBar[r]
    BY <1>11, <1>14, <1>19, <1>20 DEF f
  <2>2. QED
    BY <1>18, <1>20, <1>22, <2>1, BarsAreFunctions
<1>24. CASE q.blocks = TRUE
  BY <1>11, <1>19, <1>21, <1>22, <1>23, <1>24 DEF Abstract!Block, f
<1>25. CASE q.blocks = FALSE
  <2>1. after.status = IF openBar[r] = {f} /\ ~unclassifiedBar[r]
                         THEN "READY" ELSE "NEEDS_DECISION"
    BY <1>11, <1>15, <1>19, <1>25 DEF f
  <2>2. QED
    BY <1>19, <1>21, <1>22, <1>23, <2>1 DEF Abstract!Accept, f
<1>26. QED
  BY <1>3, <1>24, <1>25 DEF q

-----------------------------------------------------------------------------
(***************************************************************************)
(* Every behaviour of the decision lifecycle is one RunVerdict allows.     *)
(***************************************************************************)
THEOREM Refinement == Spec => ImplementsRunVerdict
<1>1. IInv /\ [Next]_vars => [Abstract!Next]_(Abstract!vars)
  <2> SUFFICES ASSUME IInv, [Next]_vars PROVE [Abstract!Next]_(Abstract!vars)
    OBVIOUS
  <2>1. CASE \E r \in Runs : CreateRun(r)
    BY <2>1, CreateRunMaps DEF Abstract!Next
  <2>2. CASE \E d \in Deciders : Insert(d)
    BY <2>2, InsertMaps DEF Abstract!Next
  <2>3. CASE UNCHANGED <<run, decisions>>
    BY <2>3, QuietMaps DEF Abstract!vars
  <2>4. QED
    BY <2>1, <2>2, <2>3 DEF Next, vars, Tick, Submit, Acquire, Reject, Abort, Finish,
                            Read, Respond
<1>2. QED
  BY <1>1, InitMaps, Invariance, PTL DEF Spec, ImplementsRunVerdict, Abstract!Spec
=============================================================================
