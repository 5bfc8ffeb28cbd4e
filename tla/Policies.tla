------------------------------ MODULE Policies ------------------------------
(***************************************************************************)
(* The release policy of one GitHub repository: PolicyRepository and the   *)
(* policy form that uses it, while analyses pin a version and store their  *)
(* runs against it (AnalysisRepository.create_run), and while installations *)
(* are connected and disconnected (AuthRepository).                        *)
(*                                                                         *)
(* The rows of release_policies, releases and analysis_runs belong to the  *)
(* row of the repository and are deleted with it.  A row that was deleted  *)
(* and created again has another id, and its versions start again at 1.    *)
(***************************************************************************)
EXTENDS Integers, FiniteSets

CONSTANTS
  Editors,        \* open policy forms
  Analyses,       \* analysis requests
  Installations,  \* installations of the GitHub App
  Payloads,       \* the policies people save
  NoOne,          \* no installation, and nobody holds the row lock
  NoPayload,      \* policy_payload is NULL
  MaxVersion,     \* bound on the policy versions
  MaxId           \* bound on the ids of the repository row

ASSUME PolicyConstants ==
  /\ NoOne \notin Editors \cup Installations
  /\ NoPayload \notin Payloads
  /\ MaxVersion \in Nat
  /\ MaxId \in Nat

VARIABLES
  repository,  \* the row of the repository: its id, 0 for none, and installation
  issued,      \* the last id issued
  policies,    \* its policy rows, a function from the version
  runs,        \* its analysis runs
  lock,        \* the form whose save holds the row FOR UPDATE
  form,        \* what each form was last filled from
  save,        \* the save each form has sent
  analysis     \* where each analysis stands and what it pinned

vars == <<repository, issued, policies, runs, lock, form, save, analysis>>

connection == <<repository, issued>>
stored     == <<repository, issued, policies, runs>>

NoRepository == [id |-> 0, installation |-> NoOne]
NoForm       == [id |-> 0, version |-> 0, payload |-> NoPayload]
NotSaving    == [state |-> "idle"]
NotStarted   == [state |-> "idle"]

NoPolicies == [n \in {} |-> NoForm]

-----------------------------------------------------------------------------
(* _latest_statement: the newest row that is a configuration.              *)
Configured(rows) == {n \in DOMAIN rows : rows[n].payload # NoPayload}

LatestVersion(rows) ==
  IF Configured(rows) = {}
    THEN 0
    ELSE CHOOSE n \in Configured(rows) : \A m \in Configured(rows) : m <= n

PayloadOf(rows, n) == IF n = 0 THEN NoPayload ELSE rows[n].payload

(* The record a form is answered, 404 being version 0.                     *)
LatestRecord ==
  LET n == LatestVersion(policies)
  IN  [id |-> repository.id, version |-> n, payload |-> PayloadOf(policies, n)]

(* require_repository_access: the repository belongs to an installation.   *)
Access == repository.id # 0 /\ repository.installation # NoOne

With(rows, n, row) == [m \in DOMAIN rows \cup {n} |-> IF m = n THEN row ELSE rows[m]]

-----------------------------------------------------------------------------
(***************************************************************************)
(* connect_repository binds the repository to an installation, creating    *)
(* its row when there is none; disconnect_installation deletes the         *)
(* installation, and with it the row and everything that refers to it.     *)
(* Both wait for a save that holds the row.                                *)
(***************************************************************************)
Connect(i) ==
  /\ lock = NoOne
  /\ \/ /\ repository.id = 0
        /\ issued < MaxId
        /\ issued' = issued + 1
        /\ repository' = [id |-> issued + 1, installation |-> i]
     \/ /\ repository.id # 0
        /\ repository' = [repository EXCEPT !.installation = i]
        /\ UNCHANGED issued
  /\ UNCHANGED <<policies, runs, lock, form, save, analysis>>

Disconnect(i) ==
  /\ lock = NoOne
  /\ repository.id # 0
  /\ repository.installation = i
  /\ repository' = NoRepository
  /\ policies' = NoPolicies
  /\ runs' = {}
  /\ UNCHANGED <<issued, lock, form, save, analysis>>

(***************************************************************************)
(* GET /api/repositories/{id}/policy fills the form: its fields and the    *)
(* version it expects come from one record.                                *)
(***************************************************************************)
VersionOnly(e, record) ==
  [form EXCEPT ![e] = [record EXCEPT !.payload = form[e].payload]]

Filled(e, record) == [form EXCEPT ![e] = record]

Load(e) ==
  /\ save[e].state = "idle"
  /\ Access
  /\ form' = Filled(e, LatestRecord)
  /\ UNCHANGED <<stored, lock, save, analysis>>

(* PUT, once access has been checked.  A form is filled before it is sent. *)
Submit(e) ==
  /\ save[e].state = "idle"
  /\ form[e].id # 0
  /\ Access
  /\ \E p \in Payloads :
       save' = [save EXCEPT ![e] = [state |-> "waiting", payload |-> p,
                                    from |-> form[e]]]
  /\ UNCHANGED <<stored, lock, form, analysis>>

(* create_version: SELECT ... FOR UPDATE on the repository, then the       *)
(* latest version.                                                         *)
Acquire(e) ==
  /\ save[e].state = "waiting"
  /\ lock = NoOne
  /\ repository.id # 0
  /\ lock' = e
  /\ save' = [save EXCEPT ![e] = [state |-> "locked", payload |-> @.payload,
                                  from |-> @.from,
                                  actual |-> LatestVersion(policies)]]
  /\ UNCHANGED <<stored, form, analysis>>

Released(e) == IF lock = e THEN NoOne ELSE lock

NextVersion(n) == n + 1

(* Both (repository, version) and (repository, configuration_version) are  *)
(* unique.                                                                 *)
Insert(e) ==
  LET s == save[e]
      n == NextVersion(s.actual)
  IN  /\ s.state = "locked"
      /\ s.actual = s.from.version
      /\ n \notin DOMAIN policies
      /\ n <= MaxVersion
      /\ policies' = With(policies, n, [payload |-> s.payload, base |-> s.from])
      /\ save' = [save EXCEPT ![e] =
                    [state |-> "saved",
                     record |-> [id |-> repository.id, version |-> n,
                                 payload |-> s.payload]]]
      /\ lock' = Released(e)
      /\ UNCHANGED <<connection, runs, form, analysis>>

Conflict(e) ==
  /\ save[e].state = "locked"
  /\ save[e].actual # save[e].from.version
  /\ save' = [save EXCEPT ![e] = [state |-> "conflict"]]
  /\ lock' = Released(e)
  /\ UNCHANGED <<stored, form, analysis>>

(* 503: there is no repository, the version is taken by a row that is no   *)
(* configuration, or the database fails.  A lost answer looks the same to  *)
(* the form, which stays as it is.                                         *)
Unavailable(e) ==
  /\ save[e].state # "idle"
  /\ save' = [save EXCEPT ![e] = NotSaving]
  /\ lock' = Released(e)
  /\ UNCHANGED <<stored, form, analysis>>

Saved(e) ==
  /\ save[e].state = "saved"
  /\ form' = Filled(e, save[e].record)
  /\ save' = [save EXCEPT ![e] = NotSaving]
  /\ UNCHANGED <<stored, lock, analysis>>

(* 409: the form loads the latest version, if there is one.                *)
Reload(e) ==
  /\ save[e].state = "conflict"
  /\ form' = IF Access /\ LatestVersion(policies) # 0
               THEN Filled(e, LatestRecord) ELSE form
  /\ save' = [save EXCEPT ![e] = NotSaving]
  /\ UNCHANGED <<stored, lock, analysis>>

-----------------------------------------------------------------------------
(***************************************************************************)
(* AnalysisService.run pins the latest policy; the evidence is collected   *)
(* and assessed under it.                                                  *)
(***************************************************************************)
Pin(a) ==
  /\ analysis[a].state = "idle"
  /\ Access
  /\ LatestVersion(policies) # 0
  /\ analysis' = [analysis EXCEPT ![a] = [state |-> "pinned", pin |-> LatestRecord]]
  /\ UNCHANGED <<stored, lock, form, save>>

(* create_run begins: the repository row is there, or is inserted.         *)
Look(a) ==
  /\ analysis[a].state = "pinned"
  /\ analysis' = [analysis EXCEPT ![a] = [state |-> "storing", pin |-> @.pin,
                                          saw |-> repository.id]]
  /\ UNCHANGED <<stored, lock, form, save>>

(* _release_for_snapshot: rows of repository and policy are inserted when  *)
(* they are missing, the repository without an installation, the policy    *)
(* without a payload.  An insertion waits for a save that holds the row.   *)
PolicyKept(n) == n \in DOMAIN policies

Placeholder == [payload |-> NoPayload, base |-> NoForm]

PolicyOverwritten(n) == With(policies, n, Placeholder)

PolicyUpserted(n) ==
  IF PolicyKept(n) THEN policies ELSE With(policies, n, Placeholder)

Upsert(n) ==
  /\ PolicyKept(n) \/ lock = NoOne
  /\ policies' = PolicyUpserted(n)
  /\ \/ repository.id # 0 /\ UNCHANGED connection
     \/ /\ repository.id = 0
        /\ issued < MaxId
        /\ issued' = issued + 1
        /\ repository' = [id |-> issued + 1, installation |-> NoOne]

RunOfLatest(a) ==
  [of |-> a, pin |-> [analysis[a].pin EXCEPT !.version = LatestVersion(policies)]]

RunOf(a) == [of |-> a, pin |-> analysis[a].pin]

At(a, state) ==
  /\ analysis' = [analysis EXCEPT ![a] = [state |-> state, pin |-> @.pin]]
  /\ UNCHANGED <<lock, form, save>>

Store(a) ==
  /\ analysis[a].state = "storing"
  /\ analysis[a].saw = 0 \/ repository.id # 0
  /\ Upsert(analysis[a].pin.version)
  /\ runs' = runs \cup {RunOf(a)}
  /\ At(a, "stored")

(* The row found was deleted before it could be selected.  When it goes    *)
(* later a foreign key fails, which is a StoreFails.                       *)
RepositoryGone(a) ==
  /\ analysis[a].state = "storing"
  /\ analysis[a].saw # 0 /\ repository.id = 0
  /\ At(a, "raised")
  /\ UNCHANGED stored

StoreFails(a) ==
  /\ analysis[a].state = "storing"
  /\ At(a, "failing")
  /\ UNCHANGED stored

(* _record_failed_run, whose own failure is swallowed.  Its run has no     *)
(* verdict.                                                                *)
Audit(a) ==
  /\ analysis[a].state = "failing"
  /\ Upsert(analysis[a].pin.version) \/ UNCHANGED <<connection, policies>>
  /\ At(a, "raised")
  /\ UNCHANGED runs

-----------------------------------------------------------------------------
Init ==
  /\ repository = NoRepository
  /\ issued = 0
  /\ policies = NoPolicies
  /\ runs = {}
  /\ lock = NoOne
  /\ form = [e \in Editors |-> NoForm]
  /\ save = [e \in Editors |-> NotSaving]
  /\ analysis = [a \in Analyses |-> NotStarted]

Edit(e) ==
  \/ Load(e) \/ Submit(e) \/ Acquire(e) \/ Insert(e) \/ Conflict(e)
  \/ Unavailable(e) \/ Saved(e) \/ Reload(e)

Analyze(a) ==
  \/ Pin(a) \/ Look(a) \/ Store(a) \/ RepositoryGone(a) \/ StoreFails(a) \/ Audit(a)

Next ==
  \/ \E i \in Installations : Connect(i) \/ Disconnect(i)
  \/ \E e \in Editors : Edit(e)
  \/ \E a \in Analyses : Analyze(a)

Spec == Init /\ [][Next]_vars

-----------------------------------------------------------------------------
(***************************************************************************)
(* The shape of the state.                                                 *)
(***************************************************************************)
Versions == 1..MaxVersion

Records ==
  [id : 0..issued, version : {0} \cup Versions, payload : Payloads \cup {NoPayload}]

SaveType(s) ==
  \/ s = NotSaving
  \/ s = [state |-> "conflict"]
  \/ s \in [state : {"waiting"}, payload : Payloads, from : Records]
  \/ s \in [state : {"locked"}, payload : Payloads, from : Records,
            actual : {0} \cup Versions]
  \/ s \in [state : {"saved"}, record : Records]

AnalysisType(x) ==
  \/ x = NotStarted
  \/ x \in [state : {"pinned", "stored", "failing", "raised"}, pin : Records]
  \/ x \in [state : {"storing"}, pin : Records, saw : 0..issued]

TypeOK ==
  /\ issued \in 0..MaxId
  /\ repository \in [id : 0..issued, installation : Installations \cup {NoOne}]
  /\ DOMAIN policies \subseteq Versions
  /\ \A n \in DOMAIN policies :
       policies[n] \in [payload : Payloads \cup {NoPayload}, base : Records]
  /\ runs \subseteq [of : Analyses, pin : Records]
  /\ lock \in Editors \cup {NoOne}
  /\ form \in [Editors -> Records]
  /\ DOMAIN save = Editors /\ DOMAIN analysis = Analyses
  /\ \A e \in Editors : SaveType(save[e])
  /\ \A a \in Analyses : AnalysisType(analysis[a])

(***************************************************************************)
(* No edit is lost: whichever forms race, and whatever answers they miss,  *)
(* a version was saved by someone whose form had been filled from the very *)
(* version before it.  This is said of forms that were filled since the    *)
(* repository was connected (create_version, and savePolicy of the form).  *)
(***************************************************************************)
NoEditLost ==
  \A n \in Configured(policies) :
    LET base == policies[n].base
    IN  base.id = repository.id =>
          /\ base.version = n - 1
          /\ base.payload = PayloadOf(policies, n - 1)

(***************************************************************************)
(* A run can be assessed again as it was: the policy version it names is   *)
(* still stored with the payload it was assessed under, however many       *)
(* versions were saved while its evidence was collected (run, create_run). *)
(* This is said of runs whose repository was not disconnected meanwhile.   *)
(***************************************************************************)
Reassessable(run) ==
  /\ run.pin.version \in DOMAIN policies
  /\ policies[run.pin.version].payload = run.pin.payload

RunPolicyKept ==
  \A run \in runs : run.pin.id = repository.id => Reassessable(run)

(***************************************************************************)
(* The versions of a connected repository are only added to, one after the *)
(* other, by saves and analyses alike: what AnalyzeRelease and Decisions   *)
(* take for granted.                                                       *)
(***************************************************************************)
HistoryGrows ==
  [][repository'.id = repository.id =>
       /\ \A n \in DOMAIN policies :
            n \in DOMAIN policies' /\ policies'[n] = policies[n]
       /\ LatestVersion(policies') \in
            {LatestVersion(policies), LatestVersion(policies) + 1}]_vars

(***************************************************************************)
(* What docs/portfolio/architecture.md:94 says of every stored run: the    *)
(* policy that produced its verdict can be reconstructed.                  *)
(***************************************************************************)
PolicyCanBeReconstructed == \A run \in runs : Reassessable(run)
=============================================================================
