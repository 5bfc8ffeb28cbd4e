--------------------------- MODULE PoliciesProofs ---------------------------
(***************************************************************************)
(* Proofs about Policies, for any number of forms, analyses, installations *)
(* and reconnections.                                                      *)
(*                                                                         *)
(* A form, a save, a pinned policy and the base of a row all hold a record *)
(* read at some time from the repository as it was connected then.  Such a *)
(* record stays true: rows are only added while the repository stays       *)
(* connected, and a repository connected anew has an id no record has.     *)
(***************************************************************************)
EXTENDS Policies, TLAPS

True(r) ==
  r.id # 0 /\ r.id = repository.id =>
    IF r.version = 0
      THEN r.payload = NoPayload
      ELSE /\ r.version \in Configured(policies)
           /\ policies[r.version].payload = r.payload

IsPin(r) == r.id # 0 /\ r.version # 0 /\ True(r)

(* The configurations are numbered from 1 without a gap.                   *)
HistoryPart == \E k \in 0..MaxVersion : Configured(policies) = 1..k

AbsentPart == repository.id = 0 => policies = NoPolicies

(* The holder of the row lock knows the latest version.                    *)
LockPart ==
  \A e \in Editors :
    /\ save[e].state = "locked" => /\ lock = e
                                   /\ repository.id # 0
                                   /\ save[e].actual = LatestVersion(policies)
    /\ lock = e => save[e].state = "locked"

BasePart ==
  \A n \in Configured(policies) :
    /\ True(policies[n].base)
    /\ policies[n].base.id = repository.id => policies[n].base.version = n - 1

FormPart ==
  \A e \in Editors :
    /\ True(form[e])
    /\ save[e].state \in {"waiting", "locked"} => True(save[e].from)
    /\ save[e].state = "saved" => True(save[e].record)

PinPart ==
  /\ \A a \in Analyses : analysis[a].state # "idle" => IsPin(analysis[a].pin)
  /\ \A run \in runs : IsPin(run.pin)

RowsPart == HistoryPart /\ AbsentPart

IInv == TypeOK /\ RowsPart /\ LockPart /\ BasePart /\ FormPart /\ PinPart

-----------------------------------------------------------------------------
(***************************************************************************)
(* The latest version of a history without gaps is its length.             *)
(***************************************************************************)
LEMMA LatestIsLength ==
  ASSUME NEW rows, NEW k \in Nat, Configured(rows) = 1..k
  PROVE  LatestVersion(rows) = k
<1>1. CASE k = 0
  BY <1>1 DEF LatestVersion
<1>2. CASE k # 0
  <2>1. k \in Configured(rows) /\ \A m \in Configured(rows) : m <= k
    BY <1>2
  <2>2. \A n \in Configured(rows) :
          (\A m \in Configured(rows) : m <= n) => n = k
    BY <2>1
  <2>3. QED
    BY <2>1, <2>2 DEF LatestVersion
<1>3. QED
  BY <1>1, <1>2

(* What a form or an analysis reads of a connected repository is true.     *)
LEMMA LatestIsTrue ==
  ASSUME TypeOK, HistoryPart, repository.id # 0
  PROVE  /\ LatestRecord \in Records
         /\ True(LatestRecord)
         /\ LatestRecord.id = repository.id
         /\ LatestRecord.version = LatestVersion(policies)
<1>1. PICK k \in 0..MaxVersion : Configured(policies) = 1..k
  BY DEF HistoryPart
<1>2. k \in Nat /\ LatestVersion(policies) = k
  BY <1>1, LatestIsLength, PolicyConstants
<1>3. LatestRecord = [id |-> repository.id, version |-> k,
                      payload |-> PayloadOf(policies, k)]
  BY <1>2 DEF LatestRecord
<1>4. repository.id \in 0..issued
  BY DEF TypeOK
<1>5. CASE k = 0
  BY <1>2, <1>3, <1>4, <1>5 DEF True, PayloadOf, Records, Versions
<1>6. CASE k # 0
  <2>1. k \in Configured(policies) /\ k \in Versions
    BY <1>1, <1>2, <1>6, PolicyConstants DEF Versions
  <2>2. policies[k].payload \in Payloads \cup {NoPayload}
    BY <2>1 DEF TypeOK, Configured
  <2>3. QED
    BY <1>2, <1>3, <1>4, <1>6, <2>1, <2>2 DEF True, PayloadOf, Records
<1>7. QED
  BY <1>5, <1>6

(***************************************************************************)
(* How the stored rows move: rows are only added while the repository      *)
(* keeps its id, and a new id is one no record has.                        *)
(***************************************************************************)
Moved ==
  \/ /\ repository'.id = repository.id
     /\ \A n \in DOMAIN policies : n \in DOMAIN policies' /\ policies'[n] = policies[n]
  \/ repository'.id \notin 1..issued

LEMMA RecordsStayTrue ==
  ASSUME TypeOK, Moved, NEW r \in Records, True(r)
  PROVE  True(r)'
<1>1. r.id \in 0..issued /\ issued \in Nat
  BY PolicyConstants DEF Records, TypeOK
<1>2. CASE repository'.id = repository.id
            /\ \A n \in DOMAIN policies :
                 n \in DOMAIN policies' /\ policies'[n] = policies[n]
  BY <1>2 DEF True, Configured
<1>3. CASE repository'.id \notin 1..issued
  BY <1>1, <1>3 DEF True
<1>4. QED
  BY <1>2, <1>3 DEF Moved

LEMMA PinsStay ==
  ASSUME TypeOK, Moved, NEW r \in Records, IsPin(r)
  PROVE  IsPin(r)'
BY RecordsStayTrue DEF IsPin

(* A step that leaves the stored rows alone leaves what they hold alone.   *)
LEMMA Untouched ==
  ASSUME UNCHANGED stored, RowsPart, BasePart
  PROVE  /\ RowsPart' /\ BasePart' /\ Moved
         /\ \A r : True(r) => True(r)'
         /\ \A r : IsPin(r) => IsPin(r)'
         /\ LatestVersion(policies)' = LatestVersion(policies)
<1>1. policies' = policies /\ repository' = repository
  BY DEF stored
<1>2. Moved
  BY <1>1 DEF Moved
<1>3. RowsPart'
  BY <1>1 DEF RowsPart, HistoryPart, AbsentPart, Configured
<1>4. \A r : True(r)' <=> True(r)
  BY <1>1 DEF True, Configured
<1>5. BasePart'
  BY <1>1, <1>4 DEF BasePart, Configured
<1>6. QED
  BY <1>1, <1>2, <1>3, <1>4, <1>5 DEF IsPin, LatestVersion, Configured

-----------------------------------------------------------------------------
(***************************************************************************)
(* Every step keeps the invariant.                                         *)
(***************************************************************************)
LEMMA InitInv == Init => IInv
<1> SUFFICES ASSUME Init PROVE IInv
  OBVIOUS
<1> USE DEF Init
<1>1. NoForm \in Records
  BY PolicyConstants DEF NoForm, Records
<1>2. Configured(policies) = {} /\ DOMAIN policies = {}
  BY DEF NoPolicies, Configured
<1>3. TypeOK
  BY <1>1, <1>2, PolicyConstants
     DEF TypeOK, NoRepository, NotSaving, NotStarted, SaveType, AnalysisType
<1>4. RowsPart
  BY <1>2, PolicyConstants DEF RowsPart, HistoryPart, AbsentPart
<1>5. LockPart
  BY PolicyConstants DEF LockPart, NotSaving
<1>6. BasePart
  BY <1>2 DEF BasePart
<1>7. FormPart
  BY DEF FormPart, NotSaving, NoForm, True
<1>8. PinPart
  BY DEF PinPart, NotStarted
<1>9. QED
  BY <1>3, <1>4, <1>5, <1>6, <1>7, <1>8 DEF IInv

(* A step of one form that changes no stored row, and its lock only by     *)
(* taking or leaving it.                                                   *)
LEMMA FormStep ==
  ASSUME IInv, UNCHANGED <<stored, analysis>>, NEW e \in Editors,
         lock' \in Editors \cup {NoOne},
         form' \in [Editors -> Records],
         DOMAIN save' = Editors,
         \A d \in Editors \ {e} : save'[d] = save[d] /\ form'[d] = form[d],
         SaveType(save'[e]),
         LockPart',
         True(form'[e]),
         save'[e].state \in {"waiting", "locked"} => True(save'[e].from),
         save'[e].state # "saved"
  PROVE  IInv'
<1>1. RowsPart' /\ BasePart'
  BY Untouched DEF IInv
<1>2. \A r : True(r) => True(r)'
  BY Untouched DEF IInv
<1>3. \A r : IsPin(r) => IsPin(r)'
  BY Untouched DEF IInv
<1>4. TypeOK'
  <2>1. \A d \in Editors : SaveType(save'[d])
    BY DEF IInv, TypeOK
  <2>2. \A d \in Editors : SaveType(save[d])'
    BY <2>1 DEF SaveType, stored, Records
  <2>3. \A a \in Analyses : AnalysisType(analysis[a])'
    BY DEF IInv, TypeOK, AnalysisType, stored, Records
  <2>4. QED
    BY <2>2, <2>3 DEF IInv, TypeOK, stored, Records
<1>5. FormPart'
  <2> SUFFICES ASSUME NEW d \in Editors
               PROVE  /\ True(form[d])'
                      /\ save'[d].state \in {"waiting", "locked"} => True(save[d].from)'
                      /\ save'[d].state = "saved" => True(save[d].record)'
    BY DEF FormPart
  <2>1. CASE d = e
    BY <2>1, <1>2
  <2>2. CASE d # e
    BY <2>2, <1>2 DEF IInv, FormPart
  <2>3. QED
    BY <2>1, <2>2
<1>6. PinPart'
  <2>1. analysis' = analysis /\ runs' = runs
    BY DEF stored
  <2>2. QED
    BY <2>1, <1>3 DEF IInv, PinPart
<1>7. QED
  BY <1>1, <1>4, <1>5, <1>6 DEF IInv

(* A form that does not hold the lock afterwards leaves it as it should be. *)
LEMMA LockLeft ==
  ASSUME IInv, UNCHANGED <<stored>>, NEW e \in Editors,
         lock' = Released(e),
         \A d \in Editors \ {e} : save'[d] = save[d],
         save'[e].state # "locked"
  PROVE  LockPart' /\ lock' \in Editors \cup {NoOne}
<1>1. LatestVersion(policies)' = LatestVersion(policies) /\ repository' = repository
  BY Untouched DEF IInv, stored
<1>2. lock \in Editors \cup {NoOne} /\ NoOne \notin Editors
  BY PolicyConstants DEF IInv, TypeOK
<1>3. QED
  BY <1>1, <1>2 DEF IInv, LockPart, Released

LEMMA LoadInv ==
  ASSUME IInv, NEW e \in Editors, Load(e)
  PROVE  IInv'
<1>1. LatestRecord \in Records /\ True(LatestRecord)
  BY LatestIsTrue DEF IInv, RowsPart, Load, Access
<1>2. form' = [form EXCEPT ![e] = LatestRecord] /\ save[e].state = "idle"
      /\ UNCHANGED <<stored, lock, save, analysis>>
  BY DEF Load, Filled
<1>3. form' \in [Editors -> Records] /\ form'[e] = LatestRecord
      /\ \A d \in Editors \ {e} : form'[d] = form[d]
  BY <1>1, <1>2 DEF IInv, TypeOK
<1>4. lock' = Released(e)
  BY <1>2 DEF IInv, LockPart, Released
<1>5. LockPart' /\ lock' \in Editors \cup {NoOne}
  BY <1>2, <1>4, LockLeft
<1>6. SaveType(save'[e]) /\ DOMAIN save' = Editors
  BY <1>2 DEF IInv, TypeOK
<1>7. QED
  BY <1>1, <1>2, <1>3, <1>5, <1>6, FormStep

LEMMA SubmitInv ==
  ASSUME IInv, NEW e \in Editors, Submit(e)
  PROVE  IInv'
<1>1. PICK p \in Payloads :
        save' = [save EXCEPT ![e] = [state |-> "waiting", payload |-> p,
                                     from |-> form[e]]]
  BY DEF Submit
<1>2. UNCHANGED <<stored, lock, form, analysis>> /\ save[e].state = "idle"
  BY DEF Submit
<1>3. form \in [Editors -> Records] /\ DOMAIN save = Editors /\ True(form[e])
  BY DEF IInv, TypeOK, FormPart
<1>4. save'[e] = [state |-> "waiting", payload |-> p, from |-> form[e]]
      /\ DOMAIN save' = Editors
      /\ \A d \in Editors \ {e} : save'[d] = save[d]
  BY <1>1, <1>3
<1>5. SaveType(save'[e])
  BY <1>3, <1>4 DEF SaveType
<1>6. lock' = Released(e)
  BY <1>2 DEF IInv, LockPart, Released
<1>7. LockPart' /\ lock' \in Editors \cup {NoOne}
  BY <1>2, <1>4, <1>6, LockLeft
<1>8. QED
  BY <1>2, <1>3, <1>4, <1>5, <1>7, FormStep

LEMMA AcquireInv ==
  ASSUME IInv, NEW e \in Editors, Acquire(e)
  PROVE  IInv'
<1> DEFINE locked == [state |-> "locked", payload |-> save[e].payload,
                      from |-> save[e].from, actual |-> LatestVersion(policies)]
<1>1. /\ save[e].state = "waiting" /\ lock = NoOne /\ repository.id # 0
      /\ lock' = e /\ save' = [save EXCEPT ![e] = locked]
      /\ UNCHANGED <<stored, form, analysis>>
  BY DEF Acquire
<1>2. DOMAIN save = Editors /\ form \in [Editors -> Records]
      /\ save[e] \in [state : {"waiting"}, payload : Payloads, from : Records]
  BY <1>1 DEF IInv, TypeOK, SaveType, NotSaving
<1>3. save'[e] = locked /\ DOMAIN save' = Editors
      /\ \A d \in Editors \ {e} : save'[d] = save[d]
  BY <1>1, <1>2
<1>4. LatestVersion(policies) \in {0} \cup Versions
  BY <1>1, LatestIsTrue DEF IInv, RowsPart, Records
<1>5. SaveType(save'[e])
  BY <1>2, <1>3, <1>4 DEF SaveType
<1>6. LockPart'
  <2>1. LatestVersion(policies)' = LatestVersion(policies) /\ repository' = repository
    BY <1>1, Untouched DEF IInv, stored
  <2>2. \A d \in Editors : save[d].state # "locked" /\ d # NoOne
    BY <1>1, PolicyConstants DEF IInv, LockPart
  <2>3. QED
    BY <1>1, <1>3, <2>1, <2>2 DEF LockPart
<1>7. True(save'[e].from) /\ True(form'[e])
  BY <1>1, <1>3 DEF IInv, FormPart
<1>8. QED
  BY <1>1, <1>2, <1>3, <1>5, <1>6, <1>7, FormStep

(* The save ends, refused or failed, and its form may have been filled.    *)
LEMMA SaveEnds ==
  ASSUME IInv, NEW e \in Editors, NEW ended, ended \in {NotSaving, [state |-> "conflict"]},
         NEW filled \in Records, True(filled),
         form' = [form EXCEPT ![e] = filled],
         save' = [save EXCEPT ![e] = ended], lock' = Released(e),
         UNCHANGED <<stored, analysis>>
  PROVE  IInv'
<1>1. DOMAIN save = Editors /\ form \in [Editors -> Records]
  BY DEF IInv, TypeOK
<1>2. save'[e] = ended /\ DOMAIN save' = Editors
      /\ \A d \in Editors \ {e} : save'[d] = save[d] /\ form'[d] = form[d]
  BY <1>1
<1>3. form' \in [Editors -> Records] /\ form'[e] = filled
  BY <1>1
<1>4. SaveType(save'[e]) /\ save'[e].state \in {"idle", "conflict"}
  BY <1>2 DEF SaveType, NotSaving
<1>5. LockPart' /\ lock' \in Editors \cup {NoOne}
  BY <1>2, <1>4, LockLeft
<1>6. QED
  BY <1>2, <1>3, <1>4, <1>5, FormStep

LEMMA ConflictInv ==
  ASSUME IInv, NEW e \in Editors, Conflict(e) \/ Unavailable(e)
  PROVE  IInv'
<1>1. form \in [Editors -> Records] /\ form' = form
  BY DEF IInv, TypeOK, Conflict, Unavailable
<1>2. form' = [form EXCEPT ![e] = form[e]]
  BY <1>1
<1>3. True(form[e])
  BY DEF IInv, FormPart
<1>4. PICK ended \in {NotSaving, [state |-> "conflict"]} :
        save' = [save EXCEPT ![e] = ended]
  BY DEF Conflict, Unavailable
<1>5. lock' = Released(e) /\ UNCHANGED <<stored, analysis>>
  BY DEF Conflict, Unavailable
<1>6. QED
  BY <1>1, <1>2, <1>3, <1>4, <1>5, SaveEnds

LEMMA SavedInv ==
  ASSUME IInv, NEW e \in Editors, Saved(e)
  PROVE  IInv'
<1>1. save[e].state = "saved" /\ UNCHANGED <<stored, lock, analysis>>
      /\ form' = [form EXCEPT ![e] = save[e].record]
      /\ save' = [save EXCEPT ![e] = NotSaving]
  BY DEF Saved, Filled
<1>2. save[e].record \in Records
  BY <1>1 DEF IInv, TypeOK, SaveType, NotSaving
<1>3. True(save[e].record)
  BY <1>1 DEF IInv, FormPart
<1>4. lock' = Released(e)
  BY <1>1 DEF IInv, LockPart, Released
<1>5. QED
  BY <1>1, <1>2, <1>3, <1>4, SaveEnds

LEMMA ReloadInv ==
  ASSUME IInv, NEW e \in Editors, Reload(e)
  PROVE  IInv'
<1>1. save[e].state = "conflict" /\ UNCHANGED <<stored, lock, analysis>>
      /\ save' = [save EXCEPT ![e] = NotSaving]
  BY DEF Reload
<1>2. lock' = Released(e)
  BY <1>1 DEF IInv, LockPart, Released
<1>3. form \in [Editors -> Records] /\ True(form[e])
  BY DEF IInv, TypeOK, FormPart
<1>4. PICK filled \in Records : True(filled) /\ form' = [form EXCEPT ![e] = filled]
  <2>1. CASE Access /\ LatestVersion(policies) # 0
    <3>1. LatestRecord \in Records /\ True(LatestRecord)
      BY <2>1, LatestIsTrue DEF IInv, RowsPart, Access
    <3>2. form' = [form EXCEPT ![e] = LatestRecord]
      BY <2>1 DEF Reload, Filled
    <3>3. QED
      BY <3>1, <3>2
  <2>2. CASE ~(Access /\ LatestVersion(policies) # 0)
    <3>1. form' = [form EXCEPT ![e] = form[e]]
      BY <1>3, <2>2 DEF Reload
    <3>2. QED
      BY <1>3, <3>1
  <2>3. QED
    BY <2>1, <2>2
<1>5. QED
  BY <1>1, <1>2, <1>4, SaveEnds

(***************************************************************************)
(* Steps that move the stored rows.                                        *)
(***************************************************************************)
LEMMA FormsStay ==
  ASSUME TypeOK, Moved, FormPart, UNCHANGED <<form, save>>
  PROVE  FormPart'
<1> SUFFICES ASSUME NEW e \in Editors
             PROVE  /\ True(form[e])'
                    /\ save'[e].state \in {"waiting", "locked"} => True(save[e].from)'
                    /\ save'[e].state = "saved" => True(save[e].record)'
  BY DEF FormPart
<1>1. form[e] \in Records /\ SaveType(save[e])
  BY DEF TypeOK
<1>2. True(form[e])'
  BY <1>1, RecordsStayTrue DEF FormPart
<1>3. ASSUME save[e].state \in {"waiting", "locked"}
      PROVE  True(save[e].from)'
  <2>1. save[e].from \in Records
    BY <1>1, <1>3 DEF SaveType, NotSaving
  <2>2. QED
    BY <1>3, <2>1, RecordsStayTrue DEF FormPart
<1>4. ASSUME save[e].state = "saved"
      PROVE  True(save[e].record)'
  <2>1. save[e].record \in Records
    BY <1>1, <1>4 DEF SaveType, NotSaving
  <2>2. QED
    BY <1>4, <2>1, RecordsStayTrue DEF FormPart
<1>5. QED
  BY <1>2, <1>3, <1>4

LEMMA AnalysisPins ==
  ASSUME TypeOK, NEW a \in Analyses, analysis[a].state # "idle"
  PROVE  analysis[a].pin \in Records
BY DEF TypeOK, AnalysisType, NotStarted

LEMMA PinsRemain ==
  ASSUME TypeOK, Moved, PinPart,
         \A b \in Analyses : analysis'[b].state # "idle" =>
            analysis[b].state # "idle" /\ analysis'[b].pin = analysis[b].pin,
         \A run \in runs' :
            \/ run \in runs
            \/ \E b \in Analyses : analysis[b].state # "idle" /\ run.pin = analysis[b].pin
  PROVE  PinPart'
<1>1. \A b \in Analyses : analysis[b].state # "idle" =>
        analysis[b].pin \in Records /\ IsPin(analysis[b].pin)
  BY AnalysisPins DEF PinPart
<1>2. \A run \in runs : run.pin \in Records /\ IsPin(run.pin)
  BY DEF TypeOK, PinPart
<1>3. \A r \in Records : IsPin(r) => IsPin(r)'
  BY PinsStay
<1>4. ASSUME NEW b \in Analyses, analysis'[b].state # "idle"
      PROVE  IsPin(analysis[b].pin)'
  <2>1. PICK r \in Records : IsPin(r) /\ r = analysis'[b].pin
    BY <1>1, <1>4
  <2>2. IsPin(r)'
    BY <1>3, <2>1
  <2>3. QED
    BY <2>1, <2>2
<1>5. ASSUME NEW run \in runs'
      PROVE  IsPin(run.pin)'
  <2>1. PICK r \in Records : IsPin(r) /\ r = run.pin
    BY <1>1, <1>2, <1>5
  <2>2. IsPin(r)'
    BY <1>3, <2>1
  <2>3. QED
    BY <2>1, <2>2
<1>6. QED
  BY <1>4, <1>5 DEF PinPart

LEMMA ConnectInv ==
  ASSUME IInv, NEW i \in Installations, Connect(i)
  PROVE  IInv'
<1>1. UNCHANGED <<policies, runs, lock, form, save, analysis>> /\ lock = NoOne
  BY DEF Connect
<1>2. \/ /\ repository.id = 0 /\ issued' = issued + 1 /\ issued < MaxId
         /\ repository' = [id |-> issued + 1, installation |-> i]
      \/ /\ repository.id # 0 /\ issued' = issued
         /\ repository' = [id |-> repository.id, installation |-> i]
  BY DEF Connect, IInv, TypeOK
<1>3. issued \in 0..MaxId /\ MaxId \in Nat
  BY PolicyConstants DEF IInv, TypeOK
<1>4. Moved
  BY <1>1, <1>2, <1>3 DEF Moved
<1>5. TypeOK'
  <2>1. issued' \in 0..MaxId /\ issued <= issued'
    BY <1>2, <1>3
  <2>2. \A r \in Records : r \in Records'
    BY <1>3, <2>1 DEF Records
  <2>3. repository' \in [id : 0..issued', installation : Installations \cup {NoOne}]
    BY <1>2, <1>3 DEF IInv, TypeOK
  <2>4. \A e \in Editors : SaveType(save[e])'
    BY <1>1, <2>2 DEF IInv, TypeOK, SaveType
  <2>5. \A a \in Analyses : AnalysisType(analysis[a])'
    BY <1>1, <1>3, <2>1, <2>2 DEF IInv, TypeOK, AnalysisType
  <2>6. \A n \in DOMAIN policies :
          policies[n] \in [payload : Payloads \cup {NoPayload}, base : Records']
    BY <2>2 DEF IInv, TypeOK
  <2>7. runs \subseteq [of : Analyses, pin : Records']
    BY <2>2 DEF IInv, TypeOK
  <2>8. form \in [Editors -> Records']
    BY <2>2 DEF IInv, TypeOK
  <2>9. QED
    BY <1>1, <2>1, <2>3, <2>4, <2>5, <2>6, <2>7, <2>8 DEF IInv, TypeOK
<1>6. RowsPart'
  BY <1>1, <1>2, <1>3 DEF IInv, TypeOK, RowsPart, HistoryPart, AbsentPart, Configured
<1>7. LockPart'
  BY <1>1, PolicyConstants DEF IInv, LockPart
<1>8. BasePart'
  <2> SUFFICES ASSUME NEW n \in Configured(policies)
               PROVE  /\ True(policies[n].base)'
                      /\ policies[n].base.id = repository'.id
                           => policies[n].base.version = n - 1
    BY <1>1 DEF BasePart, Configured
  <2>1. policies[n].base \in Records
    BY DEF IInv, TypeOK, Configured
  <2>2. True(policies[n].base)'
    BY <1>1, <2>1, <1>4, RecordsStayTrue DEF IInv, BasePart
  <2>3. repository.id # 0
    BY DEF IInv, RowsPart, AbsentPart, NoPolicies, Configured
  <2>4. repository'.id = repository.id
    BY <1>2, <2>3
  <2>5. policies[n].base.id = repository.id => policies[n].base.version = n - 1
    BY DEF IInv, BasePart
  <2>6. QED
    BY <2>2, <2>4, <2>5
<1>9. FormPart'
  BY <1>1, <1>4, FormsStay DEF IInv
<1>10. PinPart'
  BY <1>1, <1>4, PinsRemain DEF IInv
<1>11. QED
  BY <1>5, <1>6, <1>7, <1>8, <1>9, <1>10 DEF IInv

LEMMA DisconnectInv ==
  ASSUME IInv, NEW i \in Installations, Disconnect(i)
  PROVE  IInv'
<1>1. /\ UNCHANGED <<issued, lock, form, save, analysis>> /\ lock = NoOne
      /\ repository' = NoRepository /\ policies' = NoPolicies /\ runs' = {}
  BY DEF Disconnect
<1>2. issued \in 0..MaxId /\ MaxId \in Nat
  BY PolicyConstants DEF IInv, TypeOK
<1>3. Moved
  BY <1>1 DEF Moved, NoRepository
<1>4. Configured(policies') = {} /\ DOMAIN policies' = {}
  BY <1>1 DEF NoPolicies, Configured
<1>5. TypeOK'
  <2>1. Records' = Records
    BY <1>1 DEF Records
  <2>2. \A e \in Editors : SaveType(save[e])'
    BY <1>1, <2>1 DEF IInv, TypeOK, SaveType
  <2>3. \A a \in Analyses : AnalysisType(analysis[a])'
    BY <1>1, <2>1 DEF IInv, TypeOK, AnalysisType
  <2>4. QED
    BY <1>1, <1>2, <1>4, <2>1, <2>2, <2>3 DEF IInv, TypeOK, NoRepository
<1>6. RowsPart'
  BY <1>1, <1>4, PolicyConstants DEF RowsPart, HistoryPart, AbsentPart, Configured
<1>7. LockPart'
  BY <1>1, PolicyConstants DEF IInv, LockPart
<1>8. BasePart'
  BY <1>4 DEF BasePart, Configured
<1>9. FormPart'
  BY <1>1, <1>3, FormsStay DEF IInv
<1>10. PinPart'
  BY <1>1, <1>3, PinsRemain DEF IInv
<1>11. QED
  BY <1>5, <1>6, <1>7, <1>8, <1>9, <1>10 DEF IInv

(* A saved version becomes the latest, and leaves the others alone.        *)
LEMMA InsertGrows ==
  ASSUME IInv, NEW e \in Editors, Insert(e)
  PROVE  /\ \A m \in DOMAIN policies : m \in DOMAIN policies' /\ policies'[m] = policies[m]
         /\ LatestVersion(policies') = LatestVersion(policies) + 1
<1> DEFINE n == save[e].actual + 1
           row == [payload |-> save[e].payload, base |-> save[e].from]
<1>1. /\ save[e].state = "locked" /\ n \notin DOMAIN policies
      /\ policies' = With(policies, n, row)
  BY DEF Insert, NextVersion
<1>2. save[e].payload \in Payloads /\ save[e].actual = LatestVersion(policies)
  BY <1>1 DEF IInv, TypeOK, SaveType, NotSaving, LockPart
<1>3. /\ DOMAIN policies' = DOMAIN policies \cup {n}
      /\ policies'[n] = row
      /\ \A m \in DOMAIN policies : policies'[m] = policies[m]
  BY <1>1 DEF With
<1>4. PICK k \in 0..MaxVersion : Configured(policies) = 1..k
  BY DEF IInv, RowsPart, HistoryPart
<1>5. k \in Nat /\ n = k + 1 /\ LatestVersion(policies) = k
  BY <1>2, <1>4, LatestIsLength, PolicyConstants
<1>6. Configured(policies') = 1..k \cup {k + 1}
  BY <1>1, <1>2, <1>3, <1>4, <1>5, PolicyConstants DEF Configured
<1>7. k + 1 \in Nat /\ 1..k \cup {k + 1} = 1..(k + 1)
  BY <1>5
<1>8. Configured(policies') = 1..(k + 1)
  BY <1>6, <1>7
<1>9. LatestVersion(policies') = k + 1
  BY <1>7, <1>8, LatestIsLength
<1>10. QED
  BY <1>3, <1>5, <1>9

(* A row appended to the history: nothing else of the history changes.     *)
LEMMA InsertInv ==
  ASSUME IInv, NEW e \in Editors, Insert(e)
  PROVE  IInv'
<1> DEFINE s == save[e]
           n == s.actual + 1
           row == [payload |-> s.payload, base |-> s.from]
           record == [id |-> repository.id, version |-> n, payload |-> s.payload]
           saved == [state |-> "saved", record |-> record]
<1>1. /\ s.state = "locked" /\ s.actual = s.from.version
      /\ n \notin DOMAIN policies /\ n <= MaxVersion
      /\ policies' = With(policies, n, row)
      /\ save' = [save EXCEPT ![e] = saved]
      /\ lock' = Released(e)
      /\ UNCHANGED <<connection, runs, form, analysis>>
  BY DEF Insert, NextVersion
<1>2. s \in [state : {"locked"}, payload : Payloads, from : Records,
             actual : {0} \cup Versions]
  BY <1>1 DEF IInv, TypeOK, SaveType, NotSaving
<1>3. lock = e /\ repository.id # 0 /\ s.actual = LatestVersion(policies)
  BY <1>1 DEF IInv, LockPart
<1>4. PICK k \in 0..MaxVersion : Configured(policies) = 1..k
  BY DEF IInv, RowsPart, HistoryPart
<1>5. s.actual = k /\ n = k + 1 /\ n \in Versions /\ k \in Nat
  BY <1>1, <1>3, <1>4, LatestIsLength, PolicyConstants DEF Versions
<1>6. /\ DOMAIN policies' = DOMAIN policies \cup {n}
      /\ policies'[n] = row
      /\ \A m \in DOMAIN policies : policies'[m] = policies[m]
  BY <1>1 DEF With
<1>7. Configured(policies') = Configured(policies) \cup {n}
  <2>1. row.payload # NoPayload
    BY <1>2, PolicyConstants
  <2>2. QED
    BY <1>1, <1>6, <2>1 DEF Configured
<1>8. Moved
  BY <1>1, <1>6 DEF Moved, connection
<1>9. record \in Records
  BY <1>2, <1>5 DEF IInv, TypeOK, Records
<1>10. save'[e] = saved /\ DOMAIN save' = Editors
       /\ \A d \in Editors \ {e} : save'[d] = save[d]
  BY <1>1 DEF IInv, TypeOK
<1>11. TypeOK'
  <2>1. Records' = Records
    BY <1>1 DEF Records, connection
  <2>2. \A d \in Editors : SaveType(save'[d])
    BY <1>9, <1>10 DEF IInv, TypeOK, SaveType
  <2>3. \A d \in Editors : SaveType(save[d])'
    BY <2>1, <2>2 DEF SaveType
  <2>4. \A a \in Analyses : AnalysisType(analysis[a])'
    BY <1>1, <2>1 DEF IInv, TypeOK, AnalysisType, connection
  <2>5. row \in [payload : Payloads \cup {NoPayload}, base : Records]
    BY <1>2
  <2>6. \A m \in DOMAIN policies' :
          policies'[m] \in [payload : Payloads \cup {NoPayload}, base : Records]
    BY <1>6, <2>5 DEF IInv, TypeOK
  <2>7. lock' \in Editors \cup {NoOne}
    BY <1>1 DEF IInv, TypeOK, Released
  <2>8. DOMAIN policies' \subseteq Versions
    BY <1>5, <1>6 DEF IInv, TypeOK
  <2>9. QED
    BY <1>1, <1>10, <2>1, <2>3, <2>4, <2>6, <2>7, <2>8
       DEF IInv, TypeOK, connection, Versions
<1>12. RowsPart'
  <2>1. Configured(policies') = 1..(k + 1) /\ k + 1 \in 0..MaxVersion
    <3>1. n <= MaxVersion /\ MaxVersion \in Nat /\ n = k + 1
      BY <1>1, <1>5, PolicyConstants
    <3>2. 1..(k + 1) = 1..k \cup {k + 1}
      BY <1>5
    <3>3. QED
      BY <1>4, <1>5, <1>7, <3>1, <3>2
  <2>2. QED
    BY <1>1, <1>3, <2>1 DEF RowsPart, HistoryPart, AbsentPart, connection
<1>13. LockPart'
  <2>1. \A d \in Editors \ {e} : save[d].state # "locked"
    BY <1>3 DEF IInv, LockPart
  <2>2. lock' = NoOne
    BY <1>1, <1>3 DEF Released
  <2>3. QED
    BY <1>10, <2>1, <2>2, PolicyConstants DEF LockPart
<1>14. \A r \in Records : True(r) => True(r)'
  BY <1>8, RecordsStayTrue DEF IInv
<1>15. BasePart'
  <2> SUFFICES ASSUME NEW m \in Configured(policies')
               PROVE  /\ True(policies[m].base)'
                      /\ policies'[m].base.id = repository'.id
                           => policies'[m].base.version = m - 1
    BY DEF BasePart
  <2>1. repository' = repository
    BY <1>1 DEF connection
  <2>2. PICK r \in Records : r = policies'[m].base /\ True(r)
    <3>1. CASE m = n
      BY <3>1, <1>1, <1>2, <1>6 DEF IInv, FormPart
    <3>2. CASE m # n
      <4>1. m \in Configured(policies) /\ policies'[m] = policies[m]
        BY <1>6, <1>7, <3>2 DEF Configured
      <4>2. QED
        BY <4>1 DEF IInv, TypeOK, BasePart, Configured
    <3>3. QED
      BY <3>1, <3>2
  <2>3. True(r)'
    BY <2>2, <1>14
  <2>4. policies'[m].base.id = repository.id => policies'[m].base.version = m - 1
    <3>1. CASE m = n
      <4>1. policies'[m].base = s.from /\ s.from.version = s.actual
        BY <3>1, <1>1, <1>6
      <4>2. s.actual = m - 1
        BY <3>1, <1>5
      <4>3. QED
        BY <4>1, <4>2
    <3>2. CASE m # n
      <4>1. m \in Configured(policies) /\ policies'[m] = policies[m]
        BY <1>6, <1>7, <3>2 DEF Configured
      <4>2. QED
        BY <4>1 DEF IInv, BasePart
    <3>3. QED
      BY <3>1, <3>2
  <2>5. QED
    BY <2>1, <2>2, <2>3, <2>4
<1>16. FormPart'
  <2>1. PICK c \in Records : c = record
    BY <1>9
  <2>2. True(c)'
    <3>1. c.version \in Configured(policies')
          /\ policies'[c.version].payload = c.payload /\ c.version # 0
      BY <1>5, <1>6, <1>7, <2>1
    <3>2. QED
      BY <3>1 DEF True
  <2>3. save'[e].state = "saved" /\ save'[e].record = c
    BY <1>10, <2>1
  <2> SUFFICES ASSUME NEW d \in Editors
               PROVE  /\ True(form[d])'
                      /\ save'[d].state \in {"waiting", "locked"} => True(save[d].from)'
                      /\ save'[d].state = "saved" => True(save[d].record)'
    BY DEF FormPart
  <2>4. PICK f \in Records : f = form'[d] /\ True(f)
    BY <1>1 DEF IInv, TypeOK, FormPart
  <2>5. True(form[d])'
    BY <2>4, <1>14
  <2>6. CASE d = e
    BY <2>2, <2>3, <2>5, <2>6
  <2>7. CASE d # e
    <3>1. save'[d] = save[d] /\ SaveType(save[d])
      BY <1>10, <2>7 DEF IInv, TypeOK
    <3>2. ASSUME save'[d].state \in {"waiting", "locked"}
          PROVE  True(save[d].from)'
      <4>1. PICK r \in Records : r = save'[d].from /\ True(r)
        BY <3>1, <3>2 DEF IInv, FormPart, SaveType, NotSaving
      <4>2. QED
        BY <4>1, <1>14
    <3>3. ASSUME save'[d].state = "saved"
          PROVE  True(save[d].record)'
      <4>1. PICK r \in Records : r = save'[d].record /\ True(r)
        BY <3>1, <3>3 DEF IInv, FormPart, SaveType, NotSaving
      <4>2. QED
        BY <4>1, <1>14
    <3>4. QED
      BY <2>5, <3>2, <3>3
  <2>8. QED
    BY <2>6, <2>7
<1>17. PinPart'
  BY <1>1, <1>8, PinsRemain DEF IInv
<1>18. QED
  BY <1>11, <1>12, <1>13, <1>15, <1>16, <1>17 DEF IInv

(* A step of one analysis that changes no stored row.                      *)
LEMMA AnalysisStep ==
  ASSUME IInv, NEW a \in Analyses, NEW x,
         UNCHANGED <<stored, lock, form, save>>,
         analysis' = [analysis EXCEPT ![a] = x],
         AnalysisType(x), IsPin(x.pin)
  PROVE  IInv'
<1>1. RowsPart' /\ BasePart'
  BY Untouched DEF IInv
<1>2. \A r : True(r) => True(r)'
  BY Untouched DEF IInv
<1>3. \A r : IsPin(r) => IsPin(r)'
  BY Untouched DEF IInv
<1>4. LatestVersion(policies)' = LatestVersion(policies)
  BY Untouched DEF IInv
<1>5. analysis'[a] = x /\ DOMAIN analysis' = Analyses
      /\ \A b \in Analyses \ {a} : analysis'[b] = analysis[b]
  BY DEF IInv, TypeOK
<1>6. TypeOK'
  <2>1. \A e \in Editors : SaveType(save[e])'
    BY DEF IInv, TypeOK, SaveType, stored, Records
  <2>2. \A b \in Analyses : AnalysisType(analysis'[b])
    BY <1>5 DEF IInv, TypeOK
  <2>3. \A b \in Analyses : AnalysisType(analysis[b])'
    BY <2>2 DEF AnalysisType, stored, Records
  <2>4. QED
    BY <1>5, <2>1, <2>3 DEF IInv, TypeOK, stored, Records
<1>7. LockPart'
  BY <1>4 DEF IInv, LockPart, stored
<1>8. FormPart'
  BY <1>2 DEF IInv, FormPart
<1>9. PinPart'
  <2>1. \A b \in Analyses : analysis'[b].state # "idle" => IsPin(analysis[b].pin)'
    <3> SUFFICES ASSUME NEW b \in Analyses, analysis'[b].state # "idle"
                 PROVE  IsPin(analysis[b].pin)'
      OBVIOUS
    <3>1. IsPin(analysis'[b].pin)
      BY <1>5 DEF IInv, PinPart
    <3>2. QED
      BY <3>1, <1>3
  <2>2. \A run \in runs' : IsPin(run.pin)'
    BY <1>3 DEF IInv, PinPart, stored
  <2>3. QED
    BY <2>1, <2>2 DEF PinPart
<1>10. QED
  BY <1>1, <1>6, <1>7, <1>8, <1>9 DEF IInv

LEMMA PinInv ==
  ASSUME IInv, NEW a \in Analyses, Pin(a)
  PROVE  IInv'
<1> DEFINE x == [state |-> "pinned", pin |-> LatestRecord]
<1>1. Access /\ LatestVersion(policies) # 0
      /\ analysis' = [analysis EXCEPT ![a] = x]
      /\ UNCHANGED <<stored, lock, form, save>>
  BY DEF Pin
<1>2. LatestRecord \in Records /\ IsPin(LatestRecord)
  BY <1>1, LatestIsTrue DEF IInv, RowsPart, Access, IsPin
<1>3. AnalysisType(x)
  BY <1>2 DEF AnalysisType
<1>4. QED
  BY <1>1, <1>2, <1>3, AnalysisStep

(* An analysis that goes on, as it finds or fails to find what it stores.  *)
LEMMA LookInv ==
  ASSUME IInv, NEW a \in Analyses,
         \/ Look(a) \/ RepositoryGone(a) \/ StoreFails(a)
         \/ analysis[a].state = "failing" /\ At(a, "raised") /\ UNCHANGED stored
  PROVE  IInv'
<1>1. analysis[a].state # "idle"
  BY DEF Look, RepositoryGone, StoreFails
<1>2. analysis[a].pin \in Records /\ IsPin(analysis[a].pin)
  BY <1>1, AnalysisPins DEF IInv, PinPart
<1>3. UNCHANGED <<stored, lock, form, save>>
  BY DEF Look, RepositoryGone, StoreFails, At
<1>4. PICK x : AnalysisType(x) /\ x.pin = analysis[a].pin
               /\ analysis' = [analysis EXCEPT ![a] = x]
  <2>1. repository.id \in 0..issued
    BY DEF IInv, TypeOK
  <2>2. CASE Look(a)
    <3>1. AnalysisType([state |-> "storing", pin |-> analysis[a].pin,
                        saw |-> repository.id])
      BY <1>2, <2>1 DEF AnalysisType
    <3>2. QED
      BY <2>2, <3>1 DEF Look
  <2>3. CASE \E state \in {"failing", "raised"} : At(a, state)
    <3>1. PICK state \in {"failing", "raised"} : At(a, state)
      BY <2>3
    <3>2. AnalysisType([state |-> state, pin |-> analysis[a].pin])
      BY <1>2 DEF AnalysisType
    <3>3. QED
      BY <3>1, <3>2 DEF At
  <2>4. QED
    BY <2>2, <2>3 DEF RepositoryGone, StoreFails
<1>5. QED
  BY <1>2, <1>3, <1>4, AnalysisStep

(* Rows inserted only when they are missing: the history does not change.  *)
LEMMA UpsertMoves ==
  ASSUME IInv, NEW n \in Versions, Upsert(n)
  PROVE  /\ Configured(policies') = Configured(policies)
         /\ \A m \in DOMAIN policies : m \in DOMAIN policies' /\ policies'[m] = policies[m]
         /\ DOMAIN policies' \subseteq DOMAIN policies \cup {n}
         /\ \A m \in DOMAIN policies' \ DOMAIN policies : policies'[m] = Placeholder
<1>1. policies' = IF n \in DOMAIN policies THEN policies ELSE With(policies, n, Placeholder)
  BY DEF Upsert, PolicyUpserted, PolicyKept
<1>2. CASE n \in DOMAIN policies
  BY <1>1, <1>2
<1>3. CASE n \notin DOMAIN policies
  <2>1. /\ DOMAIN policies' = DOMAIN policies \cup {n}
        /\ policies'[n] = Placeholder
        /\ \A m \in DOMAIN policies : policies'[m] = policies[m]
    BY <1>1, <1>3 DEF With
  <2>2. Configured(policies') = Configured(policies)
    BY <1>3, <2>1 DEF Configured, Placeholder
  <2>3. QED
    BY <2>1, <2>2
<1>4. QED
  BY <1>2, <1>3

LEMMA UpsertStep ==
  ASSUME IInv, NEW a \in Analyses, NEW state \in {"stored", "raised"},
         analysis[a].state # "idle",
         Upsert(analysis[a].pin.version), At(a, state),
         runs' \subseteq runs \cup {RunOf(a)}
  PROVE  IInv'
<1> DEFINE n == analysis[a].pin.version
<1>1. analysis[a].pin \in Records /\ IsPin(analysis[a].pin)
  BY AnalysisPins DEF IInv, PinPart
<1>2. n \in Versions
  BY <1>1 DEF IsPin, Records
<1>3. /\ Configured(policies') = Configured(policies)
      /\ \A m \in DOMAIN policies : m \in DOMAIN policies' /\ policies'[m] = policies[m]
      /\ DOMAIN policies' \subseteq DOMAIN policies \cup {n}
      /\ \A m \in DOMAIN policies' \ DOMAIN policies : policies'[m] = Placeholder
  BY <1>2, UpsertMoves
<1>4. \/ repository.id # 0 /\ UNCHANGED connection
      \/ /\ repository.id = 0 /\ issued < MaxId /\ issued' = issued + 1
         /\ repository' = [id |-> issued + 1, installation |-> NoOne]
  BY DEF Upsert
<1>5. issued \in 0..MaxId /\ MaxId \in Nat
  BY PolicyConstants DEF IInv, TypeOK
<1>6. /\ UNCHANGED <<lock, form, save>>
      /\ analysis' = [analysis EXCEPT ![a] = [state |-> state, pin |-> analysis[a].pin]]
  BY DEF At
<1>7. /\ analysis'[a] = [state |-> state, pin |-> analysis[a].pin]
      /\ DOMAIN analysis' = Analyses
      /\ \A b \in Analyses \ {a} : analysis'[b] = analysis[b]
  BY <1>6 DEF IInv, TypeOK
<1>8. Moved
  BY <1>3, <1>4, <1>5 DEF Moved, connection
<1>9. TypeOK'
  <2>1. issued' \in 0..MaxId /\ issued <= issued'
    BY <1>4, <1>5 DEF connection
  <2>2. \A r \in Records : r \in Records'
    BY <1>5, <2>1 DEF Records
  <2>3. repository' \in [id : 0..issued', installation : Installations \cup {NoOne}]
    BY <1>4, <1>5 DEF IInv, TypeOK, connection
  <2>4. \A e \in Editors : SaveType(save[e])'
    BY <1>6, <2>2 DEF IInv, TypeOK, SaveType
  <2>5. \A b \in Analyses : AnalysisType(analysis[b])'
    <3> SUFFICES ASSUME NEW b \in Analyses PROVE AnalysisType(analysis[b])'
      OBVIOUS
    <3>1. CASE b = a
      BY <3>1, <1>1, <1>7, <2>2 DEF AnalysisType
    <3>2. CASE b # a
      <4>1. analysis'[b] = analysis[b] /\ AnalysisType(analysis[b])
        BY <3>2, <1>7 DEF IInv, TypeOK
      <4>2. QED
        BY <4>1, <1>5, <2>1, <2>2 DEF AnalysisType
    <3>3. QED
      BY <3>1, <3>2
  <2>6. DOMAIN policies' \subseteq Versions
    BY <1>2, <1>3 DEF IInv, TypeOK
  <2>7. \A m \in DOMAIN policies' :
          policies'[m] \in [payload : Payloads \cup {NoPayload}, base : Records']
    <3>1. NoForm \in Records'
      BY <2>1, <1>5 DEF NoForm, Records
    <3>2. QED
      BY <1>3, <2>2, <3>1 DEF IInv, TypeOK, Placeholder
  <2>8. runs' \subseteq [of : Analyses, pin : Records']
    BY <1>1, <2>2 DEF IInv, TypeOK, RunOf
  <2>9. form \in [Editors -> Records']
    BY <2>2 DEF IInv, TypeOK
  <2>10. lock' \in Editors \cup {NoOne} /\ DOMAIN save' = Editors
    BY <1>6 DEF IInv, TypeOK
  <2>11. QED
    BY <1>6, <1>7, <2>1, <2>3, <2>4, <2>5, <2>6, <2>7, <2>8, <2>9, <2>10
       DEF TypeOK, Versions
<1>10. repository.id = 0 => Configured(policies) = {}
  BY DEF IInv, RowsPart, AbsentPart, NoPolicies, Configured
<1>11. RowsPart'
  BY <1>3, <1>4, <1>5 DEF IInv, RowsPart, HistoryPart, AbsentPart, connection
<1>12. LockPart'
  <2>1. LatestVersion(policies') = LatestVersion(policies)
    BY <1>3 DEF LatestVersion
  <2>2. repository.id # 0 => repository'.id = repository.id
    BY <1>4 DEF connection
  <2>3. QED
    BY <1>6, <2>1, <2>2 DEF IInv, LockPart
<1>13. BasePart'
  <2> SUFFICES ASSUME NEW m \in Configured(policies')
               PROVE  /\ True(policies[m].base)'
                      /\ policies'[m].base.id = repository'.id
                           => policies'[m].base.version = m - 1
    BY DEF BasePart
  <2>1. m \in Configured(policies) /\ m \in DOMAIN policies /\ policies'[m] = policies[m]
    BY <1>3 DEF Configured
  <2>2. PICK r \in Records : r = policies'[m].base /\ True(r)
    BY <2>1 DEF IInv, TypeOK, BasePart
  <2>3. True(r)'
    BY <1>8, <2>2, RecordsStayTrue DEF IInv
  <2>4. repository'.id = repository.id
    BY <1>4, <1>10, <2>1 DEF connection
  <2>5. policies'[m].base.id = repository.id => policies'[m].base.version = m - 1
    BY <2>1 DEF IInv, BasePart
  <2>6. QED
    BY <2>2, <2>3, <2>4, <2>5
<1>14. FormPart'
  BY <1>6, <1>8, FormsStay DEF IInv
<1>15. PinPart'
  <2>1. \A b \in Analyses : analysis'[b].state # "idle" =>
          analysis[b].state # "idle" /\ analysis'[b].pin = analysis[b].pin
    BY <1>7
  <2>2. \A run \in runs' :
          \/ run \in runs
          \/ \E b \in Analyses : analysis[b].state # "idle" /\ run.pin = analysis[b].pin
    BY DEF RunOf
  <2>3. QED
    BY <1>8, <2>1, <2>2, PinsRemain DEF IInv
<1>16. QED
  BY <1>9, <1>11, <1>12, <1>13, <1>14, <1>15 DEF IInv

LEMMA StoreInv ==
  ASSUME IInv, NEW a \in Analyses, Store(a)
  PROVE  IInv'
<1>1. analysis[a].state # "idle" /\ Upsert(analysis[a].pin.version)
      /\ At(a, "stored") /\ runs' = runs \cup {RunOf(a)}
  BY DEF Store
<1>2. QED
  BY <1>1, UpsertStep

LEMMA AuditInv ==
  ASSUME IInv, NEW a \in Analyses, Audit(a)
  PROVE  IInv'
<1>1. analysis[a].state = "failing" /\ At(a, "raised") /\ runs' = runs
  BY DEF Audit
<1>2. CASE Upsert(analysis[a].pin.version)
  BY <1>1, <1>2, UpsertStep
<1>3. CASE UNCHANGED <<connection, policies>>
  BY <1>1, <1>3, LookInv DEF stored, connection
<1>4. QED
  BY <1>2, <1>3 DEF Audit

LEMMA StutterInv ==
  ASSUME IInv, UNCHANGED vars
  PROVE  IInv'
<1>1. UNCHANGED <<stored, lock, form, save, analysis, issued>>
  BY DEF vars, stored
<1>2. RowsPart' /\ BasePart' /\ LatestVersion(policies)' = LatestVersion(policies)
  BY <1>1, Untouched DEF IInv
<1>3. \A r : True(r) => True(r)'
  BY <1>1, Untouched DEF IInv
<1>4. \A r : IsPin(r) => IsPin(r)'
  BY <1>1, Untouched DEF IInv
<1>5. TypeOK'
  BY <1>1 DEF IInv, TypeOK, stored, Records, SaveType, AnalysisType
<1>6. LockPart'
  BY <1>1, <1>2 DEF IInv, LockPart, stored
<1>7. FormPart'
  BY <1>1, <1>3 DEF IInv, FormPart
<1>8. PinPart'
  BY <1>1, <1>4 DEF IInv, PinPart, stored
<1>9. QED
  BY <1>2, <1>5, <1>6, <1>7, <1>8 DEF IInv

LEMMA NextInv == IInv /\ [Next]_vars => IInv'
<1> SUFFICES ASSUME IInv, [Next]_vars PROVE IInv'
  OBVIOUS
<1>1. CASE \E i \in Installations : Connect(i) \/ Disconnect(i)
  BY <1>1, ConnectInv, DisconnectInv
<1>2. CASE \E e \in Editors : Edit(e)
  BY <1>2, LoadInv, SubmitInv, AcquireInv, InsertInv, ConflictInv, SavedInv, ReloadInv
     DEF Edit
<1>3. CASE \E a \in Analyses : Analyze(a)
  BY <1>3, PinInv, LookInv, StoreInv, AuditInv DEF Analyze
<1>4. CASE UNCHANGED vars
  BY <1>4, StutterInv
<1>5. QED
  BY <1>1, <1>2, <1>3, <1>4 DEF Next

-----------------------------------------------------------------------------
(***************************************************************************)
(* IInv is an invariant: whatever was read of the repository stays true.   *)
(***************************************************************************)
THEOREM Invariance == Spec => []IInv
<1>1. Init => IInv
  BY InitInv
<1>2. IInv /\ [Next]_vars => IInv'
  BY NextInv
<1>3. QED
  BY <1>1, <1>2, PTL DEF Spec

(* Every row, form, save, analysis and run has the shape it should have.   *)
THEOREM TypeCorrect == Spec => []TypeOK
<1>1. IInv => TypeOK
  BY DEF IInv
<1>2. QED
  BY <1>1, Invariance, PTL

(***************************************************************************)
(* No edit is lost, however many forms race and whatever answers they      *)
(* miss: create_version stores a version only over the one its form held.  *)
(***************************************************************************)
THEOREM NoEditLostHolds == Spec => []NoEditLost
<1>1. IInv => NoEditLost
  <2> SUFFICES ASSUME IInv, NEW n \in Configured(policies),
                      policies[n].base.id = repository.id
               PROVE  /\ policies[n].base.version = n - 1
                      /\ policies[n].base.payload = PayloadOf(policies, n - 1)
    BY DEF NoEditLost
  <2>1. True(policies[n].base) /\ policies[n].base.version = n - 1
    BY DEF IInv, BasePart
  <2>2. repository.id # 0
    BY DEF IInv, RowsPart, AbsentPart, NoPolicies, Configured
  <2>3. QED
    BY <2>1, <2>2 DEF True, PayloadOf
<1>2. QED
  BY <1>1, Invariance, PTL

(***************************************************************************)
(* The policy a run was assessed under stays stored, unless the repository *)
(* was disconnected after run pinned it.                                   *)
(***************************************************************************)
THEOREM RunPolicyKeptHolds == Spec => []RunPolicyKept
<1>1. IInv => RunPolicyKept
  BY DEF IInv, PinPart, IsPin, True, RunPolicyKept, Reassessable, Configured
<1>2. QED
  BY <1>1, Invariance, PTL

(***************************************************************************)
(* A save adds one version to the history, an analysis at most a row that  *)
(* is no version of it, and nothing else changes it while the repository   *)
(* stays connected.                                                        *)
(***************************************************************************)
THEOREM HistoryGrowsHolds == Spec => HistoryGrows
<1>1. IInv /\ [Next]_vars =>
        [repository'.id = repository.id =>
           /\ \A n \in DOMAIN policies :
                n \in DOMAIN policies' /\ policies'[n] = policies[n]
           /\ LatestVersion(policies') \in
                {LatestVersion(policies), LatestVersion(policies) + 1}]_vars
  <2> SUFFICES ASSUME IInv, Next, repository'.id = repository.id
               PROVE  /\ \A n \in DOMAIN policies :
                           n \in DOMAIN policies' /\ policies'[n] = policies[n]
                      /\ LatestVersion(policies') \in
                           {LatestVersion(policies), LatestVersion(policies) + 1}
    OBVIOUS
  <2>1. CASE policies' = policies
    BY <2>1
  <2>2. ASSUME NEW i \in Installations, Disconnect(i)
        PROVE  FALSE
    BY <2>2 DEF Disconnect, NoRepository
  <2>3. ASSUME NEW e \in Editors, Insert(e)
        PROVE  /\ \A n \in DOMAIN policies :
                    n \in DOMAIN policies' /\ policies'[n] = policies[n]
               /\ LatestVersion(policies') = LatestVersion(policies) + 1
    BY <2>3, InsertGrows
  <2>4. ASSUME NEW a \in Analyses, analysis[a].state # "idle",
               Upsert(analysis[a].pin.version)
        PROVE  /\ \A n \in DOMAIN policies :
                    n \in DOMAIN policies' /\ policies'[n] = policies[n]
               /\ LatestVersion(policies') = LatestVersion(policies)
    <3>1. analysis[a].pin.version \in Versions
      BY <2>4, AnalysisPins DEF IInv, PinPart, IsPin, Records
    <3>2. Configured(policies') = Configured(policies)
          /\ \A m \in DOMAIN policies : m \in DOMAIN policies' /\ policies'[m] = policies[m]
      BY <2>4, <3>1, UpsertMoves
    <3>3. QED
      BY <3>2 DEF LatestVersion
  <2>5. CASE \E i \in Installations : Connect(i) \/ Disconnect(i)
    BY <2>5, <2>2, <2>1 DEF Connect
  <2>6. CASE \E e \in Editors : Edit(e)
    BY <2>6, <2>1, <2>3
       DEF Edit, Load, Submit, Acquire, Conflict, Unavailable, Saved, Reload, stored
  <2>7. CASE \E a \in Analyses : Analyze(a)
    BY <2>7, <2>1, <2>4
       DEF Analyze, Pin, Look, Store, RepositoryGone, StoreFails, Audit, stored
  <2>8. QED
    BY <2>5, <2>6, <2>7 DEF Next
<1>2. QED
  BY <1>1, Invariance, PTL DEF Spec, HistoryGrows
=============================================================================
