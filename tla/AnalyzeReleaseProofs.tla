------------------------ MODULE AnalyzeReleaseProofs ------------------------
(***************************************************************************)
(* Theorems about what the loader reads of GitHub, for every set of        *)
(* resources, whatever they mention and however often they change, and for *)
(* every list, page size and number of changes.                            *)
(*                                                                         *)
(* AnalyzeRelease: a version never decreases, so every resource of the     *)
(* first window was read at a version not above the one it had between the *)
(* windows, and every resource of the second at one not below.  When the   *)
(* windows are equal the three are the same.                               *)
(*                                                                         *)
(* GitHubPages: a reading is up to date as long as nothing has changed     *)
(* before the place it has reached.  What a change before that place does  *)
(* to the reading cannot be undone by changes of the same kind: an element *)
(* is missing, gone or read twice, which the counts or the other reading   *)
(* show.                                                                   *)
(***************************************************************************)
EXTENDS AnalyzeRelease, AssessmentProofs, GitHubPages, SequenceTheorems,
        FiniteSetTheorems

AFunction(w) == w = [x \in DOMAIN w |-> w[x]]

NotAfter(v, w) ==
  \A x \in (DOMAIN v \cap DOMAIN w) \ {CandidateRef} : v[x] <= w[x]

WindowPart ==
  /\ AFunction(window)
  /\ pc \in {"idle", "bootstrap"} => window = Empty
  /\ NotAfter(window, github)
  /\ pc \in {"first", "second"} => DOMAIN window \subseteq Needed(window)

SecondPart ==
  pc = "second" =>
    /\ NotAfter(first, between)
    /\ NotAfter(between, window)
    /\ NotAfter(between, github)
    /\ started <= heldAt

(* A complete snapshot says what the last window says.                     *)
Faithful ==
  LET commit == window[CandidateRef]
  IN  /\ snapshot.candidate = commit
      /\ snapshot.checks = ChecksIn(commit, window[CheckRuns(commit)])
      /\ snapshot.rest = RestOf(window)

SnapshotPart ==
  /\ pc \in {"idle", "bootstrap", "first", "second"} =>
       snapshot = Nothing /\ run = Nothing
  /\ pc \in {"loaded", "assessed", "stored"} => snapshot # Nothing
  /\ snapshot # Nothing =>
       /\ FromGitHub(snapshot)
       /\ snapshot.matchesPolicy = request.matches
       /\ snapshot.fetched \in Int
       /\ snapshot.fetched <= clock
       /\ snapshot.complete => Faithful /\ HeldAtOnce

RunPart ==
  /\ pc = "assessed" => run # Nothing
  /\ run # Nothing =>
       /\ snapshot # Nothing
       /\ run.policy = request.policy
       /\ run.policy \in DOMAIN PolicyVersions
       /\ run.at \in Int
       /\ snapshot.fetched <= run.at
       /\ run.status = Assess(snapshot, PolicyVersions[run.policy].categories,
                              {}, run.at).status

IInv == TypeOK /\ WindowPart /\ SecondPart /\ SnapshotPart /\ RunPart

-----------------------------------------------------------------------------
(***************************************************************************)
(* Any verdict is one of the four statuses (assess).                       *)
(***************************************************************************)
LEMMA AssessStatus ==
  ASSUME NEW s, NEW categories, NEW ds, NEW now
  PROVE  Assess(s, categories, ds, now).status \in ReleaseStatus
<1>1. AssessLegacy(s, now).status \in ReleaseStatus
  BY DEF AssessLegacy, AssessFixture, ReleaseStatus
<1>2. AssessConfigured(s, categories, ds, now).status \in ReleaseStatus
  BY StatusIsReleaseStatus DEF AssessConfigured
<1>3. QED
  BY <1>1, <1>2 DEF Assess

(***************************************************************************)
(* Reading on adds to what a window needs (_collect_window).               *)
(***************************************************************************)
LEMMA NeededGrows ==
  ASSUME NEW v, NEW w, DOMAIN v \subseteq DOMAIN w,
         \A x \in DOMAIN v : w[x] = v[x]
  PROVE  Needed(v) \subseteq Needed(w)
BY DEF Needed

(***************************************************************************)
(* The check runs of a commit are not the candidate ref.                   *)
(***************************************************************************)
LEMMA ChecksAreNotTheRef ==
  ASSUME NEW commit
  PROVE  CheckRuns(commit) # CandidateRef
BY DEF CheckRuns, CandidateRef

(***************************************************************************)
(* A snapshot is something (_snapshot, _unavailable_snapshot).             *)
(***************************************************************************)
LEMMA SnapshotIsSomething ==
  ASSUME NEW w, NEW errors, NEW error
  PROVE  SnapshotOf(w, errors) # Nothing /\ UnavailableSnapshot(error) # Nothing
<1>1. DOMAIN Nothing = {"state"}
  BY DEF Nothing
<1>2. "complete" \in DOMAIN SnapshotOf(w, errors)
  BY DEF SnapshotOf
<1>3. "complete" \in DOMAIN UnavailableSnapshot(error)
  BY DEF UnavailableSnapshot
<1>4. QED
  BY <1>1, <1>2, <1>3

(***************************************************************************)
(* Nothing has been read at the start of a window.                         *)
(***************************************************************************)
LEMMA EmptyWindow ==
  /\ AFunction(Empty)
  /\ DOMAIN Empty = {}
  /\ IsWindow(Empty)
BY DEF Empty, AFunction, IsWindow

-----------------------------------------------------------------------------
(***************************************************************************)
(* The invariant, action by action.                                        *)
(***************************************************************************)
LEMMA InitInv == Init => IInv
<1> SUFFICES ASSUME Init PROVE IInv
  OBVIOUS
<1>1. PICK commit \in Commits :
        github = [x \in Resources |-> IF x = CandidateRef THEN commit ELSE 0]
  BY DEF Init
<1>2. IsWindow(github) /\ DOMAIN github = Resources
  BY <1>1, ResourceAssumption DEF IsWindow
<1>3. policy \in {0} \cup DOMAIN PolicyVersions
  BY DEF Init
<1>4. TypeOK
  BY <1>2, <1>3, EmptyWindow, ResourceAssumption DEF Init, TypeOK
<1>5. WindowPart /\ SecondPart /\ SnapshotPart /\ RunPart
  BY EmptyWindow
  DEF Init, WindowPart, SecondPart, SnapshotPart, RunPart, NotAfter
<1>6. QED
  BY <1>4, <1>5 DEF IInv

(***************************************************************************)
(* GitHub, the policy and the clock move on: no version decreases.         *)
(***************************************************************************)
LEMMA WorldMoves ==
  ASSUME TypeOK, World
  PROVE  /\ IsWindow(github') /\ DOMAIN github' = Resources
         /\ \A x \in Resources \ {CandidateRef} : github[x] <= github'[x]
         /\ policy' \in {0} \cup DOMAIN PolicyVersions
         /\ clock' \in 0..MaxClock /\ clock <= clock'
         /\ UNCHANGED <<pc, request, started, attempt, first, window, snapshot,
                        run, history>>
<1>1. /\ IsWindow(github) /\ DOMAIN github = Resources
      /\ clock \in 0..MaxClock /\ MaxClock \in Nat
      /\ policy \in {0} \cup DOMAIN PolicyVersions
      /\ \A x \in Resources \ {CandidateRef} :
           /\ MaxVersion[x] \in Nat
           /\ github[x] \in 0..MaxVersion[x]
  BY ResourceAssumption DEF TypeOK, IsWindow
<1>2. ASSUME NEW x \in Resources, Edit(x)
      PROVE  /\ IsWindow(github') /\ DOMAIN github' = Resources
             /\ \A y \in Resources \ {CandidateRef} : github[y] <= github'[y]
  <2>1. \A y \in Resources : github'[y] = IF y = x THEN github[x] + 1 ELSE github[y]
    BY <1>1, <1>2 DEF Edit
  <2>2. DOMAIN github' = Resources /\ x # CandidateRef /\ github[x] < MaxVersion[x]
    BY <1>1, <1>2 DEF Edit
  <2>3. QED
    BY <1>1, <2>1, <2>2 DEF IsWindow
<1>3. ASSUME NEW commit \in Commits, Repoint(commit)
      PROVE  /\ IsWindow(github') /\ DOMAIN github' = Resources
             /\ \A y \in Resources \ {CandidateRef} : github[y] <= github'[y]
  <2>1. \A y \in Resources : github'[y] = IF y = CandidateRef THEN commit ELSE github[y]
    BY <1>1, <1>3 DEF Repoint
  <2>2. DOMAIN github' = Resources
    BY <1>1, <1>3 DEF Repoint
  <2>3. QED
    BY <1>1, <2>1, <2>2 DEF IsWindow
<1>4. CASE \E x \in Resources : Edit(x)
  <2>1. PICK x \in Resources : Edit(x)
    BY <1>4
  <2>2. UNCHANGED <<policy, clock, pc, request, started, attempt, first, window,
                    snapshot, run, history>>
    BY <2>1 DEF Edit
  <2>3. QED
    BY <1>1, <1>2, <2>1, <2>2
<1>5. CASE \E commit \in Commits : Repoint(commit)
  <2>1. PICK commit \in Commits : Repoint(commit)
    BY <1>5
  <2>2. UNCHANGED <<policy, clock, pc, request, started, attempt, first, window,
                    snapshot, run, history>>
    BY <2>1 DEF Repoint
  <2>3. QED
    BY <1>1, <1>3, <2>1, <2>2
<1>6. CASE Configure
  BY <1>1, <1>6 DEF Configure
<1>7. CASE Tick
  BY <1>1, <1>7 DEF Tick
<1>8. QED
  BY <1>4, <1>5, <1>6, <1>7 DEF World

(***************************************************************************)
(* A step of others leaves the request where it is.                        *)
(***************************************************************************)
LEMMA WorldInv == IInv /\ World => IInv'
<1> SUFFICES ASSUME IInv, World PROVE IInv'
  OBVIOUS
<1>1. /\ IsWindow(github') /\ DOMAIN github' = Resources
      /\ \A x \in Resources \ {CandidateRef} : github[x] <= github'[x]
      /\ policy' \in {0} \cup DOMAIN PolicyVersions
      /\ clock' \in 0..MaxClock /\ clock <= clock'
      /\ UNCHANGED <<pc, request, started, attempt, first, window, snapshot,
                     run, history>>
  BY WorldMoves DEF IInv
<1>2. clock \in 0..MaxClock /\ MaxClock \in Nat /\ TypeOK
  BY ResourceAssumption DEF IInv, TypeOK
<1>3. 0..clock \subseteq 0..clock'
  BY <1>1, <1>2
<1>4. TypeOK'
  BY <1>1, <1>2, <1>3 DEF TypeOK, IsWindow, history
<1>5. ASSUME NEW w, IsWindow(w), NotAfter(w, github)
      PROVE  NotAfter(w, github')
  <2>1. ASSUME NEW x \in (DOMAIN w \cap Resources) \ {CandidateRef}
        PROVE  w[x] <= github'[x]
    <3>1. w[x] \in Nat /\ github[x] \in Nat /\ github'[x] \in Nat
      BY <1>1, <1>2, <1>5, <2>1, ResourceAssumption DEF IsWindow, TypeOK
    <3>2. w[x] <= github[x] /\ github[x] <= github'[x]
      BY <1>1, <1>2, <1>5, <2>1 DEF NotAfter, TypeOK
    <3>3. QED
      BY <3>1, <3>2
  <2>2. QED
    BY <1>1, <2>1 DEF NotAfter
<1>6. WindowPart'
  BY <1>1, <1>2, <1>5 DEF IInv, WindowPart, TypeOK, Needed, Names, NotAfter
<1>7. SecondPart'
  BY <1>1, <1>2, <1>5 DEF IInv, SecondPart, TypeOK, NotAfter, history
<1>8. SnapshotPart'
  <2>1. HeldAtOnce' <=> HeldAtOnce
    BY <1>1 DEF HeldAtOnce, WindowAt, Needed, history
  <2>2. Faithful' <=> Faithful
    BY <1>1 DEF Faithful
  <2>3. \A t \in Int : t <= clock => t <= clock'
    BY <1>1, <1>2
  <2>4. QED
    BY <1>1, <2>1, <2>2, <2>3 DEF IInv, SnapshotPart
<1>9. RunPart'
  BY <1>1 DEF IInv, RunPart
<1>10. QED
  BY <1>4, <1>6, <1>7, <1>8, <1>9 DEF IInv

(***************************************************************************)
(* The request is refused, or its exception answered: nothing else changes.*)
(***************************************************************************)
LEMMA RaiseInv == IInv /\ Raise => IInv'
<1> SUFFICES ASSUME IInv, Raise PROVE IInv'
  OBVIOUS
<1>1. /\ pc' = "raised"
      /\ UNCHANGED <<github, policy, clock, request, started, attempt, first,
                     window, snapshot, run, between, heldAt>>
  BY DEF Raise, world, history
<1>2. TypeOK'
  BY <1>1 DEF IInv, TypeOK, IsWindow
<1>3. WindowPart' /\ SecondPart'
  BY <1>1 DEF IInv, WindowPart, SecondPart, NotAfter, AFunction
<1>4. SnapshotPart'
  <2>1. HeldAtOnce' <=> HeldAtOnce
    BY <1>1 DEF HeldAtOnce, WindowAt, Needed
  <2>2. Faithful' <=> Faithful
    BY <1>1 DEF Faithful
  <2>3. QED
    BY <1>1, <2>1, <2>2 DEF IInv, SnapshotPart
<1>5. RunPart'
  BY <1>1 DEF IInv, RunPart
<1>6. QED
  BY <1>2, <1>3, <1>4, <1>5 DEF IInv

(* The latest policy is pinned (AnalysisService.run).                      *)
LEMMA BeginInv == IInv /\ Begin => IInv'
<1> SUFFICES ASSUME IInv, Begin PROVE IInv'
  OBVIOUS
<1>1. /\ pc = "idle" /\ policy > 0 /\ pc' = "bootstrap" /\ started' = clock
      /\ \E matches \in BOOLEAN :
           request' = [policy |-> policy, matches |-> matches]
      /\ UNCHANGED <<github, policy, clock, attempt, first, window, snapshot,
                     run, between, heldAt>>
  BY DEF Begin, world, history, Now
<1>2. clock \in 0..MaxClock /\ MaxClock \in Nat /\ policy \in DOMAIN PolicyVersions
  BY <1>1, ResourceAssumption DEF IInv, TypeOK
<1>3. TypeOK'
  BY <1>1, <1>2 DEF IInv, TypeOK, IsWindow
<1>4. WindowPart' /\ SecondPart'
  BY <1>1 DEF IInv, WindowPart, SecondPart, NotAfter, AFunction
<1>5. SnapshotPart' /\ RunPart'
  BY <1>1 DEF IInv, SnapshotPart, RunPart
<1>6. QED
  BY <1>3, <1>4, <1>5 DEF IInv

(* The installation token is there and the first window begins (load).     *)
LEMMA BootstrapInv == IInv /\ Bootstrap => IInv'
<1> SUFFICES ASSUME IInv, Bootstrap PROVE IInv'
  OBVIOUS
<1>1. /\ pc = "bootstrap" /\ pc' = "first" /\ started' = clock
      /\ UNCHANGED <<github, policy, clock, request, attempt, first, window,
                     snapshot, run, between, heldAt>>
  BY DEF Bootstrap, world, history, Now
<1>2. clock \in 0..MaxClock /\ MaxClock \in Nat /\ window = Empty
  BY <1>1, ResourceAssumption DEF IInv, TypeOK, WindowPart
<1>3. TypeOK'
  BY <1>1, <1>2 DEF IInv, TypeOK, IsWindow
<1>4. WindowPart' /\ SecondPart'
  BY <1>1, <1>2, EmptyWindow DEF IInv, WindowPart, SecondPart, NotAfter, AFunction
<1>5. SnapshotPart' /\ RunPart'
  BY <1>1 DEF IInv, SnapshotPart, RunPart
<1>6. QED
  BY <1>3, <1>4, <1>5 DEF IInv

(* GitHub denies access, and there is no snapshot (load).                  *)
LEMMA SourceDeniesInv == IInv /\ SourceDenies => IInv'
<1> SUFFICES ASSUME IInv, SourceDenies PROVE IInv'
  OBVIOUS
<1>1. /\ pc \in {"bootstrap", "first", "second"} /\ pc' = "raised"
      /\ first' = Empty /\ window' = Empty
      /\ UNCHANGED <<github, policy, clock, request, started, attempt,
                     snapshot, run, between, heldAt>>
  BY DEF SourceDenies, Collecting, Forget, world, history
<1>2. TypeOK'
  BY <1>1, EmptyWindow DEF IInv, TypeOK, IsWindow
<1>3. WindowPart' /\ SecondPart'
  BY <1>1, EmptyWindow DEF IInv, WindowPart, SecondPart, NotAfter, AFunction
<1>4. SnapshotPart' /\ RunPart'
  BY <1>1 DEF IInv, SnapshotPart, RunPart
<1>5. QED
  BY <1>2, <1>3, <1>4 DEF IInv

(* GitHub fails, and the snapshot is incomplete (load, run).               *)
LEMMA SourceFailsInv == IInv /\ SourceFails => IInv'
<1> SUFFICES ASSUME IInv, SourceFails PROVE IInv'
  OBVIOUS
<1>1. PICK error \in SourceErrors : snapshot' = UnavailableSnapshot(error)
  BY DEF SourceFails
<1>2. /\ pc \in {"bootstrap", "first", "second"} /\ pc' = "loaded"
      /\ first' = Empty /\ window' = Empty
      /\ UNCHANGED <<github, policy, clock, request, started, attempt, run,
                     between, heldAt>>
  BY DEF SourceFails, Collecting, Forget, world, history
<1>3. clock \in 0..MaxClock /\ MaxClock \in Nat
  BY ResourceAssumption DEF IInv, TypeOK
<1>4. TypeOK'
  BY <1>2, EmptyWindow DEF IInv, TypeOK, IsWindow
<1>5. WindowPart' /\ SecondPart'
  BY <1>2, EmptyWindow DEF IInv, WindowPart, SecondPart, NotAfter, AFunction
<1>6. /\ snapshot' # Nothing
      /\ snapshot'.version = "github_v1" /\ snapshot'.complete = FALSE
      /\ snapshot'.matchesPolicy = request.matches /\ snapshot'.fetched = clock
  BY <1>1, SnapshotIsSomething DEF UnavailableSnapshot, Now
<1>7. SnapshotPart'
  BY <1>2, <1>3, <1>6 DEF SnapshotPart, FromGitHub
<1>8. RunPart'
  BY <1>2 DEF IInv, SnapshotPart, RunPart
<1>9. QED
  BY <1>4, <1>5, <1>7, <1>8 DEF IInv

(* One more resource is read (_collect_window).                            *)
LEMMA ReadInv ==
  ASSUME IInv, NEW x \in Resources, Read(x)
  PROVE  IInv'
<1>1. /\ pc \in {"first", "second"}
      /\ x \in Needed(window) /\ x \notin DOMAIN window
      /\ window' = [y \in DOMAIN window \cup {x} |->
                      IF y = x THEN github[x] ELSE window[y]]
      /\ UNCHANGED <<github, policy, clock, pc, request, started, attempt,
                     first, snapshot, run, between, heldAt>>
  BY DEF Read, NextToRead, Missing, world, history
<1>2. /\ DOMAIN window' = DOMAIN window \cup {x}
      /\ window'[x] = github[x]
      /\ \A y \in DOMAIN window : window'[y] = window[y]
  BY <1>1
<1>3. /\ IsWindow(github) /\ DOMAIN github = Resources
      /\ IsWindow(between) /\ DOMAIN between = Resources
      /\ IsWindow(window)
  BY DEF IInv, TypeOK
<1>4. TypeOK'
  <2>1. IsWindow(window')
    BY <1>2, <1>3 DEF IsWindow
  <2>2. QED
    BY <1>1, <2>1 DEF IInv, TypeOK, IsWindow
<1>5. WindowPart'
  <2>1. AFunction(window')
    BY <1>1, <1>2 DEF AFunction
  <2>2. ASSUME x # CandidateRef
        PROVE  github[x] <= github[x]
    BY <1>3, <2>2, ResourceAssumption DEF IsWindow
  <2>3. NotAfter(window', github)
    BY <1>2, <1>3, <2>2 DEF IInv, WindowPart, NotAfter
  <2>4. Needed(window) \subseteq Needed(window')
    BY <1>2, NeededGrows
  <2>5. DOMAIN window' \subseteq Needed(window')
    BY <1>1, <1>2, <2>4 DEF IInv, WindowPart
  <2>6. Needed(window)' = Needed(window')
    BY <1>1 DEF Needed
  <2>7. QED
    BY <1>1, <2>1, <2>3, <2>5, <2>6 DEF WindowPart, NotAfter, AFunction
<1>6. SecondPart'
  <2>1. CASE pc = "second"
    <3>1. NotAfter(between, github) /\ NotAfter(between, window)
      BY <2>1 DEF IInv, SecondPart
    <3>2. NotAfter(between, window')
      BY <1>2, <1>3, <3>1 DEF NotAfter
    <3>3. QED
      BY <1>1, <2>1, <3>2 DEF IInv, SecondPart, NotAfter
  <2>2. QED
    BY <1>1, <2>1 DEF SecondPart
<1>7. SnapshotPart' /\ RunPart'
  BY <1>1 DEF IInv, SnapshotPart, RunPart
<1>8. QED
  BY <1>4, <1>5, <1>6, <1>7 DEF IInv

(* The first window is whole, and the second begins (load).                *)
LEMMA SecondWindowInv == IInv /\ SecondWindow => IInv'
<1> SUFFICES ASSUME IInv, SecondWindow PROVE IInv'
  OBVIOUS
<1>1. /\ pc = "first" /\ pc' = "second" /\ first' = window /\ window' = Empty
      /\ between' = github /\ heldAt' = clock
      /\ UNCHANGED <<github, policy, clock, request, started, attempt, snapshot,
                     run>>
  BY DEF SecondWindow, world
<1>2. clock \in 0..MaxClock /\ MaxClock \in Nat /\ started \in 0..clock
  BY ResourceAssumption DEF IInv, TypeOK
<1>3. TypeOK'
  BY <1>1, <1>2, EmptyWindow DEF IInv, TypeOK, IsWindow
<1>4. WindowPart'
  BY <1>1, EmptyWindow DEF WindowPart, NotAfter, AFunction
<1>5. NotAfter(github, github)
  BY ResourceAssumption DEF IInv, TypeOK, IsWindow, NotAfter
<1>6. SecondPart'
  BY <1>1, <1>2, <1>5, EmptyWindow DEF IInv, WindowPart, SecondPart, NotAfter
<1>7. SnapshotPart' /\ RunPart'
  BY <1>1 DEF IInv, SnapshotPart, RunPart
<1>8. QED
  BY <1>3, <1>4, <1>6, <1>7 DEF IInv

(* The windows differ, and a second attempt begins (load).                 *)
LEMMA RetryInv == IInv /\ Retry => IInv'
<1> SUFFICES ASSUME IInv, Retry PROVE IInv'
  OBVIOUS
<1>1. /\ pc = "second" /\ pc' = "first" /\ attempt' = 2 /\ window' = Empty
      /\ UNCHANGED <<github, policy, clock, request, started, first, snapshot,
                     run, between, heldAt>>
  BY DEF Retry, TwoWindows, world, history
<1>2. TypeOK'
  BY <1>1, EmptyWindow DEF IInv, TypeOK, IsWindow
<1>3. WindowPart' /\ SecondPart'
  BY <1>1, EmptyWindow DEF WindowPart, SecondPart, NotAfter, AFunction
<1>4. SnapshotPart' /\ RunPart'
  BY <1>1 DEF IInv, SnapshotPart, RunPart
<1>5. QED
  BY <1>2, <1>3, <1>4 DEF IInv

(***************************************************************************)
(* The heart of it: two equal windows were both true between them (load).  *)
(***************************************************************************)
LEMMA EqualWindowsHeld ==
  ASSUME IInv, TwoWindows, SameWindow(first, window)
  PROVE  /\ window = WindowAt(between)
         /\ DOMAIN window = Needed(window)
<1>1. /\ NotAfter(first, between) /\ NotAfter(between, window)
      /\ AFunction(window)
      /\ DOMAIN window \subseteq Needed(window)
  BY DEF IInv, TwoWindows, SecondPart, WindowPart
<1>2. /\ IsWindow(first) /\ IsWindow(window)
      /\ IsWindow(between) /\ DOMAIN between = Resources
  BY DEF IInv, TypeOK
<1>3. ASSUME NEW x \in DOMAIN window, x # CandidateRef
      PROVE  window[x] = between[x]
  <2>1. x \in Resources /\ first[x] = window[x] /\ x \in DOMAIN first
    BY <1>2, <1>3 DEF SameWindow, IsWindow
  <2>2. window[x] \in Nat /\ between[x] \in Nat
    BY <1>2, <1>3, <2>1, ResourceAssumption DEF IsWindow
  <2>3. window[x] <= between[x] /\ between[x] <= window[x]
    BY <1>1, <1>2, <1>3, <2>1 DEF NotAfter
  <2>4. QED
    BY <2>2, <2>3
<1>4. window = WindowAt(between)
  BY <1>1, <1>3 DEF WindowAt, AFunction
<1>5. Needed(window) \subseteq DOMAIN window
  BY DEF TwoWindows, Whole, Missing
<1>6. QED
  BY <1>1, <1>4, <1>5

(* The windows are equal and accepted (load).                              *)
LEMMA AcceptInv == IInv /\ Accept => IInv'
<1> SUFFICES ASSUME IInv, Accept PROVE IInv'
  OBVIOUS
<1>1. /\ pc = "second" /\ pc' = "loaded" /\ snapshot' = SnapshotOf(window, {})
      /\ UNCHANGED <<github, policy, clock, request, started, attempt, first,
                     window, run, between, heldAt>>
  BY DEF Accept, TwoWindows, world, history
<1>2. /\ clock \in 0..MaxClock /\ MaxClock \in Nat /\ heldAt \in 0..clock
      /\ started <= heldAt
  BY <1>1, ResourceAssumption DEF IInv, TypeOK, SecondPart
<1>3. TypeOK'
  BY <1>1 DEF IInv, TypeOK, IsWindow
<1>4. WindowPart' /\ SecondPart'
  BY <1>1 DEF IInv, WindowPart, SecondPart, NotAfter, AFunction
<1>5. /\ snapshot' # Nothing
      /\ snapshot'.version = "github_v1"
      /\ snapshot'.matchesPolicy = request.matches /\ snapshot'.fetched = clock
      /\ Faithful'
  BY <1>1, SnapshotIsSomething DEF SnapshotOf, Now, Faithful
<1>6. HeldAtOnce'
  <2>1. window = WindowAt(between) /\ DOMAIN window = Needed(window)
    BY EqualWindowsHeld DEF Accept
  <2>2. WindowAt(between)' = WindowAt(between) /\ Needed(window)' = Needed(window)
    BY <1>1 DEF WindowAt, Needed
  <2>3. QED
    BY <1>1, <1>2, <1>5, <2>1, <2>2 DEF HeldAtOnce
<1>7. SnapshotPart'
  BY <1>1, <1>2, <1>5, <1>6 DEF SnapshotPart, FromGitHub
<1>8. RunPart'
  BY <1>1 DEF IInv, SnapshotPart, RunPart
<1>9. QED
  BY <1>3, <1>4, <1>7, <1>8 DEF IInv

(* The windows differ again, and the snapshot is incomplete (load).        *)
LEMMA GiveUpInv == IInv /\ GiveUp => IInv'
<1> SUFFICES ASSUME IInv, GiveUp PROVE IInv'
  OBVIOUS
<1>1. /\ pc = "second" /\ pc' = "loaded"
      /\ snapshot' = SnapshotOf(window, Inconsistent)
      /\ UNCHANGED <<github, policy, clock, request, started, attempt, first,
                     window, run, between, heldAt>>
  BY DEF GiveUp, TwoWindows, world, history
<1>2. clock \in 0..MaxClock /\ MaxClock \in Nat
  BY ResourceAssumption DEF IInv, TypeOK
<1>3. TypeOK'
  BY <1>1 DEF IInv, TypeOK, IsWindow
<1>4. WindowPart' /\ SecondPart'
  BY <1>1 DEF IInv, WindowPart, SecondPart, NotAfter, AFunction
<1>5. /\ snapshot' # Nothing
      /\ snapshot'.version = "github_v1" /\ snapshot'.complete = FALSE
      /\ snapshot'.matchesPolicy = request.matches /\ snapshot'.fetched = clock
  BY <1>1, SnapshotIsSomething DEF SnapshotOf, Now, Inconsistent
<1>6. SnapshotPart'
  BY <1>1, <1>2, <1>5 DEF SnapshotPart, FromGitHub
<1>7. RunPart'
  BY <1>1 DEF IInv, SnapshotPart, RunPart
<1>8. QED
  BY <1>3, <1>4, <1>6, <1>7 DEF IInv

(* The snapshot is assessed under the pinned policy (AnalysisService.run). *)
LEMMA AssessLoadedInv == IInv /\ AssessLoaded => IInv'
<1> SUFFICES ASSUME IInv, AssessLoaded PROVE IInv'
  OBVIOUS
<1> DEFINE verdict == Assess(snapshot, PolicyVersions[request.policy].categories,
                             {}, clock).status
<1>1. /\ pc = "loaded" /\ pc' = "assessed"
      /\ run' = [state |-> "assessed", policy |-> request.policy, at |-> clock,
                 status |-> verdict]
      /\ UNCHANGED <<github, policy, clock, request, started, attempt, first,
                     window, snapshot, between, heldAt>>
  BY DEF AssessLoaded, world, history, Now
<1>2. /\ clock \in 0..MaxClock /\ MaxClock \in Nat
      /\ request.policy \in DOMAIN PolicyVersions
  BY <1>1, ResourceAssumption DEF IInv, TypeOK
<1>3. verdict \in ReleaseStatus
  BY AssessStatus
<1> HIDE DEF verdict
<1>4. TypeOK'
  BY <1>1, <1>2, <1>3 DEF IInv, TypeOK, IsWindow
<1>5. WindowPart' /\ SecondPart'
  BY <1>1 DEF IInv, WindowPart, SecondPart, NotAfter, AFunction
<1>6. SnapshotPart'
  <2>1. HeldAtOnce' <=> HeldAtOnce
    BY <1>1 DEF HeldAtOnce, WindowAt, Needed
  <2>2. Faithful' <=> Faithful
    BY <1>1 DEF Faithful
  <2>3. QED
    BY <1>1, <2>1, <2>2 DEF IInv, SnapshotPart
<1>7. RunPart'
  <2>1. DOMAIN run' # DOMAIN Nothing
    BY <1>1 DEF Nothing
  <2>2. QED
    BY <1>1, <1>2, <2>1 DEF IInv, SnapshotPart, RunPart, verdict
<1>8. QED
  BY <1>4, <1>5, <1>6, <1>7 DEF IInv

(* The run is stored (create_run).                                         *)
LEMMA StoreInv == IInv /\ Store => IInv'
<1> SUFFICES ASSUME IInv, Store PROVE IInv'
  OBVIOUS
<1>1. /\ pc = "assessed" /\ pc' = "stored"
      /\ run' = [run EXCEPT !.state = "stored"]
      /\ UNCHANGED <<github, policy, clock, request, started, attempt, first,
                     window, snapshot, between, heldAt>>
  BY DEF Store, world, history
<1>2. run # Nothing
  BY <1>1 DEF IInv, RunPart
<1>3. run'.policy = run.policy /\ run'.at = run.at /\ run'.status = run.status
  BY <1>1
<1>4. TypeOK'
  BY <1>1, <1>2, <1>3 DEF IInv, TypeOK, IsWindow
<1>5. WindowPart' /\ SecondPart'
  BY <1>1 DEF IInv, WindowPart, SecondPart, NotAfter, AFunction
<1>6. SnapshotPart'
  <2>1. HeldAtOnce' <=> HeldAtOnce
    BY <1>1 DEF HeldAtOnce, WindowAt, Needed
  <2>2. Faithful' <=> Faithful
    BY <1>1 DEF Faithful
  <2>3. QED
    BY <1>1, <2>1, <2>2 DEF IInv, SnapshotPart
<1>7. RunPart'
  BY <1>1, <1>2, <1>3 DEF IInv, RunPart
<1>8. QED
  BY <1>4, <1>5, <1>6, <1>7 DEF IInv

(* A step that changes nothing.                                            *)
LEMMA StutterInv == IInv /\ UNCHANGED vars => IInv'
<1> SUFFICES ASSUME IInv, UNCHANGED vars PROVE IInv'
  OBVIOUS
<1>1. UNCHANGED <<github, policy, clock, pc, request, started, attempt, first,
                  window, snapshot, run, between, heldAt>>
  BY DEF vars, history
<1>2. TypeOK' /\ WindowPart' /\ SecondPart' /\ RunPart'
  BY <1>1 DEF IInv, TypeOK, IsWindow, WindowPart, SecondPart, RunPart, NotAfter,
              AFunction, Needed, Names
<1>3. SnapshotPart'
  <2>1. HeldAtOnce' <=> HeldAtOnce
    BY <1>1 DEF HeldAtOnce, WindowAt, Needed
  <2>2. Faithful' <=> Faithful
    BY <1>1 DEF Faithful
  <2>3. QED
    BY <1>1, <2>1, <2>2 DEF IInv, SnapshotPart
<1>4. QED
  BY <1>2, <1>3 DEF IInv

-----------------------------------------------------------------------------
(***************************************************************************)
(* The inductive invariant holds in every state of an analysis.            *)
(***************************************************************************)
THEOREM Invariance == Spec => []IInv
<1>1. IInv /\ [Next]_vars => IInv'
  <2> SUFFICES ASSUME IInv, [Next]_vars PROVE IInv'
    OBVIOUS
  <2>1. CASE World
    BY <2>1, WorldInv
  <2>2. CASE Begin
    BY <2>2, BeginInv
  <2>3. CASE Refuse \/ SourceDenies \/ StoreFails
    BY <2>3, RaiseInv, SourceDeniesInv DEF Refuse, StoreFails
  <2>4. CASE Bootstrap
    BY <2>4, BootstrapInv
  <2>5. CASE SourceFails
    BY <2>5, SourceFailsInv
  <2>6. CASE \E x \in Resources : Read(x)
    BY <2>6, ReadInv
  <2>7. CASE SecondWindow \/ Accept \/ Retry \/ GiveUp
    BY <2>7, SecondWindowInv, AcceptInv, RetryInv, GiveUpInv
  <2>8. CASE AssessLoaded \/ Store
    BY <2>8, AssessLoadedInv, StoreInv
  <2>9. CASE UNCHANGED vars
    BY <2>9, StutterInv
  <2>10. QED
    BY <2>1, <2>2, <2>3, <2>4, <2>5, <2>6, <2>7, <2>8, <2>9 DEF Next, Proceed
<1>2. QED
  BY InitInv, <1>1, PTL DEF Spec

(* Every state of an analysis has its type.                                *)
THEOREM TypeCorrect == Spec => []TypeOK
<1>1. IInv => TypeOK
  BY DEF IInv
<1>2. QED
  BY Invariance, <1>1, PTL

(* A complete snapshot could have been read at one instant of its fetch,   *)
(* whatever changed meanwhile (GitHubReleaseLoader.load).                  *)
THEOREM OneInstantHolds == Spec => []OneInstant
<1>1. IInv => OneInstant
  BY DEF IInv, SnapshotPart, OneInstant
<1>2. QED
  BY Invariance, <1>1, PTL

(***************************************************************************)
(* The check runs of the candidate are among what a whole window has read. *)
(***************************************************************************)
LEMMA ChecksWereRead ==
  ASSUME HeldAtOnce
  PROVE  window[CheckRuns(window[CandidateRef])]
           = between[CheckRuns(window[CandidateRef])]
<1> DEFINE checks == CheckRuns(window[CandidateRef])
<1>1. DOMAIN window = Needed(window) /\ window = WindowAt(between)
  BY DEF HeldAtOnce
<1>2. CandidateRef \in DOMAIN window
  BY <1>1 DEF Needed
<1>3. checks \in Names(CandidateRef, window[CandidateRef])
  BY DEF Names
<1> HIDE DEF checks
<1>4. checks \in DOMAIN window
  BY <1>1, <1>2, <1>3 DEF Needed
<1>5. checks # CandidateRef
  BY ChecksAreNotTheRef DEF checks
<1>6. window[checks] = between[checks]
  BY <1>1, <1>4, <1>5 DEF WindowAt
<1>7. QED
  BY <1>6 DEF checks

(***************************************************************************)
(* A run assessed as READY was ready at one instant of the fetch           *)
(* (AnalysisService.run).                                                  *)
(***************************************************************************)
THEOREM ReadyWasTrueHolds == Spec => []ReadyWasTrue
<1>1. IInv => ReadyWasTrue
  <2> SUFFICES ASSUME IInv, run # Nothing, run.status = "READY"
               PROVE  ReadyWasTrue
    BY DEF ReadyWasTrue
  <2> DEFINE categories == PolicyVersions[run.policy].categories
             commit == snapshot.candidate
             held == ChecksIn(commit, between[CheckRuns(commit)])
  <2>1. /\ Assess(snapshot, categories, {}, run.at).status = "READY"
        /\ snapshot # Nothing /\ FromGitHub(snapshot)
        /\ snapshot.matchesPolicy = request.matches
        /\ snapshot.complete => Faithful /\ HeldAtOnce
        /\ snapshot.fetched \in Int /\ run.at \in Int
        /\ snapshot.fetched <= run.at
        /\ run.policy \in DOMAIN PolicyVersions
    BY DEF IInv, RunPart, SnapshotPart
  <2>2. EarnedBy(snapshot, categories, {})
    BY <2>1, ReadyMeansEarned
  <2>3. CheckPrerequisites(snapshot) = {}
    BY <2>1, SufficientMeansClean
  <2>4. request.matches
    BY <2>1, <2>3 DEF CheckPrerequisites, If
  <2>5. Faithful /\ HeldAtOnce
    BY <2>1, <2>2 DEF EarnedBy
  <2>6. snapshot.checks = held
    BY <2>5, ChecksWereRead DEF Faithful
  <2>7. snapshot.rest = RestOf(WindowAt(between))
    BY <2>5 DEF Faithful, HeldAtOnce
  <2>8. started <= heldAt /\ heldAt <= run.at
    BY <2>1, <2>5, ResourceAssumption DEF HeldAtOnce, IInv, TypeOK
  <2>9. \A n \in DOMAIN categories :
          categories[n] = "BLOCKING" =>
            \E c \in held : c.name = n /\ c.sha = commit /\ Success(c)
    BY <2>2, <2>6 DEF EarnedBy, Single
  <2>10. \A c \in held :
           /\ c.name \in DOMAIN categories
           /\ categories[c.name] # "IGNORED" => Success(c)
    BY <2>1, <2>2, <2>6, PolicyAssumption DEF EarnedBy, Categories
  <2>11. \A f \in RestOf(WindowAt(between)) : f.severity # "BLOCKING"
    BY <2>2, <2>7 DEF EarnedBy
  <2>12. QED
    BY <2>4, <2>8, <2>9, <2>10, <2>11 DEF ReadyWasTrue
<1>2. QED
  BY Invariance, <1>1, PTL

-----------------------------------------------------------------------------
(***************************************************************************)
(* GitHubPages: a list that is read page by page while it changes.         *)
(***************************************************************************)
(* Types of the reading of a list.                                         *)
PagesTypeOK ==
  /\ list \in Seq(Things) /\ during \subseteq Seq(Things)
  /\ result \in Seq(Things) /\ earlier \in Seq(Things)
  /\ keyed \in BOOLEAN /\ reading \in {1, 2}
  /\ stage \in {"reading", "complete", "partial", "accepted", "inconsistent"}
  /\ page \in 1..MaxPages /\ total \in Nat
  /\ changes \in Seq({"add", "append", "remove"})

(* How far the pages so far have come.                                     *)
Reached == (page - 1) * PageSize

(* An element of a list stands up to a place, or after it.                 *)
Before(l, n, x) == \E p \in DOMAIN l : p <= n /\ l[p] = x

After(l, n, x) == \E p \in DOMAIN l : p > n /\ l[p] = x

(* What was read is the list as it is, as far as the pages have come.      *)
UpToDate ==
  /\ Len(result) = Reached /\ Reached <= Len(list)
  /\ \A p \in 1..Reached : result[p] = list[p]

(* What kinds of changes there have been.                                  *)
Growing   == Kinds \subseteq {"add", "append"}
Shrinking == Kinds \subseteq {"remove"}
Extending == Kinds \subseteq {"append"}

(* Everything that was read was on the list at some instant.               *)
InstantPart ==
  /\ list \in during
  /\ \A l \in during : IsInjective(l)
  /\ \A k \in DOMAIN result : \E l \in during : result[k] \in ToSet(l)
  /\ stage = "reading" /\ page = 1 => result = <<>>

(* A list with counts: while it changes one way its length tells whether   *)
(* it has changed since the first page.                                    *)
CountedPart ==
  /\ keyed /\ stage = "complete" =>
       IsInjective(result) /\ \E l \in during : Len(l) = Len(result)
  /\ keyed /\ stage = "reading" /\ page > 1 =>
       /\ Growing => total <= Len(list)
       /\ Shrinking => Len(list) <= total
       /\ OneWay /\ Len(list) = total => UpToDate
  /\ keyed /\ stage = "complete" /\ OneWay => result \in during

(* A list that is left alone, or grows at its end.                         *)
QuietPart ==
  during = {list} \/ Extending =>
    /\ stage = "reading" => UpToDate
    /\ stage = "complete" => result \in during

(* A list that only grows.  The first reading is up to date, or an element *)
(* that was added before its place is missing from it: of several such     *)
(* elements the one nearest to the front is never read.  The second        *)
(* reading then holds that element.  When the first reading was the list   *)
(* at one instant, the second one is up to date or an element that was     *)
(* moved over its place comes twice.                                       *)
GrowingReads ==
  /\ reading = 1 /\ stage = "reading" =>
       UpToDate \/ \E x \in ToSet(list) : Before(list, Reached, x) /\ x \notin ToSet(result)
  /\ reading = 1 /\ stage = "complete" =>
       result \in during \/ \E x \in ToSet(list) : x \notin ToSet(result)
  /\ reading = 2 /\ stage = "reading" =>
       \/ \E x \in ToSet(list) :
            x \notin ToSet(earlier) /\ (x \in ToSet(result) \/ After(list, Reached, x))
       \/ /\ earlier \in during
          /\ \/ UpToDate \/ ~IsInjective(result)
             \/ \E x \in ToSet(result) : After(list, Reached, x)
  /\ reading = 2 /\ stage = "complete" =>
       \/ \E x \in ToSet(result) : x \notin ToSet(earlier)
       \/ earlier \in during /\ (result \in during \/ ~IsInjective(result))

GrowingPart ==
  Growing => ToSet(result) \cup ToSet(earlier) \subseteq ToSet(list) /\ GrowingReads

(* A list that only shrinks.  The first reading is up to date, or holds an *)
(* element that is gone, which the second cannot hold.  When the first     *)
(* reading was the list at one instant, every removal during the second    *)
(* one costs it an element: the one removed, or the one that moves over    *)
(* its place.                                                              *)
ShrinkingReads ==
  /\ reading = 1 /\ stage = "reading" =>
       UpToDate \/ \E x \in ToSet(result) : x \notin ToSet(list)
  /\ reading = 1 /\ stage = "complete" =>
       \/ result \in during /\ ToSet(list) \subseteq ToSet(result)
       \/ \E x \in ToSet(result) : x \notin ToSet(list)
  /\ reading = 2 /\ stage = "reading" =>
       \/ \E x \in ToSet(earlier) : x \notin ToSet(result) /\ ~After(list, Reached, x)
       \/ /\ earlier \in during /\ ToSet(list) \subseteq ToSet(earlier)
          /\ UpToDate /\ (page > 1 => Reached < Len(list))
  /\ reading = 2 /\ stage = "complete" =>
       \/ \E x \in ToSet(earlier) : x \notin ToSet(result)
       \/ {earlier, result} \subseteq during

ShrinkingPart == Shrinking => ShrinkingReads

(* What two equal readings of a list that changes one way hold.            *)
AcceptedPart ==
  stage = "accepted" /\ OneWay => {earlier, result} \subseteq during

(* The inductive invariant of GitHubPages.                                 *)
PagesInv ==
  /\ PagesTypeOK /\ InstantPart /\ CountedPart /\ QuietPart
  /\ GrowingPart /\ ShrinkingPart /\ AcceptedPart

-----------------------------------------------------------------------------
(* What inserting an element does to a sequence.                           *)
LEMMA Inserted ==
  ASSUME NEW S, NEW l \in Seq(S), NEW x \in S, NEW k \in 1..Len(l) + 1,
         NEW n, n = InsertAt(l, k, x)
  PROVE  /\ n \in Seq(S) /\ Len(n) = Len(l) + 1
         /\ \A p \in 1..Len(l) + 1 :
              n[p] = IF p < k THEN l[p] ELSE IF p = k THEN x ELSE l[p - 1]
<1> DEFINE a == SubSeq(l, 1, k - 1)
           b == SubSeq(l, k, Len(l))
           c == <<x>>
           d == a \o c
           m == d \o b
<1>0. Len(l) \in Nat /\ k \in Nat
  OBVIOUS
<1>1. /\ a \in Seq(S) /\ Len(a) = k - 1
      /\ \A p \in 1..k - 1 : a[p] = l[p]
  OBVIOUS
<1>2. /\ b \in Seq(S) /\ Len(b) = Len(l) + 1 - k
      /\ \A p \in 1..Len(l) + 1 - k : b[p] = l[p + k - 1]
  OBVIOUS
<1>3. c \in Seq(S) /\ Len(c) = 1 /\ c[1] = x
  OBVIOUS
<1>4. m = n
  BY DEF InsertAt
<1> HIDE DEF a, b, c
<1>5. /\ d \in Seq(S) /\ Len(d) = Len(a) + Len(c)
      /\ \A p \in 1..Len(a) + Len(c) :
           d[p] = IF p <= Len(a) THEN a[p] ELSE c[p - Len(a)]
  BY <1>1, <1>3, ConcatProperties
<1> HIDE DEF d
<1>6. /\ m \in Seq(S) /\ Len(m) = Len(d) + Len(b)
      /\ \A p \in 1..Len(d) + Len(b) :
           m[p] = IF p <= Len(d) THEN d[p] ELSE b[p - Len(d)]
  <2>1. d \in Seq(S) /\ b \in Seq(S)
    BY <1>2, <1>5
  <2> QED
    BY <2>1, ConcatProperties
<1> HIDE DEF m
<1>7. Len(d) = k /\ Len(m) = Len(l) + 1
  BY <1>0, <1>1, <1>2, <1>3, <1>5, <1>6
<1>8. ASSUME NEW p \in 1..Len(l) + 1
      PROVE  m[p] = IF p < k THEN l[p] ELSE IF p = k THEN x ELSE l[p - 1]
  <2>1. CASE p < k
    <3>1. m[p] = d[p]
      BY <2>1, <1>0, <1>6, <1>7
    <3>2. d[p] = a[p]
      BY <2>1, <1>0, <1>1, <1>3, <1>5
    <3>3. a[p] = l[p]
      BY <2>1, <1>0, <1>1
    <3> QED
      BY <2>1, <3>1, <3>2, <3>3
  <2>2. CASE p = k
    <3>1. m[p] = d[p]
      BY <2>2, <1>0, <1>6, <1>7
    <3>2. d[p] = c[1]
      BY <2>2, <1>0, <1>1, <1>3, <1>5
    <3> QED
      BY <2>2, <1>0, <1>3, <3>1, <3>2
  <2>3. CASE p > k
    <3>1. m[p] = b[p - k] /\ p - k \in 1..Len(l) + 1 - k
      BY <2>3, <1>0, <1>6, <1>7
    <3>2. b[p - k] = l[p - k + k - 1]
      BY <3>1, <1>2
    <3>3. p - k + k - 1 = p - 1
      BY <1>0
    <3> QED
      BY <2>3, <1>0, <3>1, <3>2, <3>3
  <2> QED
    BY <1>0, <2>1, <2>2, <2>3
<1> QED
  BY <1>4, <1>6, <1>7, <1>8

(* What removing an element does to a sequence.                            *)
LEMMA Removed ==
  ASSUME NEW S, NEW l \in Seq(S), NEW k \in 1..Len(l),
         NEW n, n = RemoveAt(l, k)
  PROVE  /\ n \in Seq(S) /\ Len(n) = Len(l) - 1
         /\ \A p \in 1..Len(l) - 1 : n[p] = IF p < k THEN l[p] ELSE l[p + 1]
<1> DEFINE a == SubSeq(l, 1, k - 1)
           b == SubSeq(l, k + 1, Len(l))
           m == a \o b
<1>0. Len(l) \in Nat /\ k \in Nat
  OBVIOUS
<1>1. /\ a \in Seq(S) /\ Len(a) = k - 1
      /\ \A p \in 1..k - 1 : a[p] = l[p]
  OBVIOUS
<1>2. /\ b \in Seq(S) /\ Len(b) = Len(l) - k
      /\ \A p \in 1..Len(l) - k : b[p] = l[p + k]
  OBVIOUS
<1>3. m = n
  BY DEF RemoveAt
<1> HIDE DEF a, b
<1>4. /\ m \in Seq(S) /\ Len(m) = Len(a) + Len(b)
      /\ \A p \in 1..Len(a) + Len(b) :
           m[p] = IF p <= Len(a) THEN a[p] ELSE b[p - Len(a)]
  BY <1>1, <1>2, ConcatProperties
<1> HIDE DEF m
<1>5. /\ Len(m) = Len(l) - 1
      /\ \A p \in 1..Len(l) - 1 : m[p] = IF p <= k - 1 THEN a[p] ELSE b[p - (k - 1)]
  <2>1. Len(a) + Len(b) = Len(l) - 1
    BY <1>0, <1>1, <1>2
  <2> QED
    BY <2>1, <1>1, <1>4
<1>6. ASSUME NEW p \in 1..Len(l) - 1
      PROVE  m[p] = IF p < k THEN l[p] ELSE l[p + 1]
  <2>1. CASE p < k
    <3>1. m[p] = a[p]
      BY <2>1, <1>0, <1>5
    <3>2. a[p] = l[p]
      BY <2>1, <1>0, <1>1
    <3> QED
      BY <2>1, <3>1, <3>2
  <2>2. CASE p >= k
    <3>1. m[p] = b[p - (k - 1)] /\ p - (k - 1) \in 1..Len(l) - k
      BY <2>2, <1>0, <1>5
    <3>2. b[p - (k - 1)] = l[p - (k - 1) + k]
      BY <3>1, <1>2
    <3>3. p - (k - 1) + k = p + 1
      BY <1>0
    <3> QED
      BY <2>2, <1>0, <3>1, <3>2, <3>3
  <2> QED
    BY <1>0, <2>1, <2>2
<1> QED
  BY <1>3, <1>4, <1>5, <1>6

(* A list that got an element holds the others still, those after a place  *)
(* after it; one that got it before a place has it there, and the element  *)
(* at the place after it.                                                  *)
LEMMA AfterInserting ==
  ASSUME NEW S, NEW l \in Seq(S), NEW x \in S, NEW k \in 1..Len(l) + 1,
         IsInjective(l), x \notin ToSet(l),
         NEW n, n = InsertAt(l, k, x)
  PROVE  /\ n \in Seq(S) /\ IsInjective(n) /\ Len(n) = Len(l) + 1
         /\ ToSet(n) = ToSet(l) \cup {x}
         /\ \A b \in Nat : \A y : After(l, b, y) => After(n, b, y)
         /\ \A b \in Nat : k <= b => Before(n, b, x)
         /\ \A b \in Nat : \A y : b < k /\ Before(l, b, y) => Before(n, b, y)
         /\ \A b \in 1..Len(l) : k <= b => After(n, b, l[b])
         /\ \A p \in 1..Len(l) : p < k => n[p] = l[p]
<1>0. Len(l) \in Nat /\ k \in Nat /\ DOMAIN l = 1..Len(l)
  OBVIOUS
<1>1. /\ n \in Seq(S) /\ Len(n) = Len(l) + 1 /\ DOMAIN n = 1..Len(l) + 1
      /\ \A p \in 1..Len(l) + 1 : n[p] = IF p < k THEN l[p] ELSE IF p = k THEN x ELSE l[p - 1]
  <2>1. /\ n \in Seq(S) /\ Len(n) = Len(l) + 1
        /\ \A p \in 1..Len(l) + 1 :
             n[p] = IF p < k THEN l[p] ELSE IF p = k THEN x ELSE l[p - 1]
    BY Inserted, SMTT(62)
  <2>2. DOMAIN n = 1..Len(n)
    BY <2>1, LenProperties
  <2> QED
    BY <2>1, <2>2
<1>2. \A p \in 1..Len(l) : n[IF p < k THEN p ELSE p + 1] = l[p]
  BY <1>0, <1>1
<1>3. \A p \in 1..Len(l) : l[p] # x
  BY <1>0 DEF ToSet
<1>4. IsInjective(n)
  <2> SUFFICES ASSUME NEW p \in DOMAIN n, NEW q \in DOMAIN n, n[p] = n[q]
               PROVE  p = q
    BY DEF IsInjective
  <2>1. CASE p = k \/ q = k
    BY <2>1, <1>0, <1>1, <1>3
  <2>2. CASE p # k /\ q # k
    <3> DEFINE old(r) == IF r < k THEN r ELSE r - 1
    <3>1. old(p) \in 1..Len(l) /\ old(q) \in 1..Len(l) /\ l[old(p)] = l[old(q)]
      BY <2>2, <1>0, <1>1
    <3>2. old(p) = old(q)
      BY <3>1, <1>0 DEF IsInjective
    <3> QED
      BY <3>2, <2>2, <1>0, <1>1
  <2> QED
    BY <2>1, <2>2
<1>5. ToSet(n) = ToSet(l) \cup {x}
  <2>1. ASSUME NEW p \in DOMAIN n PROVE n[p] \in ToSet(l) \cup {x}
    <3>1. n[p] = IF p < k THEN l[p] ELSE IF p = k THEN x ELSE l[p - 1]
      BY <1>1
    <3>2. p < k => p \in DOMAIN l
      BY <1>0, <1>1
    <3>3. p > k => p - 1 \in DOMAIN l
      BY <1>0, <1>1
    <3> QED
      BY <3>1, <3>2, <3>3, <1>0, <1>1 DEF ToSet
  <2>2. ToSet(l) \subseteq ToSet(n)
    BY <1>0, <1>1, <1>2 DEF ToSet
  <2>3. x \in ToSet(n)
    BY <1>0, <1>1 DEF ToSet
  <2> QED
    BY <2>1, <2>2, <2>3 DEF ToSet
<1>6. ASSUME NEW b \in Nat, NEW y, After(l, b, y) PROVE After(n, b, y)
  <2>1. PICK p \in 1..Len(l) : p > b /\ l[p] = y
    BY <1>6, <1>0 DEF After
  <2>2. n[IF p < k THEN p ELSE p + 1] = y
    BY <2>1, <1>2
  <2> QED
    BY <2>1, <2>2, <1>0, <1>1 DEF After
<1>7. \A b \in Nat : k <= b => Before(n, b, x)
  BY <1>0, <1>1 DEF Before
<1>8. ASSUME NEW b \in Nat, NEW y, b < k, Before(l, b, y) PROVE Before(n, b, y)
  <2>1. PICK p \in 1..Len(l) : p <= b /\ l[p] = y
    BY <1>8, <1>0 DEF Before
  <2>2. n[p] = y
    BY <2>1, <1>8, <1>0, <1>1
  <2> QED
    BY <2>1, <2>2, <1>0, <1>1 DEF Before
<1>9. ASSUME NEW b \in 1..Len(l), k <= b PROVE After(n, b, l[b])
  <2>1. n[b + 1] = l[b] /\ b + 1 \in DOMAIN n
    BY <1>9, <1>0, <1>1
  <2> QED
    BY <2>1 DEF After
<1>10. \A p \in 1..Len(l) : p < k => n[p] = l[p]
  BY <1>0, <1>1
<1> QED
  BY <1>1, <1>4, <1>5, <1>6, <1>7, <1>8, <1>9, <1>10

(* A list that lost an element holds the others still; it had what is      *)
(* after a place there before, but the element that has moved to the place *)
(* is no longer after it.                                                  *)
LEMMA AfterRemoving ==
  ASSUME NEW S, NEW l \in Seq(S), NEW k \in 1..Len(l), IsInjective(l),
         NEW n, n = RemoveAt(l, k)
  PROVE  /\ n \in Seq(S) /\ IsInjective(n) /\ Len(n) = Len(l) - 1
         /\ ToSet(n) = ToSet(l) \ {l[k]}
         /\ \A b \in Nat : \A y : After(n, b, y) => After(l, b, y)
         /\ \A b \in Nat : k <= b /\ b < Len(l) => ~After(n, b, l[b + 1])
         /\ \A p \in 1..Len(n) : p < k => n[p] = l[p]
<1>0. Len(l) \in Nat /\ k \in Nat /\ DOMAIN l = 1..Len(l)
  OBVIOUS
<1>1. /\ n \in Seq(S) /\ Len(n) = Len(l) - 1 /\ DOMAIN n = 1..Len(l) - 1
      /\ \A p \in 1..Len(l) - 1 : n[p] = IF p < k THEN l[p] ELSE l[p + 1]
  <2>1. /\ n \in Seq(S) /\ Len(n) = Len(l) - 1
        /\ \A p \in 1..Len(l) - 1 : n[p] = IF p < k THEN l[p] ELSE l[p + 1]
    BY Removed
  <2>2. DOMAIN n = 1..Len(n)
    BY <2>1, LenProperties
  <2> QED
    BY <2>1, <2>2
<1>2. \A p, q \in 1..Len(l) : l[p] = l[q] => p = q
  BY <1>0 DEF IsInjective
<1> DEFINE old(r) == IF r < k THEN r ELSE r + 1
<1>3. \A p \in DOMAIN n : n[p] = l[old(p)] /\ old(p) \in 1..Len(l) \ {k} /\ old(p) >= p
  BY <1>0, <1>1
<1>4. IsInjective(n)
  <2> SUFFICES ASSUME NEW p \in DOMAIN n, NEW q \in DOMAIN n, n[p] = n[q]
               PROVE  p = q
    BY DEF IsInjective
  <2>1. old(p) = old(q)
    BY <1>2, <1>3
  <2> QED
    BY <2>1, <1>0, <1>1
<1>5. ToSet(n) = ToSet(l) \ {l[k]}
  <2>1. ToSet(n) \subseteq ToSet(l) \ {l[k]}
    BY <1>0, <1>2, <1>3 DEF ToSet
  <2>2. ASSUME NEW p \in 1..Len(l), p # k PROVE l[p] \in ToSet(n)
    <3> DEFINE q == IF p < k THEN p ELSE p - 1
    <3>1. q \in DOMAIN n /\ n[q] = l[p]
      BY <2>2, <1>0, <1>1
    <3> QED
      BY <3>1 DEF ToSet
  <2> QED
    BY <2>1, <2>2, <1>0 DEF ToSet
<1>6. ASSUME NEW b \in Nat, NEW y, After(n, b, y) PROVE After(l, b, y)
  <2>1. PICK p \in DOMAIN n : p > b /\ n[p] = y
    BY <1>6 DEF After
  <2> QED
    BY <2>1, <1>0, <1>1, <1>3 DEF After
<1>7. ASSUME NEW b \in Nat, k <= b, b < Len(l), After(n, b, l[b + 1]) PROVE FALSE
  <2>1. PICK p \in DOMAIN n : p > b /\ n[p] = l[b + 1]
    BY <1>7 DEF After
  <2>2. old(p) = b + 1
    BY <2>1, <1>2, <1>3, <1>7
  <2> QED
    BY <2>1, <2>2, <1>7, <1>0, <1>1
<1>8. \A p \in 1..Len(n) : p < k => n[p] = l[p]
  BY <1>0, <1>1
<1> QED
  BY <1>1, <1>4, <1>5, <1>6, <1>7, <1>8

(* Where the reading is: pages are read one after the other from the       *)
(* first.                                                                  *)
LEMMA Reaching ==
  ASSUME PagesTypeOK
  PROVE  /\ Reached \in Nat /\ page \in Nat \ {0} /\ page * PageSize = Reached + PageSize
         /\ page = 1 => Reached = 0
         /\ PageSize \in Nat \ {0} /\ Len(list) \in Nat /\ DOMAIN list = 1..Len(list)
         /\ Len(result) \in Nat /\ DOMAIN result = 1..Len(result)
<1>1. PageSize \in Nat \ {0} /\ page \in Nat \ {0}
  BY PagesAssumption DEF PagesTypeOK
<1>2. page - 1 \in Nat
  BY <1>1
<1>3. (page - 1) * PageSize \in Nat
  BY <1>1, <1>2
<1>4. page * PageSize = (page - 1) * PageSize + PageSize
  BY <1>1, <1>2
<1>5. page = 1 => (page - 1) * PageSize = 0
  BY <1>1
<1>6. Len(list) \in Nat /\ Len(result) \in Nat
      /\ DOMAIN list = 1..Len(list) /\ DOMAIN result = 1..Len(result)
  BY LenProperties DEF PagesTypeOK
<1> QED
  BY <1>1, <1>3, <1>4, <1>5, <1>6 DEF Reached

(* The place up to which a page goes.                                      *)
PageEnd == IF Reached + PageSize > Len(list) THEN Len(list) ELSE Reached + PageSize

(* A page holds what is on the list between two places.                    *)
LEMMA OnThePage ==
  ASSUME PagesTypeOK
  PROVE  /\ PageOf(page) \in Seq(Things)
         /\ Len(PageOf(page)) = IF Reached < PageEnd THEN PageEnd - Reached ELSE 0
         /\ \A p \in 1..PageEnd - Reached : PageOf(page)[p] = list[Reached + p]
         /\ PageEnd \in Nat /\ PageEnd <= Len(list)
<1>1. /\ Reached \in Nat /\ page * PageSize = Reached + PageSize
      /\ PageSize \in Nat \ {0} /\ Len(list) \in Nat
  BY Reaching
<1>2. PageOf(page) = SubSeq(list, Reached + 1, PageEnd)
  BY <1>1 DEF PageOf, PageEnd, Reached
<1>3. PageEnd \in Nat /\ PageEnd <= Len(list)
  BY <1>1 DEF PageEnd
<1>4. \A p \in (Reached + 1)..PageEnd : list[p] \in Things
  <2>1. (Reached + 1)..PageEnd \subseteq 1..Len(list)
    BY <1>1, <1>3
  <2> QED
    BY <2>1, ElementOfSeq DEF PagesTypeOK
<1> DEFINE m == Reached + 1  n == PageEnd
<1>5. m \in Int /\ n \in Int
  BY <1>1, <1>3
<1>6. \A p \in m..n : list[p] \in Things
  BY <1>4
<1> HIDE DEF m, n
<1>7. /\ SubSeq(list, m, n) \in Seq(Things)
      /\ Len(SubSeq(list, m, n)) = IF m <= n THEN n - m + 1 ELSE 0
      /\ \A p \in 1..n - m + 1 : SubSeq(list, m, n)[p] = list[m + p - 1]
  BY <1>5, <1>6, SubSeqProperties
<1>8. /\ PageOf(page) \in Seq(Things)
      /\ Len(PageOf(page)) = IF Reached + 1 <= PageEnd THEN PageEnd - (Reached + 1) + 1 ELSE 0
      /\ \A p \in 1..PageEnd - (Reached + 1) + 1 :
           PageOf(page)[p] = list[(Reached + 1) + p - 1]
  BY <1>7, <1>2 DEF m, n
<1>9. PageEnd - (Reached + 1) + 1 = PageEnd - Reached
  BY <1>1, <1>3
<1>10. \A p \in 1..PageEnd - Reached : (Reached + 1) + p - 1 = Reached + p
  BY <1>1, <1>3
<1> QED
  BY <1>1, <1>3, <1>8, <1>9, <1>10

(* What the pages hold with the next one.                                  *)
LEMMA WithThePage ==
  ASSUME PagesTypeOK
  PROVE  /\ AllRead \in Seq(Things)
         /\ Len(AllRead) = Len(result) + Len(PageOf(page))
         /\ \A p \in 1..Len(result) : AllRead[p] = result[p]
         /\ \A p \in 1..Len(PageOf(page)) : AllRead[Len(result) + p] = list[Reached + p]
         /\ \A p \in DOMAIN AllRead :
              AllRead[p] \in ToSet(result)
                \/ \E q \in DOMAIN list : q > Reached /\ q <= PageEnd /\ AllRead[p] = list[q]
<1>1. /\ Reached \in Nat /\ PageSize \in Nat \ {0} /\ Len(list) \in Nat
      /\ DOMAIN list = 1..Len(list)
      /\ Len(result) \in Nat /\ DOMAIN result = 1..Len(result)
  BY Reaching
<1>2. /\ PageOf(page) \in Seq(Things) /\ Len(PageOf(page)) \in Nat
      /\ Len(PageOf(page)) = IF Reached < PageEnd THEN PageEnd - Reached ELSE 0
      /\ \A p \in 1..PageEnd - Reached : PageOf(page)[p] = list[Reached + p]
      /\ PageEnd \in Nat /\ PageEnd <= Len(list)
  BY OnThePage, LenProperties
<1> DEFINE new == PageOf(page)
<1> HIDE DEF new
<1>3. new \in Seq(Things) /\ result \in Seq(Things) /\ Len(new) \in Nat
  BY <1>2 DEF new, PagesTypeOK
<1>4. /\ result \o new \in Seq(Things)
      /\ Len(result \o new) = Len(result) + Len(new)
      /\ \A p \in 1..Len(result) + Len(new) :
           (result \o new)[p] = IF p <= Len(result) THEN result[p] ELSE new[p - Len(result)]
  BY <1>3, ConcatProperties
<1>5. AllRead = result \o new
  BY DEF AllRead, new
<1>6. AllRead \in Seq(Things) /\ Len(AllRead) = Len(result) + Len(new)
      /\ \A p \in 1..Len(result) + Len(new) :
           AllRead[p] = IF p <= Len(result) THEN result[p] ELSE new[p - Len(result)]
  BY <1>4, <1>5
<1>7. \A p \in 1..Len(new) : new[p] = list[Reached + p]
  BY <1>1, <1>2 DEF new
<1>8. DOMAIN AllRead = 1..Len(result) + Len(new)
  BY <1>6, LenProperties
<1>9. \A p \in 1..Len(result) : AllRead[p] = result[p]
  BY <1>1, <1>3, <1>6
<1>10. ASSUME NEW p \in 1..Len(new) PROVE AllRead[Len(result) + p] = list[Reached + p]
  <2>1. Len(result) + p \in 1..Len(result) + Len(new) /\ ~(Len(result) + p <= Len(result))
        /\ Len(result) + p - Len(result) = p
    BY <1>1, <1>3
  <2>2. AllRead[Len(result) + p] = new[Len(result) + p - Len(result)]
    BY <2>1, <1>6
  <2>3. new[Len(result) + p - Len(result)] = list[Reached + p]
    BY <2>1, <1>7
  <2> QED
    BY <2>2, <2>3
<1>11. ASSUME NEW p \in DOMAIN AllRead
       PROVE  AllRead[p] \in ToSet(result)
                \/ \E q \in DOMAIN list : q > Reached /\ q <= PageEnd /\ AllRead[p] = list[q]
  <2>1. CASE p <= Len(result)
    BY <2>1, <1>1, <1>3, <1>8, <1>9 DEF ToSet
  <2>2. CASE p > Len(result)
    <3>1. p - Len(result) \in 1..Len(new) /\ Len(result) + (p - Len(result)) = p
      BY <2>2, <1>1, <1>3, <1>8
    <3>2. AllRead[p] = list[Reached + (p - Len(result))]
      BY <3>1, <1>10
    <3>3. /\ Reached + (p - Len(result)) \in 1..Len(list)
          /\ Reached + (p - Len(result)) > Reached /\ Reached + (p - Len(result)) <= PageEnd
      BY <3>1, <1>1, <1>2 DEF new
    <3> QED
      BY <3>2, <3>3, <1>1
  <2> QED
    BY <2>1, <2>2, <1>1, <1>3, <1>8
<1> QED
  BY <1>6, <1>9, <1>10, <1>11 DEF new

(* What a page adds are elements after the place that was reached, all up  *)
(* to the next.                                                            *)
LEMMA PageElements ==
  ASSUME PagesTypeOK, InstantPart
  PROVE  /\ ToSet(result) \subseteq ToSet(AllRead)
         /\ ToSet(AllRead) \subseteq ToSet(result) \cup ToSet(list)
         /\ \A x : After(list, Reached, x) =>
              x \in ToSet(AllRead) \/ After(list, Reached + PageSize, x)
         /\ \A x \in ToSet(AllRead) : x \in ToSet(result) \/ After(list, Reached, x)
         /\ \A x \in ToSet(AllRead) : Before(list, Reached, x) => x \in ToSet(result)
         /\ \A x : Before(list, Reached, x) => Before(list, Reached + PageSize, x)
         /\ LastPage => \A x : ~After(list, Reached + PageSize, x)
<1>1. /\ Reached \in Nat /\ PageSize \in Nat \ {0} /\ Len(list) \in Nat
      /\ DOMAIN list = 1..Len(list) /\ page * PageSize = Reached + PageSize
      /\ Len(result) \in Nat /\ DOMAIN result = 1..Len(result)
  BY Reaching
<1>2. /\ PageOf(page) \in Seq(Things) /\ Len(PageOf(page)) \in Nat
      /\ Len(PageOf(page)) = IF Reached < PageEnd THEN PageEnd - Reached ELSE 0
      /\ PageEnd \in Nat /\ PageEnd <= Len(list)
  BY OnThePage, LenProperties
<1>3. /\ AllRead \in Seq(Things)
      /\ Len(AllRead) = Len(result) + Len(PageOf(page))
      /\ \A p \in 1..Len(result) : AllRead[p] = result[p]
      /\ \A p \in 1..Len(PageOf(page)) : AllRead[Len(result) + p] = list[Reached + p]
      /\ \A p \in DOMAIN AllRead :
           AllRead[p] \in ToSet(result)
             \/ \E q \in DOMAIN list : q > Reached /\ q <= PageEnd /\ AllRead[p] = list[q]
  BY WithThePage
<1>4. DOMAIN AllRead = 1..Len(result) + Len(PageOf(page))
  BY <1>3, LenProperties
<1>5. ToSet(result) \subseteq ToSet(AllRead)
  <2> SUFFICES ASSUME NEW p \in DOMAIN result PROVE result[p] \in ToSet(AllRead)
    BY DEF ToSet
  <2>1. p \in DOMAIN AllRead /\ AllRead[p] = result[p]
    BY <1>1, <1>2, <1>3, <1>4
  <2> QED
    BY <2>1 DEF ToSet
<1>6. ASSUME NEW x, After(list, Reached, x)
      PROVE  x \in ToSet(AllRead) \/ After(list, Reached + PageSize, x)
  <2>1. PICK p \in 1..Len(list) : p > Reached /\ list[p] = x
    BY <1>6, <1>1 DEF After
  <2>2. CASE p > Reached + PageSize
    BY <2>1, <2>2, <1>1 DEF After
  <2>3. CASE p <= Reached + PageSize
    <3>1. p <= PageEnd
      BY <2>1, <2>3, <1>1 DEF PageEnd
    <3>2. p - Reached \in 1..Len(PageOf(page)) /\ Reached + (p - Reached) = p
      BY <3>1, <2>1, <1>1, <1>2
    <3>3. AllRead[Len(result) + (p - Reached)] = list[Reached + (p - Reached)]
      BY <3>2, <1>3
    <3>4. AllRead[Len(result) + (p - Reached)] = x
      BY <3>2, <3>3, <2>1
    <3>5. Len(result) + (p - Reached) \in DOMAIN AllRead
      BY <3>2, <1>1, <1>2, <1>4
    <3> QED
      BY <3>4, <3>5 DEF ToSet
  <2> QED
    BY <2>1, <2>2, <2>3, <1>1
<1>7. ASSUME NEW x \in ToSet(AllRead)
      PROVE  x \in ToSet(result) \/ After(list, Reached, x)
  <2>1. PICK p \in DOMAIN AllRead : AllRead[p] = x
    BY DEF ToSet
  <2> QED
    BY <2>1, <1>3 DEF After
<1>8. ASSUME NEW x \in ToSet(AllRead), Before(list, Reached, x) PROVE x \in ToSet(result)
  <2>1. IsInjective(list)
    BY DEF InstantPart
  <2>2. ~After(list, Reached, x)
    BY <1>8, <1>1, <2>1 DEF Before, After, IsInjective
  <2> QED
    BY <2>2, <1>7
<1>9. \A x : Before(list, Reached, x) => Before(list, Reached + PageSize, x)
  BY <1>1 DEF Before
<1>10. LastPage => \A x : ~After(list, Reached + PageSize, x)
  BY <1>1 DEF LastPage, HasNext, After
<1>11. ToSet(AllRead) \subseteq ToSet(result) \cup ToSet(list)
  BY <1>7 DEF After, ToSet
<1> QED
  BY <1>5, <1>6, <1>7, <1>8, <1>9, <1>10, <1>11

(* A reading that is up to date stays so with the next page.               *)
LEMMA PageUpToDate ==
  ASSUME PagesTypeOK, UpToDate
  PROVE  /\ LastPage => AllRead = list
         /\ ~LastPage => /\ Len(AllRead) = Reached + PageSize
                         /\ Reached + PageSize < Len(list)
                         /\ \A p \in 1..Reached + PageSize : AllRead[p] = list[p]
<1>1. /\ Reached \in Nat /\ PageSize \in Nat \ {0} /\ Len(list) \in Nat
      /\ page * PageSize = Reached + PageSize
      /\ Len(result) = Reached /\ Reached <= Len(list)
      /\ \A p \in 1..Reached : result[p] = list[p]
  BY Reaching DEF UpToDate
<1>2. /\ Len(PageOf(page)) = PageEnd - Reached
      /\ Reached <= PageEnd /\ PageEnd \in Nat /\ PageEnd <= Len(list)
  BY OnThePage, <1>1 DEF PageEnd
<1>3. /\ AllRead \in Seq(Things)
      /\ Len(AllRead) = PageEnd
      /\ \A p \in 1..Reached : AllRead[p] = result[p]
      /\ \A p \in 1..PageEnd - Reached : AllRead[Reached + p] = list[Reached + p]
  BY WithThePage, <1>1, <1>2
<1>4. ASSUME NEW p \in 1..PageEnd PROVE AllRead[p] = list[p]
  <2>1. CASE p <= Reached
    BY <2>1, <1>1, <1>2, <1>3
  <2>2. CASE p > Reached
    <3>1. p - Reached \in 1..PageEnd - Reached /\ Reached + (p - Reached) = p
      BY <2>2, <1>1, <1>2
    <3>2. AllRead[Reached + (p - Reached)] = list[Reached + (p - Reached)]
      BY <3>1, <1>3
    <3> QED
      BY <3>1, <3>2
  <2> QED
    BY <2>1, <2>2, <1>1, <1>2
<1>5. CASE LastPage
  <2>1. PageEnd = Len(list)
    BY <1>5, <1>1 DEF LastPage, HasNext, PageEnd
  <2>2. AllRead = list
    BY <2>1, <1>3, <1>4, SeqEqual DEF PagesTypeOK
  <2> QED
    BY <2>2, <1>5
<1>6. CASE ~LastPage
  <2>1. PageEnd = Reached + PageSize /\ Reached + PageSize < Len(list)
    BY <1>6, <1>1 DEF LastPage, HasNext, PageEnd
  <2> QED
    BY <2>1, <1>3, <1>4, <1>6
<1> QED
  BY <1>5, <1>6

(* An element that was read and comes again is read twice.                 *)
LEMMA PageTwice ==
  ASSUME PagesTypeOK
  PROVE  /\ ~IsInjective(result) => ~IsInjective(AllRead)
         /\ \A x \in ToSet(result) : After(list, Reached, x) =>
              ~IsInjective(AllRead) \/ After(list, Reached + PageSize, x)
<1>1. /\ Reached \in Nat /\ PageSize \in Nat \ {0} /\ Len(list) \in Nat
      /\ DOMAIN list = 1..Len(list) /\ page * PageSize = Reached + PageSize
      /\ Len(result) \in Nat /\ DOMAIN result = 1..Len(result)
  BY Reaching
<1>2. /\ PageOf(page) \in Seq(Things) /\ Len(PageOf(page)) \in Nat
      /\ Len(PageOf(page)) = IF Reached < PageEnd THEN PageEnd - Reached ELSE 0
      /\ PageEnd \in Nat /\ PageEnd <= Len(list)
  BY OnThePage, LenProperties
<1>3. /\ AllRead \in Seq(Things)
      /\ Len(AllRead) = Len(result) + Len(PageOf(page))
      /\ \A p \in 1..Len(result) : AllRead[p] = result[p]
      /\ \A p \in 1..Len(PageOf(page)) : AllRead[Len(result) + p] = list[Reached + p]
  BY WithThePage
<1>4. DOMAIN AllRead = 1..Len(result) + Len(PageOf(page))
  BY <1>3, LenProperties
<1>5. \A p \in DOMAIN result : p \in DOMAIN AllRead /\ AllRead[p] = result[p]
  BY <1>1, <1>2, <1>3, <1>4
<1>6. ~IsInjective(result) => ~IsInjective(AllRead)
  BY <1>5 DEF IsInjective
<1>7. ASSUME NEW x \in ToSet(result), After(list, Reached, x),
             ~After(list, Reached + PageSize, x)
      PROVE  ~IsInjective(AllRead)
  <2>1. PICK q \in DOMAIN result : result[q] = x
    BY DEF ToSet
  <2>2. PICK p \in 1..Len(list) : p > Reached /\ list[p] = x
    BY <1>7, <1>1 DEF After
  <2>3. p <= Reached + PageSize
    BY <2>2, <1>7, <1>1 DEF After
  <2>4. p <= PageEnd
    BY <2>2, <2>3, <1>1 DEF PageEnd
  <2>5. p - Reached \in 1..Len(PageOf(page)) /\ Reached + (p - Reached) = p
    BY <2>4, <2>2, <1>1, <1>2
  <2>6. AllRead[Len(result) + (p - Reached)] = list[Reached + (p - Reached)]
    BY <2>5, <1>3
  <2>7. /\ AllRead[Len(result) + (p - Reached)] = AllRead[q]
        /\ Len(result) + (p - Reached) \in DOMAIN AllRead
        /\ q \in DOMAIN AllRead /\ q # Len(result) + (p - Reached)
    <3>1. AllRead[Len(result) + (p - Reached)] = x /\ AllRead[q] = x
      BY <2>1, <2>2, <2>5, <2>6, <1>5
    <3>2. q \in DOMAIN AllRead
      BY <1>5
    <3>3. /\ Len(result) + (p - Reached) \in 1..Len(result) + Len(PageOf(page))
          /\ q # Len(result) + (p - Reached)
      BY <2>5, <1>1, <1>2
    <3> QED
      BY <3>1, <3>2, <3>3, <1>4
  <2> QED
    BY <2>7 DEF IsInjective
<1> QED
  BY <1>6, <1>7

(* What a change does to the kinds of the changes.                         *)
LEMMA KindAdded ==
  ASSUME PagesTypeOK, NEW kind \in {"add", "append", "remove"},
         changes' = Append(changes, kind)
  PROVE  /\ changes' \in Seq({"add", "append", "remove"})
         /\ Kinds' = Kinds \cup {kind}
<1>1. changes \in Seq({"add", "append", "remove"})
  BY DEF PagesTypeOK
<1>2. /\ changes' \in Seq({"add", "append", "remove"})
      /\ Len(changes') = Len(changes) + 1 /\ Len(changes) \in Nat
      /\ DOMAIN changes' = 1..Len(changes) + 1 /\ DOMAIN changes = 1..Len(changes)
      /\ \A i \in 1..Len(changes) : changes'[i] = changes[i]
      /\ changes'[Len(changes) + 1] = kind
  BY <1>1
<1>3. \A i \in DOMAIN changes' : i \in DOMAIN changes \/ i = Len(changes) + 1
  BY <1>2
<1>4. \A i \in DOMAIN changes : i \in DOMAIN changes' /\ changes'[i] = changes[i]
  BY <1>2
<1>5. Len(changes) + 1 \in DOMAIN changes'
  BY <1>2
<1>6. Kinds' \subseteq Kinds \cup {kind}
  BY <1>2, <1>3, <1>4 DEF Kinds, ToSet
<1>7. Kinds \cup {kind} \subseteq Kinds'
  BY <1>2, <1>4, <1>5 DEF Kinds, ToSet
<1> QED
  BY <1>2, <1>6, <1>7

(* What an addition does to the list, to its history and to what was read. *)
LEMMA PutEffect ==
  ASSUME PagesTypeOK, InstantPart,
         NEW x \in Things, NEW k \in 1..Len(list) + 1, Put(x, k)
  PROVE  /\ x \notin ToSet(list)
         /\ list' \in Seq(Things) /\ IsInjective(list') /\ Len(list') = Len(list) + 1
         /\ ToSet(list') = ToSet(list) \cup {x}
         /\ \A y : After(list, Reached, y) => After(list', Reached, y)
         /\ k <= Reached => Before(list', Reached, x)
         /\ \A y : Reached < k /\ Before(list, Reached, y) => Before(list', Reached, y)
         /\ \A b \in 1..Len(list) : k <= b => After(list', b, list[b])
         /\ \A p \in 1..Len(list) : p < k => list'[p] = list[p]
         /\ during' = during \cup {list'} /\ during' # {list'}
         /\ UNCHANGED <<keyed, stage, reading, page, total, result, earlier>>
         /\ Reached' = Reached /\ Reached \in Nat
         /\ changes' \in Seq({"add", "append", "remove"})
         /\ ~Shrinking' /\ (Growing' => Growing)
         /\ Extending' => Extending /\ k = Len(list) + 1
         /\ OneWay' => OneWay /\ Growing'
<1>1. /\ x \notin ToSet(list)
      /\ list' = InsertAt(list, k, x)
      /\ changes' = Append(changes, IF k = Len(list) + 1 THEN "append" ELSE "add")
      /\ during' = during \cup {list'}
      /\ UNCHANGED <<keyed, stage, reading, page, total, result, earlier>>
  BY DEF Put, Become
<1>2. Reached \in Nat /\ Reached' = Reached /\ Len(list) \in Nat
  BY Reaching, <1>1 DEF Reached
<1>3. list \in Seq(Things) /\ IsInjective(list) /\ list \in during
  BY DEF PagesTypeOK, InstantPart
<1>4. /\ list' \in Seq(Things) /\ IsInjective(list') /\ Len(list') = Len(list) + 1
      /\ ToSet(list') = ToSet(list) \cup {x}
      /\ \A b \in Nat : \A y : After(list, b, y) => After(list', b, y)
      /\ \A b \in Nat : k <= b => Before(list', b, x)
      /\ \A b \in Nat : \A y : b < k /\ Before(list, b, y) => Before(list', b, y)
      /\ \A b \in 1..Len(list) : k <= b => After(list', b, list[b])
      /\ \A p \in 1..Len(list) : p < k => list'[p] = list[p]
  <2> DEFINE n == list'
  <2>1. n = InsertAt(list, k, x)
    BY <1>1
  <2> HIDE DEF n
  <2>2. /\ n \in Seq(Things) /\ IsInjective(n) /\ Len(n) = Len(list) + 1
        /\ ToSet(n) = ToSet(list) \cup {x}
        /\ \A b \in Nat : \A y : After(list, b, y) => After(n, b, y)
        /\ \A b \in Nat : k <= b => Before(n, b, x)
        /\ \A b \in Nat : \A y : b < k /\ Before(list, b, y) => Before(n, b, y)
        /\ \A b \in 1..Len(list) : k <= b => After(n, b, list[b])
        /\ \A p \in 1..Len(list) : p < k => n[p] = list[p]
    BY <2>1, <1>1, <1>3, AfterInserting
  <2> QED
    BY <2>2 DEF n
<1>5. during' # {list'}
  <2>1. list # list'
    BY <1>2, <1>4
  <2> QED
    BY <2>1, <1>1, <1>3
<1>6. /\ changes' \in Seq({"add", "append", "remove"})
      /\ Kinds' = Kinds \cup {IF k = Len(list) + 1 THEN "append" ELSE "add"}
  BY <1>1, KindAdded
<1>7. /\ ~Shrinking' /\ (Growing' => Growing)
      /\ Extending' => Extending /\ k = Len(list) + 1
      /\ OneWay' => OneWay /\ Growing'
  BY <1>6 DEF Shrinking, Growing, Extending, OneWay
<1> QED
  BY <1>1, <1>2, <1>4, <1>5, <1>6, <1>7

(* What a removal does to the list, to its history and to what was read.   *)
LEMMA DropEffect ==
  ASSUME PagesTypeOK, InstantPart, NEW k \in DOMAIN list, Drop(k)
  PROVE  /\ list' \in Seq(Things) /\ IsInjective(list') /\ Len(list') = Len(list) - 1
         /\ Len(list) \in Nat /\ k \in 1..Len(list)
         /\ ToSet(list') = ToSet(list) \ {list[k]}
         /\ \A y : After(list', Reached, y) => After(list, Reached, y)
         /\ k <= Reached /\ Reached < Len(list) => ~After(list', Reached, list[Reached + 1])
         /\ \A p \in 1..Len(list') : p < k => list'[p] = list[p]
         /\ during' = during \cup {list'} /\ during' # {list'}
         /\ UNCHANGED <<keyed, stage, reading, page, total, result, earlier>>
         /\ Reached' = Reached /\ Reached \in Nat
         /\ changes' \in Seq({"add", "append", "remove"})
         /\ ~Growing' /\ ~Extending' /\ (Shrinking' => Shrinking)
         /\ OneWay' => OneWay /\ Shrinking'
<1>1. /\ list' = RemoveAt(list, k)
      /\ changes' = Append(changes, "remove")
      /\ during' = during \cup {list'}
      /\ UNCHANGED <<keyed, stage, reading, page, total, result, earlier>>
  BY DEF Drop, Become
<1>2. Reached \in Nat /\ Reached' = Reached /\ Len(list) \in Nat /\ k \in 1..Len(list)
  BY Reaching, <1>1 DEF Reached
<1>3. list \in Seq(Things) /\ IsInjective(list) /\ list \in during
  BY DEF PagesTypeOK, InstantPart
<1>4. /\ list' \in Seq(Things) /\ IsInjective(list') /\ Len(list') = Len(list) - 1
      /\ ToSet(list') = ToSet(list) \ {list[k]}
      /\ \A b \in Nat : \A y : After(list', b, y) => After(list, b, y)
      /\ \A b \in Nat : k <= b /\ b < Len(list) => ~After(list', b, list[b + 1])
      /\ \A p \in 1..Len(list') : p < k => list'[p] = list[p]
  <2> DEFINE n == list'
  <2>1. n = RemoveAt(list, k)
    BY <1>1
  <2> HIDE DEF n
  <2>2. /\ n \in Seq(Things) /\ IsInjective(n) /\ Len(n) = Len(list) - 1
        /\ ToSet(n) = ToSet(list) \ {list[k]}
        /\ \A b \in Nat : \A y : After(n, b, y) => After(list, b, y)
        /\ \A b \in Nat : k <= b /\ b < Len(list) => ~After(n, b, list[b + 1])
        /\ \A p \in 1..Len(n) : p < k => n[p] = list[p]
    BY <2>1, <1>2, <1>3, AfterRemoving, SMTT(60)
  <2> QED
    BY <2>2 DEF n
<1>5. during' # {list'}
  <2>1. list # list'
    BY <1>2, <1>4
  <2> QED
    BY <2>1, <1>1, <1>3
<1>6. /\ changes' \in Seq({"add", "append", "remove"})
      /\ Kinds' = Kinds \cup {"remove"}
  BY <1>1, KindAdded
<1>7. /\ ~Growing' /\ ~Extending' /\ (Shrinking' => Shrinking)
      /\ OneWay' => OneWay /\ Shrinking'
  BY <1>6 DEF Shrinking, Growing, Extending, OneWay
<1> QED
  BY <1>1, <1>2, <1>4, <1>5, <1>6, <1>7

(* A reading that is up to date is so after an element was added after its *)
(* place; with one before it, the last element read comes once more.       *)
LEMMA PutUpToDate ==
  ASSUME PagesTypeOK, InstantPart, UpToDate,
         NEW x \in Things, NEW k \in 1..Len(list) + 1, Put(x, k)
  PROVE  /\ k > Reached => UpToDate'
         /\ k <= Reached => \E y \in ToSet(result') : After(list', Reached', y)
<1>1. /\ list' \in Seq(Things) /\ Len(list') = Len(list) + 1
      /\ \A b \in 1..Len(list) : k <= b => After(list', b, list[b])
      /\ \A p \in 1..Len(list) : p < k => list'[p] = list[p]
      /\ result' = result
      /\ Reached' = Reached /\ Reached \in Nat
  BY PutEffect
<1>2. /\ Len(list) \in Nat /\ DOMAIN result = 1..Len(result)
      /\ Len(result) = Reached /\ Reached <= Len(list)
      /\ \A p \in 1..Reached : result[p] = list[p]
  BY Reaching DEF UpToDate
<1>3. CASE k > Reached
  <2>1. \A p \in 1..Reached : result[p] = list'[p]
    BY <1>1, <1>2, <1>3
  <2>2. UpToDate'
    BY <2>1, <1>1, <1>2 DEF UpToDate
  <2> QED
    BY <2>2, <1>1, <1>3
<1>4. CASE k <= Reached
  <2>1. Reached \in 1..Len(list) /\ Reached \in DOMAIN result
    BY <1>1, <1>2, <1>4
  <2>2. After(list', Reached, list[Reached]) /\ list[Reached] = result[Reached]
    BY <2>1, <1>1, <1>2, <1>4
  <2>3. result[Reached] \in ToSet(result')
    BY <2>1, <1>1 DEF ToSet
  <2> QED
    BY <2>2, <2>3, <1>1, <1>4
<1> QED
  BY <1>1, <1>3, <1>4

(* An addition before the place that was reached is an element the reading *)
(* misses, and one element comes twice; after the place it will be read.   *)
LEMMA PutKeepsGrowing ==
  ASSUME PagesInv, NEW x \in Things, NEW k \in 1..Len(list) + 1, Put(x, k)
  PROVE  GrowingPart'
<1> SUFFICES ASSUME Growing'
             PROVE  /\ (ToSet(result) \cup ToSet(earlier) \subseteq ToSet(list))'
                    /\ GrowingReads'
  BY DEF GrowingPart
<1> USE DEF PagesInv
<1>1. /\ x \notin ToSet(list)
      /\ ToSet(list') = ToSet(list) \cup {x}
      /\ \A y : After(list, Reached, y) => After(list', Reached, y)
      /\ k <= Reached => Before(list', Reached, x)
      /\ \A y : Reached < k /\ Before(list, Reached, y) => Before(list', Reached, y)
      /\ during' = during \cup {list'}
      /\ UNCHANGED <<keyed, stage, reading, page, total, result, earlier>>
      /\ Reached' = Reached /\ Reached \in Nat
      /\ Growing
  BY PutEffect
<1>2. ToSet(result) \cup ToSet(earlier) \subseteq ToSet(list) /\ GrowingReads
  BY <1>1 DEF GrowingPart
<1>3. k \in Nat
  BY Reaching
<1>4. UpToDate =>
        UpToDate' \/ (k <= Reached /\ \E y \in ToSet(result') : After(list', Reached', y))
  BY <1>1, <1>3, PutUpToDate
<1>5. (ToSet(result) \cup ToSet(earlier) \subseteq ToSet(list))'
  BY <1>1, <1>2
<1>6. ASSUME reading = 1, stage = "reading"
      PROVE  (UpToDate \/ \E y \in ToSet(list) : Before(list, Reached, y) /\ y \notin ToSet(result))'
  <2>1. CASE k <= Reached
    <3>1. x \in ToSet(list') /\ Before(list', Reached', x) /\ x \notin ToSet(result')
      BY <2>1, <1>1, <1>2
    <3> QED
      BY <3>1
  <2>2. CASE k > Reached /\ UpToDate
    BY <2>2, <1>1, <1>3, <1>4
  <2>3. CASE k > Reached /\ ~UpToDate
    <3>1. PICK y \in ToSet(list) : Before(list, Reached, y) /\ y \notin ToSet(result)
      BY <1>2, <1>6, <2>3 DEF GrowingReads
    <3>2. y \in ToSet(list') /\ Before(list', Reached', y) /\ y \notin ToSet(result')
      BY <3>1, <2>3, <1>1
    <3> QED
      BY <3>2
  <2> QED
    BY <2>1, <2>2, <2>3, <1>1, <1>3
<1>7. ASSUME reading = 1, stage = "complete"
      PROVE  (result \in during \/ \E y \in ToSet(list) : y \notin ToSet(result))'
  BY <1>1, <1>2, <1>7 DEF GrowingReads
<1>8. ASSUME reading = 2, stage = "reading"
      PROVE  (\/ \E y \in ToSet(list) :
                    y \notin ToSet(earlier) /\ (y \in ToSet(result) \/ After(list, Reached, y))
              \/ /\ earlier \in during
                 /\ \/ UpToDate \/ ~IsInjective(result)
                    \/ \E y \in ToSet(result) : After(list, Reached, y))'
  <2>1. CASE \E y \in ToSet(list) :
               y \notin ToSet(earlier) /\ (y \in ToSet(result) \/ After(list, Reached, y))
    BY <2>1, <1>1
  <2>2. CASE /\ earlier \in during
             /\ \/ UpToDate \/ ~IsInjective(result)
                \/ \E y \in ToSet(result) : After(list, Reached, y)
    <3>1. earlier' \in during'
      BY <2>2, <1>1
    <3>2. (\/ UpToDate \/ ~IsInjective(result)
           \/ \E y \in ToSet(result) : After(list, Reached, y))'
      BY <2>2, <1>1, <1>4
    <3> QED
      BY <3>1, <3>2
  <2> QED
    BY <2>1, <2>2, <1>2, <1>8 DEF GrowingReads
<1>9. ASSUME reading = 2, stage = "complete"
      PROVE  (\/ \E y \in ToSet(result) : y \notin ToSet(earlier)
              \/ earlier \in during /\ (result \in during \/ ~IsInjective(result)))'
  BY <1>1, <1>2, <1>9 DEF GrowingReads
<1> QED
  BY <1>1, <1>5, <1>6, <1>7, <1>8, <1>9 DEF GrowingReads

(* An addition keeps the types.                                            *)
LEMMA PutKeepsTypes ==
  ASSUME PagesTypeOK, InstantPart, NEW x \in Things, NEW k \in 1..Len(list) + 1, Put(x, k)
  PROVE  PagesTypeOK'
BY PutEffect DEF PagesTypeOK

(* An addition keeps the history: what was read was on the list once.      *)
LEMMA PutKeepsInstants ==
  ASSUME PagesTypeOK, InstantPart, NEW x \in Things, NEW k \in 1..Len(list) + 1, Put(x, k)
  PROVE  InstantPart'
<1>1. /\ IsInjective(list') /\ during' = during \cup {list'}
      /\ UNCHANGED <<stage, page, result>>
  BY PutEffect
<1>2. \A l \in during' : IsInjective(l)
  BY <1>1 DEF InstantPart
<1>3. \A p \in DOMAIN result' : \E l \in during' : result'[p] \in ToSet(l)
  BY <1>1 DEF InstantPart
<1> QED
  BY <1>1, <1>2, <1>3 DEF InstantPart

(* After an addition the list is longer than the total of the first page,  *)
(* for good as long as it only grows.                                      *)
LEMMA PutKeepsCounted ==
  ASSUME PagesInv, NEW x \in Things, NEW k \in 1..Len(list) + 1, Put(x, k)
  PROVE  CountedPart'
<1> USE DEF PagesInv
<1>1. /\ Len(list') = Len(list) + 1 /\ during' = during \cup {list'}
      /\ UNCHANGED <<keyed, stage, page, total, result>>
      /\ ~Shrinking' /\ (Growing' => Growing)
      /\ OneWay' => OneWay /\ Growing'
  BY PutEffect
<1>2. Len(list) \in Nat /\ total \in Nat
  BY Reaching DEF PagesTypeOK
<1>3. ASSUME keyed, stage = "complete"
      PROVE  IsInjective(result') /\ \E l \in during' : Len(l) = Len(result')
  BY <1>1, <1>3 DEF CountedPart
<1>4. ASSUME keyed, stage = "reading", page > 1, Growing' PROVE total' < Len(list')
  BY <1>1, <1>2, <1>4 DEF CountedPart
<1>5. ASSUME keyed, stage = "complete", OneWay' PROVE result' \in during'
  BY <1>1, <1>5 DEF CountedPart
<1>6. keyed' /\ stage' = "reading" /\ page' > 1 =>
        /\ Growing' => total' <= Len(list')
        /\ Shrinking' => Len(list') <= total'
        /\ OneWay' /\ Len(list') = total' => UpToDate'
  BY <1>1, <1>2, <1>4
<1> QED
  BY <1>1, <1>3, <1>5, <1>6 DEF CountedPart

(* An addition at the end changes nothing of what was read.                *)
LEMMA PutKeepsQuiet ==
  ASSUME PagesInv, NEW x \in Things, NEW k \in 1..Len(list) + 1, Put(x, k)
  PROVE  QuietPart'
<1> USE DEF PagesInv
<1>1. /\ during' = during \cup {list'} /\ during' # {list'}
      /\ UNCHANGED <<stage, result>>
      /\ Extending' => Extending /\ k = Len(list) + 1
  BY PutEffect
<1>2. ASSUME Extending', stage = "reading" PROVE UpToDate'
  <2>1. UpToDate
    BY <1>1, <1>2 DEF QuietPart
  <2>2. k > Reached
    BY <2>1, <1>1, <1>2, Reaching DEF UpToDate
  <2> QED
    BY <2>1, <2>2, PutUpToDate
<1>3. ASSUME Extending', stage = "complete" PROVE result' \in during'
  BY <1>1, <1>3 DEF QuietPart
<1> QED
  BY <1>1, <1>2, <1>3 DEF QuietPart

(* An addition keeps the invariant.                                        *)
LEMMA PutKeepsInvariant ==
  ASSUME PagesInv, NEW x \in Things, NEW k \in 1..Len(list) + 1, Put(x, k)
  PROVE  PagesInv'
<1> USE DEF PagesInv
<1>1. ~Shrinking' /\ (OneWay' => OneWay) /\ during' = during \cup {list'}
      /\ UNCHANGED <<stage, result, earlier>>
  BY PutEffect
<1>2. PagesTypeOK' /\ InstantPart'
  BY PutKeepsTypes, PutKeepsInstants
<1>3. CountedPart' /\ QuietPart' /\ GrowingPart'
  BY PutKeepsCounted, PutKeepsQuiet, PutKeepsGrowing
<1>4. ShrinkingPart'
  BY <1>1 DEF ShrinkingPart
<1>5. AcceptedPart'
  BY <1>1 DEF AcceptedPart
<1> QED
  BY <1>2, <1>3, <1>4, <1>5

-----------------------------------------------------------------------------
(* A removal keeps the types.                                              *)
LEMMA DropKeepsTypes ==
  ASSUME PagesTypeOK, InstantPart, NEW k \in DOMAIN list, Drop(k)
  PROVE  PagesTypeOK'
BY DropEffect DEF PagesTypeOK

(* A removal keeps the history.                                            *)
LEMMA DropKeepsInstants ==
  ASSUME PagesTypeOK, InstantPart, NEW k \in DOMAIN list, Drop(k)
  PROVE  InstantPart'
<1>1. /\ IsInjective(list') /\ during' = during \cup {list'}
      /\ UNCHANGED <<stage, page, result>>
  BY DropEffect
<1>2. \A l \in during' : IsInjective(l)
  BY <1>1 DEF InstantPart
<1>3. \A p \in DOMAIN result' : \E l \in during' : result'[p] \in ToSet(l)
  BY <1>1 DEF InstantPart
<1> QED
  BY <1>1, <1>2, <1>3 DEF InstantPart

(* After a removal the list is shorter than the total of the first page,   *)
(* for good as long as it only shrinks.                                    *)
LEMMA DropKeepsCounted ==
  ASSUME PagesInv, NEW k \in DOMAIN list, Drop(k)
  PROVE  CountedPart'
<1> USE DEF PagesInv
<1>1. /\ Len(list') = Len(list) - 1 /\ during' = during \cup {list'}
      /\ UNCHANGED <<keyed, stage, page, total, result>>
      /\ ~Growing' /\ (Shrinking' => Shrinking)
      /\ OneWay' => OneWay /\ Shrinking'
  BY DropEffect
<1>2. Len(list) \in Nat /\ total \in Nat
  BY Reaching DEF PagesTypeOK
<1>3. ASSUME keyed, stage = "complete"
      PROVE  IsInjective(result') /\ \E l \in during' : Len(l) = Len(result')
  BY <1>1, <1>3 DEF CountedPart
<1>4. ASSUME keyed, stage = "reading", page > 1, Shrinking' PROVE Len(list') < total'
  BY <1>1, <1>2, <1>4 DEF CountedPart
<1>5. ASSUME keyed, stage = "complete", OneWay' PROVE result' \in during'
  BY <1>1, <1>5 DEF CountedPart
<1>6. keyed' /\ stage' = "reading" /\ page' > 1 =>
        /\ Growing' => total' <= Len(list')
        /\ Shrinking' => Len(list') <= total'
        /\ OneWay' /\ Len(list') = total' => UpToDate'
  BY <1>1, <1>2, <1>4
<1> QED
  BY <1>1, <1>3, <1>5, <1>6 DEF CountedPart

(* A reading that is up to date is so after an element after its place was *)
(* removed; one removed before it has been read, and the one that moves    *)
(* over the place will not be.                                             *)
LEMMA DropUpToDate ==
  ASSUME PagesTypeOK, InstantPart, UpToDate, NEW k \in DOMAIN list, Drop(k)
  PROVE  /\ k > Reached => UpToDate' /\ list[k] \notin ToSet(result)
         /\ k <= Reached => list[k] \in ToSet(result)
         /\ Reached < Len(list) => list[Reached + 1] \notin ToSet(result)
<1>1. /\ Len(list') = Len(list) - 1 /\ k \in 1..Len(list)
      /\ \A p \in 1..Len(list') : p < k => list'[p] = list[p]
      /\ result' = result
      /\ Reached' = Reached /\ Reached \in Nat
  BY DropEffect
<1>2. /\ Len(list) \in Nat /\ DOMAIN list = 1..Len(list) /\ DOMAIN result = 1..Len(result)
      /\ Len(result) = Reached /\ Reached <= Len(list)
      /\ \A p \in 1..Reached : result[p] = list[p]
  BY Reaching DEF UpToDate
<1>3. ASSUME NEW q \in 1..Len(list), q > Reached PROVE list[q] \notin ToSet(result)
  <2>1. IsInjective(list)
    BY DEF InstantPart
  <2>2. \A p \in 1..Reached : list[p] # list[q]
    BY <2>1, <1>1, <1>2, <1>3 DEF IsInjective
  <2> QED
    BY <2>2, <1>2 DEF ToSet
<1>4. CASE k > Reached
  <2>1. \A p \in 1..Reached : result[p] = list'[p]
    BY <1>1, <1>2, <1>4
  <2>2. UpToDate'
    BY <2>1, <1>1, <1>2, <1>4 DEF UpToDate
  <2> QED
    BY <2>2, <1>1, <1>3, <1>4, <1>2
<1>5. CASE k <= Reached
  <2>1. list[k] \in ToSet(result)
    BY <1>1, <1>2, <1>5 DEF ToSet
  <2> QED
    BY <2>1, <1>1, <1>2, <1>3, <1>5
<1> QED
  BY <1>1, <1>4, <1>5

(* A removal during the first reading takes an element away that was read, *)
(* or the reading is still up to date; during the second an element of the *)
(* first is never read again.                                              *)
LEMMA DropKeepsShrinking ==
  ASSUME PagesInv, NEW k \in DOMAIN list, Drop(k)
  PROVE  ShrinkingPart'
<1> SUFFICES ASSUME Shrinking' PROVE ShrinkingReads'
  BY DEF ShrinkingPart
<1> USE DEF PagesInv
<1>1. /\ Len(list') = Len(list) - 1 /\ Len(list) \in Nat /\ k \in 1..Len(list)
      /\ ToSet(list') = ToSet(list) \ {list[k]} /\ list[k] \in ToSet(list)
      /\ \A y : After(list', Reached, y) => After(list, Reached, y)
      /\ k <= Reached /\ Reached < Len(list) => ~After(list', Reached, list[Reached + 1])
      /\ during' = during \cup {list'}
      /\ UNCHANGED <<keyed, stage, reading, page, total, result, earlier>>
      /\ Reached' = Reached /\ Reached \in Nat
      /\ Shrinking
  BY DropEffect DEF ToSet
<1>2. ShrinkingReads
  BY <1>1 DEF ShrinkingPart
<1>3. UpToDate => /\ k > Reached => UpToDate' /\ list[k] \notin ToSet(result)
                  /\ k <= Reached => list[k] \in ToSet(result)
                  /\ Reached < Len(list) => list[Reached + 1] \notin ToSet(result)
  BY DropUpToDate
<1>4. ASSUME reading = 1, stage = "reading"
      PROVE  (UpToDate \/ \E x \in ToSet(result) : x \notin ToSet(list))'
  BY <1>1, <1>2, <1>3, <1>4 DEF ShrinkingReads
<1>5. ASSUME reading = 1, stage = "complete"
      PROVE  (\/ result \in during /\ ToSet(list) \subseteq ToSet(result)
              \/ \E x \in ToSet(result) : x \notin ToSet(list))'
  BY <1>1, <1>2, <1>5 DEF ShrinkingReads
<1>6. ASSUME reading = 2, stage = "reading"
      PROVE  \E x \in ToSet(earlier') : x \notin ToSet(result') /\ ~After(list', Reached', x)
  <2>1. CASE \E x \in ToSet(earlier) : x \notin ToSet(result) /\ ~After(list, Reached, x)
    BY <2>1, <1>1
  <2>2. CASE /\ earlier \in during /\ ToSet(list) \subseteq ToSet(earlier)
             /\ UpToDate /\ (page > 1 => Reached < Len(list))
    <3>1. CASE k > Reached
      <4>1. ~After(list', Reached', list[k])
        BY <1>1 DEF After, ToSet
      <4> QED
        BY <3>1, <4>1, <2>2, <1>1, <1>3
    <3>2. CASE k <= Reached
      <4>1. Reached < Len(list)
        BY <3>2, <2>2, <1>1, Reaching
      <4>2. list[Reached + 1] \in ToSet(list)
        BY <4>1, <1>1, Reaching DEF ToSet
      <4> QED
        BY <3>2, <4>1, <4>2, <2>2, <1>1, <1>3
    <3> QED
      BY <3>1, <3>2, <1>1
  <2> QED
    BY <2>1, <2>2, <1>2, <1>6 DEF ShrinkingReads
<1>7. ASSUME reading = 2, stage = "complete"
      PROVE  (\/ \E x \in ToSet(earlier) : x \notin ToSet(result)
              \/ {earlier, result} \subseteq during)'
  BY <1>1, <1>2, <1>7 DEF ShrinkingReads
<1> QED
  BY <1>1, <1>4, <1>5, <1>6, <1>7 DEF ShrinkingReads

(* A removal keeps the invariant.                                          *)
LEMMA DropKeepsInvariant ==
  ASSUME PagesInv, NEW k \in DOMAIN list, Drop(k)
  PROVE  PagesInv'
<1> USE DEF PagesInv
<1>1. /\ ~Growing' /\ ~Extending' /\ (OneWay' => OneWay)
      /\ during' = during \cup {list'} /\ during' # {list'}
      /\ UNCHANGED <<stage, result, earlier>>
  BY DropEffect
<1>2. PagesTypeOK' /\ InstantPart'
  BY DropKeepsTypes, DropKeepsInstants
<1>3. CountedPart' /\ ShrinkingPart'
  BY DropKeepsCounted, DropKeepsShrinking
<1>4. QuietPart' /\ GrowingPart'
  BY <1>1 DEF QuietPart, GrowingPart
<1>5. AcceptedPart'
  BY <1>1 DEF AcceptedPart
<1> QED
  BY <1>2, <1>3, <1>4, <1>5

-----------------------------------------------------------------------------
(* A page that was taken: it was the last one, or there is a next.         *)
TakeLast ==
  /\ stage = "reading" /\ Trusted /\ LastPage
  /\ total' = Total /\ result' = AllRead /\ stage' = "complete"
  /\ UNCHANGED <<list, keyed, reading, page, earlier, changes, during>>

TakeNext ==
  /\ stage = "reading" /\ Trusted /\ ~LastPage /\ ~AtLimit
  /\ total' = Total /\ result' = AllRead /\ page' = page + 1
  /\ UNCHANGED <<list, keyed, stage, reading, earlier, changes, during>>

(* A reading that ended without a result.                                  *)
GiveUpReading ==
  /\ stage = "reading" /\ stage' = "partial"
  /\ total' \in {total, Total} /\ result' \in {result, AllRead}
  /\ UNCHANGED <<list, keyed, reading, page, earlier, changes, during>>

(* A page is taken, as the last or with a next one, or ends the reading.   *)
LEMMA ReadPageCases ==
  ASSUME ReadPage
  PROVE  TakeLast \/ TakeNext \/ GiveUpReading
BY DEF ReadPage, TakeLast, TakeNext, GiveUpReading

(* The total of the first page is a number.                                *)
LEMMA TotalIsNat ==
  ASSUME PagesTypeOK
  PROVE  Total \in Nat
BY Reaching DEF PagesTypeOK, Total

(* A page keeps the types.                                                 *)
LEMMA ReadingKeepsTypes ==
  ASSUME PagesTypeOK, TakeLast \/ TakeNext \/ GiveUpReading
  PROVE  PagesTypeOK'
<1>1. AllRead \in Seq(Things) /\ Total \in Nat
  BY WithThePage, TotalIsNat
<1>2. TakeNext => page' \in 1..MaxPages
  BY PagesAssumption DEF PagesTypeOK, TakeNext, AtLimit
<1>3. page' \in 1..MaxPages
  BY <1>2 DEF PagesTypeOK, TakeLast, TakeNext, GiveUpReading
<1>4. result' \in Seq(Things) /\ total' \in Nat
  BY <1>1 DEF PagesTypeOK, TakeLast, TakeNext, GiveUpReading
<1> QED
  BY <1>3, <1>4 DEF PagesTypeOK, TakeLast, TakeNext, GiveUpReading

(* A page holds elements of the list as it is, which is one of its         *)
(* instants.                                                               *)
LEMMA ReadingKeepsInstants ==
  ASSUME PagesTypeOK, InstantPart, TakeLast \/ TakeNext \/ GiveUpReading
  PROVE  InstantPart'
<1>1. result' \in {result, AllRead} /\ UNCHANGED <<list, during>>
  BY DEF TakeLast, TakeNext, GiveUpReading
<1>2. ToSet(AllRead) \subseteq ToSet(result) \cup ToSet(list)
  BY PageElements
<1>3. \A x \in ToSet(result') : x \in ToSet(result) \/ x \in ToSet(list)
  BY <1>1, <1>2
<1>4. \A x \in ToSet(result) : \E l \in during : x \in ToSet(l)
  BY DEF InstantPart, ToSet
<1>5. \A p \in DOMAIN result' : result'[p] \in ToSet(result')
  BY DEF ToSet
<1>6. list \in during
  BY DEF InstantPart
<1>7. \A p \in DOMAIN result' : \E l \in during' : result'[p] \in ToSet(l)
  BY <1>1, <1>3, <1>4, <1>5, <1>6
<1>8. stage' = "reading" => page' # 1
  BY Reaching DEF TakeLast, TakeNext, GiveUpReading
<1> QED
  BY <1>1, <1>7, <1>8 DEF InstantPart

(* A reading starts up to date, and the counts of a list that changes one  *)
(* way show that it still is.                                              *)
LEMMA StartsUpToDate ==
  ASSUME PagesTypeOK, InstantPart, stage = "reading", page = 1
  PROVE  UpToDate
<1>1. result = <<>> /\ Reached = 0 /\ Len(list) \in Nat
  BY Reaching DEF InstantPart
<1> QED
  BY <1>1 DEF UpToDate

(* A list with counts that changes one way has the length of its first     *)
(* page only while it has not changed: a page that passes the checks of    *)
(* _paginate_keyed_list finds the reading up to date.                      *)
LEMMA CountsShow ==
  ASSUME PagesInv, stage = "reading", keyed, Trusted, OneWay
  PROVE  UpToDate
<1> USE DEF PagesInv
<1>1. Total = Len(list)
  BY DEF Trusted, CountsAgree
<1>2. CASE page = 1
  BY <1>2, StartsUpToDate
<1>3. CASE page # 1
  <2>1. page > 1
    <3>1. page \in Nat \ {0}
      BY Reaching
    <3> QED
      BY <3>1, <1>3
  <2> QED
    BY <2>1, <1>1, <1>3 DEF Total, CountedPart
<1> QED
  BY <1>2, <1>3

(* A reading that is up to date stays so with a page that has a next one.  *)
LEMMA NextUpToDate ==
  ASSUME PagesTypeOK, UpToDate, TakeNext
  PROVE  UpToDate' /\ Reached' = Reached + PageSize /\ Reached' < Len(list')
<1>1. /\ Reached \in Nat /\ PageSize \in Nat \ {0} /\ page \in Nat
      /\ page * PageSize = Reached + PageSize
  BY Reaching
<1>2. Reached' = Reached + PageSize
  <2>1. page + 1 - 1 = page
    BY <1>1
  <2> QED
    BY <2>1, <1>1 DEF TakeNext, Reached
<1>3. /\ Len(AllRead) = Reached + PageSize
      /\ Reached + PageSize < Len(list)
      /\ \A p \in 1..Reached + PageSize : AllRead[p] = list[p]
  BY PageUpToDate DEF TakeNext
<1>4. Len(list) \in Nat /\ list' = list /\ result' = AllRead
  BY Reaching DEF TakeNext
<1> QED
  BY <1>1, <1>2, <1>3, <1>4 DEF UpToDate

(* A page keeps what is said of lists with counts.                         *)
LEMMA ReadingKeepsCounted ==
  ASSUME PagesInv, TakeLast \/ TakeNext \/ GiveUpReading
  PROVE  CountedPart'
<1> USE DEF PagesInv
<1>1. CASE TakeLast
  <2>1. ASSUME keyed
        PROVE  IsInjective(AllRead) /\ Len(AllRead) = Len(list)
    BY <1>1, <2>1 DEF TakeLast, Trusted, NoneTwice, CountsAgree, LastPage
  <2>2. ASSUME keyed, OneWay PROVE AllRead = list
    BY <1>1, <2>2, CountsShow, PageUpToDate DEF TakeLast
  <2>3. list \in during
    BY DEF InstantPart
  <2> QED
    BY <1>1, <2>1, <2>2, <2>3 DEF TakeLast, CountedPart, OneWay, Kinds
<1>2. CASE TakeNext
  <2>1. ASSUME keyed PROVE Total = Len(list)
    BY <1>2, <2>1 DEF TakeNext, Trusted, CountsAgree
  <2>2. ASSUME keyed, OneWay PROVE UpToDate'
    BY <1>2, <2>2, CountsShow, NextUpToDate DEF TakeNext
  <2>3. Len(list) \in Nat
    BY Reaching
  <2> QED
    BY <1>2, <2>1, <2>2, <2>3 DEF TakeNext, CountedPart, OneWay, Kinds
<1>3. CASE GiveUpReading
  BY <1>3 DEF GiveUpReading, CountedPart
<1> QED
  BY <1>1, <1>2, <1>3

(* A page keeps what is said of lists that are left alone or only grow at  *)
(* their end.                                                              *)
LEMMA ReadingKeepsQuiet ==
  ASSUME PagesInv, TakeLast \/ TakeNext \/ GiveUpReading
  PROVE  QuietPart'
<1> USE DEF PagesInv
<1>1. CASE TakeLast
  <2>1. ASSUME during = {list} \/ Extending PROVE AllRead \in during
    BY <1>1, <2>1, PageUpToDate DEF TakeLast, QuietPart, InstantPart
  <2> QED
    BY <1>1, <2>1 DEF TakeLast, QuietPart, Extending, Kinds
<1>2. CASE TakeNext
  <2>1. ASSUME during = {list} \/ Extending PROVE UpToDate'
    BY <1>2, <2>1, NextUpToDate DEF TakeNext, QuietPart
  <2> QED
    BY <1>2, <2>1 DEF TakeNext, QuietPart, Extending, Kinds
<1>3. CASE GiveUpReading
  BY <1>3 DEF GiveUpReading, QuietPart
<1> QED
  BY <1>1, <1>2, <1>3

(* What happens to the elements of the list, and to those that come twice, *)
(* when a page was taken.                                                  *)
LEMMA TakenElements ==
  ASSUME PagesTypeOK, InstantPart, TakeLast \/ TakeNext
  PROVE  /\ result' = AllRead /\ ToSet(result) \subseteq ToSet(result')
         /\ UNCHANGED <<list, reading, earlier, changes, during>> /\ stage = "reading"
         /\ ToSet(result') \subseteq ToSet(result) \cup ToSet(list)
         /\ \A x : After(list, Reached, x) =>
              x \in ToSet(result') \/ (TakeNext /\ After(list', Reached', x))
         /\ \A x \in ToSet(result') : x \in ToSet(result) \/ After(list, Reached, x)
         /\ \A x : TakeNext /\ After(list', Reached', x) => After(list, Reached, x)
         /\ \A x \in ToSet(result') : Before(list, Reached, x) => x \in ToSet(result)
         /\ \A x : TakeNext /\ Before(list, Reached, x) => Before(list', Reached', x)
         /\ ~IsInjective(result) => ~IsInjective(result')
         /\ \A x \in ToSet(result) : After(list, Reached, x) =>
              ~IsInjective(result') \/ (TakeNext /\ After(list', Reached', x))
<1>1. /\ result' = AllRead /\ stage = "reading"
      /\ UNCHANGED <<list, reading, earlier, changes, during>>
      /\ TakeLast => LastPage
  BY DEF TakeLast, TakeNext
<1>2. TakeNext => Reached' = Reached + PageSize
  <2>1. page \in Nat /\ page + 1 - 1 = page /\ page * PageSize = Reached + PageSize
    BY Reaching
  <2> QED
    BY <2>1 DEF TakeNext, Reached
<1>3. Reached \in Nat /\ PageSize \in Nat
  BY Reaching
<1>4. /\ ToSet(result) \subseteq ToSet(AllRead)
      /\ ToSet(AllRead) \subseteq ToSet(result) \cup ToSet(list)
      /\ \A x : After(list, Reached, x) =>
           x \in ToSet(AllRead) \/ After(list, Reached + PageSize, x)
      /\ \A x \in ToSet(AllRead) : x \in ToSet(result) \/ After(list, Reached, x)
      /\ \A x \in ToSet(AllRead) : Before(list, Reached, x) => x \in ToSet(result)
      /\ \A x : Before(list, Reached, x) => Before(list, Reached + PageSize, x)
      /\ LastPage => \A x : ~After(list, Reached + PageSize, x)
  BY PageElements
<1>5. /\ ~IsInjective(result) => ~IsInjective(AllRead)
      /\ \A x \in ToSet(result) : After(list, Reached, x) =>
           ~IsInjective(AllRead) \/ After(list, Reached + PageSize, x)
  BY PageTwice
<1>6. \A x : After(list, Reached + PageSize, x) => After(list, Reached, x)
  <2>1. DOMAIN list \subseteq Int
    BY Reaching
  <2> QED
    BY <2>1, <1>3 DEF After
<1>7. \A x : After(list, Reached + PageSize, x) => TakeNext /\ After(list', Reached', x)
  BY <1>1, <1>2, <1>4
<1>8. \A x : TakeNext /\ After(list', Reached', x) => After(list, Reached + PageSize, x)
  BY <1>1, <1>2
<1>9. \A x : TakeNext /\ Before(list, Reached, x) => Before(list', Reached', x)
  BY <1>1, <1>2, <1>4
<1> QED
  BY <1>1, <1>4, <1>5, <1>6, <1>7, <1>8, <1>9

(* A page of a list that only grows does not bring back what the reading   *)
(* misses, and what comes twice is read twice.                             *)
LEMMA TakingKeepsGrowing ==
  ASSUME PagesInv, Growing, TakeLast \/ TakeNext
  PROVE  (ToSet(result) \cup ToSet(earlier) \subseteq ToSet(list) /\ GrowingReads)'
<1> USE DEF PagesInv
<1>1. /\ result' = AllRead /\ ToSet(result) \subseteq ToSet(result')
      /\ UNCHANGED <<list, reading, earlier, changes, during>> /\ stage = "reading"
      /\ ToSet(result') \subseteq ToSet(result) \cup ToSet(list)
      /\ \A x : After(list, Reached, x) =>
           x \in ToSet(result') \/ (TakeNext /\ After(list', Reached', x))
      /\ \A x \in ToSet(result') : Before(list, Reached, x) => x \in ToSet(result)
      /\ \A x : TakeNext /\ Before(list, Reached, x) => Before(list', Reached', x)
      /\ ~IsInjective(result) => ~IsInjective(result')
      /\ \A x \in ToSet(result) : After(list, Reached, x) =>
           ~IsInjective(result') \/ (TakeNext /\ After(list', Reached', x))
  BY TakenElements
<1>2. ToSet(result) \cup ToSet(earlier) \subseteq ToSet(list) /\ GrowingReads
  BY DEF GrowingPart
<1>3. UpToDate => IF TakeNext THEN UpToDate' ELSE result' \in during'
  BY <1>1, NextUpToDate, PageUpToDate DEF TakeLast, InstantPart
<1>4. IF TakeNext THEN stage' = "reading" ELSE stage' = "complete"
  BY <1>1 DEF TakeLast, TakeNext
<1>5. (ToSet(result) \cup ToSet(earlier) \subseteq ToSet(list))'
  BY <1>1, <1>2
<1> SUFFICES GrowingReads'
  BY <1>5
<1>6. CASE reading = 1
  <2>1. UpToDate \/ \E x \in ToSet(list) : Before(list, Reached, x) /\ x \notin ToSet(result)
    BY <1>1, <1>2, <1>6 DEF GrowingReads
  <2>2. CASE UpToDate
    BY <2>2, <1>1, <1>3, <1>4, <1>6 DEF GrowingReads
  <2>3. CASE ~UpToDate
    <3>1. PICK x \in ToSet(list) : Before(list, Reached, x) /\ x \notin ToSet(result)
      BY <2>1, <2>3
    <3>2. x \in ToSet(list') /\ x \notin ToSet(result') /\ (TakeNext => Before(list', Reached', x))
      BY <3>1, <1>1
    <3> QED
      BY <3>2, <1>1, <1>4, <1>6 DEF GrowingReads
  <2> QED
    BY <2>2, <2>3
<1>7. CASE reading = 2
  <2>1. CASE \E x \in ToSet(list) :
               x \notin ToSet(earlier) /\ (x \in ToSet(result) \/ After(list, Reached, x))
    <3>1. PICK x \in ToSet(list) :
                 x \notin ToSet(earlier) /\ (x \in ToSet(result) \/ After(list, Reached, x))
      BY <2>1
    <3>2. /\ x \in ToSet(list') /\ x \notin ToSet(earlier')
          /\ x \in ToSet(result') \/ (TakeNext /\ After(list', Reached', x))
      BY <3>1, <1>1
    <3> QED
      BY <3>2, <1>1, <1>4, <1>7 DEF GrowingReads
  <2>2. CASE /\ earlier \in during
             /\ \/ UpToDate \/ ~IsInjective(result)
                \/ \E x \in ToSet(result) : After(list, Reached, x)
    <3>1. earlier' \in during'
      BY <2>2, <1>1
    <3>2. \/ IF TakeNext THEN UpToDate' ELSE result' \in during'
          \/ ~IsInjective(result')
          \/ TakeNext /\ \E x \in ToSet(result') : After(list', Reached', x)
      BY <2>2, <1>1, <1>3
    <3> QED
      BY <3>1, <3>2, <1>1, <1>4, <1>7 DEF GrowingReads
  <2> QED
    BY <2>1, <2>2, <1>1, <1>2, <1>7 DEF GrowingReads
<1> QED
  BY <1>6, <1>7 DEF PagesTypeOK

(* A page of a list that only shrinks does not hold what the reading has   *)
(* lost.                                                                   *)
LEMMA TakingKeepsShrinking ==
  ASSUME PagesInv, Shrinking, TakeLast \/ TakeNext
  PROVE  ShrinkingReads'
<1> USE DEF PagesInv
<1>1. /\ result' = AllRead /\ ToSet(result) \subseteq ToSet(result')
      /\ UNCHANGED <<list, reading, earlier, changes, during>> /\ stage = "reading"
      /\ \A x \in ToSet(result') : x \in ToSet(result) \/ After(list, Reached, x)
      /\ \A x : TakeNext /\ After(list', Reached', x) => After(list, Reached, x)
  BY TakenElements
<1>2. ShrinkingReads
  BY DEF ShrinkingPart
<1>3. UpToDate => IF TakeNext THEN UpToDate' /\ Reached' < Len(list')
                  ELSE result' \in during' /\ result' = list'
  BY <1>1, NextUpToDate, PageUpToDate DEF TakeLast, InstantPart
<1>4. IF TakeNext THEN stage' = "reading" ELSE stage' = "complete"
  BY <1>1 DEF TakeLast, TakeNext
<1>5. CASE reading = 1
  <2>1. UpToDate \/ \E x \in ToSet(result) : x \notin ToSet(list)
    BY <1>1, <1>2, <1>5 DEF ShrinkingReads
  <2>2. CASE UpToDate
    <3>1. ~TakeNext => ToSet(list') \subseteq ToSet(result')
      BY <2>2, <1>3
    <3> QED
      BY <3>1, <2>2, <1>1, <1>3, <1>4, <1>5 DEF ShrinkingReads
  <2>3. CASE \E x \in ToSet(result) : x \notin ToSet(list)
    <3>1. \E x \in ToSet(result') : x \notin ToSet(list')
      BY <2>3, <1>1
    <3> QED
      BY <3>1, <1>1, <1>4, <1>5 DEF ShrinkingReads
  <2> QED
    BY <2>1, <2>2, <2>3
<1>6. CASE reading = 2
  <2>1. CASE \E x \in ToSet(earlier) : x \notin ToSet(result) /\ ~After(list, Reached, x)
    <3>1. \E x \in ToSet(earlier') :
             x \notin ToSet(result') /\ (TakeNext => ~After(list', Reached', x))
      BY <2>1, <1>1
    <3> QED
      BY <3>1, <1>1, <1>4, <1>6 DEF ShrinkingReads
  <2>2. CASE /\ earlier \in during /\ ToSet(list) \subseteq ToSet(earlier)
             /\ UpToDate /\ (page > 1 => Reached < Len(list))
    <3>1. earlier' \in during' /\ ToSet(list') \subseteq ToSet(earlier')
      BY <2>2, <1>1
    <3> QED
      BY <3>1, <2>2, <1>1, <1>3, <1>4, <1>6 DEF ShrinkingReads
  <2> QED
    BY <2>1, <2>2, <1>1, <1>2, <1>6 DEF ShrinkingReads
<1> QED
  BY <1>5, <1>6 DEF PagesTypeOK

(* A page keeps the invariant.                                             *)
LEMMA ReadPageKeepsInvariant ==
  ASSUME PagesInv, ReadPage
  PROVE  PagesInv'
<1> USE DEF PagesInv
<1>1. TakeLast \/ TakeNext \/ GiveUpReading
  BY ReadPageCases
<1>2. PagesTypeOK' /\ InstantPart' /\ CountedPart' /\ QuietPart'
  BY <1>1, ReadingKeepsTypes, ReadingKeepsInstants, ReadingKeepsCounted, ReadingKeepsQuiet
<1>3. UNCHANGED <<list, earlier, changes>> /\ stage' # "accepted"
  BY <1>1 DEF TakeLast, TakeNext, GiveUpReading
<1>4. CASE TakeLast \/ TakeNext
  <2>1. Growing' = Growing /\ Shrinking' = Shrinking
    BY <1>3 DEF Growing, Shrinking, Kinds
  <2>2. GrowingPart' /\ ShrinkingPart'
    BY <2>1, <1>4, TakingKeepsGrowing, TakingKeepsShrinking DEF GrowingPart, ShrinkingPart
  <2> QED
    BY <2>2, <1>2, <1>3 DEF AcceptedPart
<1>5. CASE GiveUpReading
  <2>1. stage' = "partial" /\ result' \in {result, AllRead}
    BY <1>5 DEF GiveUpReading
  <2>2. ToSet(result') \subseteq ToSet(result) \cup ToSet(list)
    BY <2>1, PageElements
  <2>3. GrowingPart'
    BY <2>1, <2>2, <1>3 DEF GrowingPart, GrowingReads, Growing, Kinds
  <2>4. ShrinkingPart'
    BY <2>1 DEF ShrinkingPart, ShrinkingReads
  <2> QED
    BY <2>1, <2>3, <2>4, <1>2 DEF AcceptedPart
<1> QED
  BY <1>1, <1>4, <1>5

-----------------------------------------------------------------------------
(* A failed request keeps the invariant.                                   *)
LEMMA RequestFailsKeepsInvariant ==
  ASSUME PagesInv, RequestFails
  PROVE  PagesInv'
<1>1. /\ stage' = "partial"
      /\ UNCHANGED <<list, keyed, reading, page, total, result, earlier, changes, during>>
  BY DEF RequestFails
<1>2. PagesTypeOK' /\ InstantPart'
  BY <1>1 DEF PagesInv, PagesTypeOK, InstantPart
<1>3. CountedPart' /\ QuietPart' /\ ShrinkingPart' /\ AcceptedPart'
  BY <1>1 DEF CountedPart, QuietPart, ShrinkingPart, ShrinkingReads, AcceptedPart
<1>4. GrowingPart'
  BY <1>1 DEF PagesInv, GrowingPart, GrowingReads, Growing, Kinds
<1> QED
  BY <1>2, <1>3, <1>4 DEF PagesInv

(* The second reading starts up to date, and remembers in earlier what the *)
(* first one missed or held in vain.                                       *)
LEMMA ReadAgainKeepsInvariant ==
  ASSUME PagesInv, ReadAgain
  PROVE  PagesInv'
<1> USE DEF PagesInv
<1>1. /\ stage = "complete" /\ reading = 1 /\ earlier' = result
      /\ stage' = "reading" /\ reading' = 2
      /\ page' = 1 /\ result' = <<>> /\ total' = 0
      /\ UNCHANGED <<list, keyed, changes, during>>
  BY DEF ReadAgain
<1>2. PagesTypeOK'
  BY <1>1, PagesAssumption DEF PagesTypeOK
<1>3. InstantPart'
  <2>1. DOMAIN result' = {}
    BY <1>1
  <2> QED
    BY <2>1, <1>1 DEF InstantPart
<1>4. Reached' = 0 /\ UpToDate'
  <2>1. Reached' = 0
    BY <1>1, PagesAssumption DEF Reached
  <2>2. Len(list) \in Nat
    BY Reaching
  <2> QED
    BY <2>1, <2>2, <1>1 DEF UpToDate
<1>5. CountedPart' /\ QuietPart' /\ AcceptedPart'
  BY <1>1, <1>4 DEF CountedPart, QuietPart, AcceptedPart
<1>6. ToSet(result') = {}
  BY <1>1 DEF ToSet
<1>7. \A x \in ToSet(list) : After(list', Reached', x)
  BY <1>1, <1>4, Reaching DEF After, ToSet
<1>8. ASSUME Growing PROVE GrowingPart'
  <2>1. /\ ToSet(result) \subseteq ToSet(list)
        /\ result \in during \/ \E x \in ToSet(list) : x \notin ToSet(result)
    BY <1>1, <1>8 DEF GrowingPart, GrowingReads
  <2>2. (ToSet(result) \cup ToSet(earlier) \subseteq ToSet(list))'
    BY <2>1, <1>1, <1>6
  <2>3. GrowingReads'
    BY <2>1, <1>1, <1>4, <1>7 DEF GrowingReads
  <2> QED
    BY <2>2, <2>3 DEF GrowingPart
<1>9. ASSUME Shrinking PROVE ShrinkingReads'
  <2>1. \/ result \in during /\ ToSet(list) \subseteq ToSet(result)
        \/ \E x \in ToSet(result) : x \notin ToSet(list)
    BY <1>1, <1>9 DEF ShrinkingPart, ShrinkingReads
  <2>2. \A x : x \notin ToSet(list) => ~After(list', Reached', x)
    BY <1>1 DEF After, ToSet
  <2> QED
    BY <2>1, <2>2, <1>1, <1>4, <1>6 DEF ShrinkingReads
<1>10. Growing' = Growing /\ Shrinking' = Shrinking
  BY <1>1 DEF Growing, Shrinking, Kinds
<1> QED
  BY <1>2, <1>3, <1>5, <1>8, <1>9, <1>10 DEF GrowingPart, ShrinkingPart

(* Two sequences that hold every element as often hold the same elements,  *)
(* and when one holds none twice neither does the other.                   *)
LEMMA AsOften ==
  ASSUME NEW S, NEW s \in Seq(S), NEW t \in Seq(S),
         \A x \in ToSet(s) \cup ToSet(t) : Times(x, s) = Times(x, t)
  PROVE  ToSet(s) = ToSet(t) /\ (IsInjective(s) => IsInjective(t))
<1> DEFINE At(x, u) == {k \in DOMAIN u : u[k] = x}
<1>1. ASSUME NEW u \in Seq(S), NEW x
      PROVE  IsFiniteSet(At(x, u)) /\ (At(x, u) = {} <=> Times(x, u) = 0)
  <2>1. DOMAIN u = 1..Len(u) /\ Len(u) \in Nat
    BY LenProperties
  <2>2. IsFiniteSet(DOMAIN u)
    BY <2>1, FS_Interval
  <2>3. IsFiniteSet(At(x, u))
    BY <2>2, FS_Subset
  <2>4. Times(x, u) = Cardinality(At(x, u))
    BY DEF Times
  <2> QED
    BY <2>3, <2>4, FS_EmptySet
<1>2. ToSet(s) = ToSet(t)
  <2>1. \A x \in ToSet(s) \cup ToSet(t) : At(x, s) = {} <=> At(x, t) = {}
    BY <1>1
  <2>2. \A x : x \in ToSet(s) <=> At(x, s) # {}
    BY DEF ToSet
  <2>3. \A x : x \in ToSet(t) <=> At(x, t) # {}
    BY DEF ToSet
  <2> QED
    BY <2>1, <2>2, <2>3
<1>3. ASSUME IsInjective(s), NEW p \in DOMAIN t, NEW q \in DOMAIN t, t[p] = t[q]
      PROVE  p = q
  <2> DEFINE x == t[p]
  <2>1. x \in ToSet(s) /\ x \in ToSet(t)
    BY <1>2 DEF ToSet
  <2>2. PICK r \in DOMAIN s : s[r] = x
    BY <2>1 DEF ToSet
  <2>3. At(x, s) = {r}
    BY <2>2, <1>3 DEF IsInjective
  <2>4. Times(x, s) = 1
    BY <2>3, FS_Singleton DEF Times
  <2>5. Cardinality(At(x, t)) = 1
    BY <2>1, <2>4 DEF Times
  <2>6. PICK y : At(x, t) = {y}
    BY <2>5, <1>1, FS_Singleton
  <2>7. p \in At(x, t) /\ q \in At(x, t)
    BY <1>3
  <2> QED
    BY <2>6, <2>7
<1> QED
  BY <1>2, <1>3 DEF IsInjective

(* Two readings that agree have missed, lost and doubled nothing: each was *)
(* the list at one instant.                                                *)
LEMMA CompareKeepsInvariant ==
  ASSUME PagesInv, Compare
  PROVE  PagesInv'
<1> USE DEF PagesInv
<1>1. /\ stage = "complete" /\ reading = 2
      /\ stage' = IF SameEvidence THEN "accepted" ELSE "inconsistent"
      /\ UNCHANGED <<list, keyed, reading, page, total, result, earlier, changes, during>>
  BY DEF Compare
<1>2. PagesTypeOK' /\ InstantPart'
  BY <1>1 DEF PagesTypeOK, InstantPart
<1>3. CountedPart' /\ QuietPart' /\ ShrinkingPart'
  BY <1>1 DEF CountedPart, QuietPart, ShrinkingPart, ShrinkingReads
<1>4. GrowingPart'
  BY <1>1 DEF GrowingPart, GrowingReads, Growing, Kinds
<1>5. ASSUME SameEvidence, OneWay PROVE {earlier, result} \subseteq during
  <2>1. ToSet(earlier) = ToSet(result) /\ (IsInjective(earlier) => IsInjective(result))
    <3>1. earlier \in Seq(Things) /\ result \in Seq(Things)
      BY DEF PagesTypeOK
    <3>2. \A x \in ToSet(earlier) \cup ToSet(result) : Times(x, earlier) = Times(x, result)
      BY <1>5 DEF SameEvidence
    <3> QED
      BY <3>1, <3>2, AsOften
  <2>2. CASE Growing
    <3>1. earlier \in during /\ (result \in during \/ ~IsInjective(result))
      BY <2>1, <2>2, <1>1 DEF GrowingPart, GrowingReads
    <3>2. IsInjective(earlier)
      BY <3>1 DEF InstantPart
    <3> QED
      BY <2>1, <3>1, <3>2
  <2>3. CASE Shrinking
    BY <2>1, <2>3, <1>1 DEF ShrinkingPart, ShrinkingReads
  <2> QED
    BY <2>2, <2>3, <1>5 DEF OneWay, Growing, Shrinking
<1>6. AcceptedPart'
  BY <1>1, <1>5 DEF AcceptedPart, OneWay, Kinds
<1> QED
  BY <1>2, <1>3, <1>4, <1>6

(* The invariant holds when the reading begins.                            *)
LEMMA PagesInitially ==
  ASSUME PagesInit
  PROVE  PagesInv
<1>1. /\ list \in Seq(Things) /\ IsInjective(list) /\ during = {list}
      /\ keyed \in BOOLEAN /\ stage = "reading" /\ reading = 1
      /\ page = 1 /\ total = 0 /\ result = <<>> /\ earlier = <<>> /\ changes = <<>>
  BY PagesAssumption DEF PagesInit
<1>2. PagesTypeOK
  BY <1>1, PagesAssumption DEF PagesTypeOK
<1>3. InstantPart
  <2>1. DOMAIN result = {}
    BY <1>1
  <2> QED
    BY <2>1, <1>1 DEF InstantPart
<1>4. UpToDate
  BY <1>1, <1>2, <1>3, StartsUpToDate
<1>5. CountedPart /\ QuietPart /\ AcceptedPart
  BY <1>1, <1>4 DEF CountedPart, QuietPart, AcceptedPart
<1>6. ToSet(result) = {} /\ ToSet(earlier) = {}
  BY <1>1 DEF ToSet
<1>7. GrowingPart /\ ShrinkingPart
  BY <1>1, <1>4, <1>6 DEF GrowingPart, GrowingReads, ShrinkingPart, ShrinkingReads
<1> QED
  BY <1>2, <1>3, <1>5, <1>7 DEF PagesInv

(* Every step keeps the invariant.                                         *)
LEMMA PagesStep ==
  ASSUME PagesInv, [PagesNext]_pagesVars
  PROVE  PagesInv'
<1>1. ASSUME NEW x \in Things, NEW k \in 1..Len(list) + 1, Put(x, k) PROVE PagesInv'
  BY <1>1, PutKeepsInvariant
<1>2. ASSUME NEW k \in DOMAIN list, Drop(k) PROVE PagesInv'
  BY <1>2, DropKeepsInvariant
<1>3. CASE ReadPage
  BY <1>3, ReadPageKeepsInvariant
<1>4. CASE RequestFails
  BY <1>4, RequestFailsKeepsInvariant
<1>5. CASE ReadAgain
  BY <1>5, ReadAgainKeepsInvariant
<1>6. CASE Compare
  BY <1>6, CompareKeepsInvariant
<1>7. CASE UNCHANGED pagesVars
  <2>1. UNCHANGED <<list, keyed, stage, reading, page, total, result, earlier, changes, during>>
    BY <1>7 DEF pagesVars
  <2>2. /\ UpToDate' = UpToDate /\ Reached' = Reached
        /\ Growing' = Growing /\ Shrinking' = Shrinking
        /\ Extending' = Extending /\ OneWay' = OneWay
    BY <2>1 DEF UpToDate, Reached, Growing, Shrinking, Extending, OneWay, Kinds
  <2>3. PagesTypeOK' /\ InstantPart'
    BY <2>1 DEF PagesInv, PagesTypeOK, InstantPart
  <2>4. CountedPart' /\ QuietPart' /\ AcceptedPart'
    BY <2>1, <2>2 DEF PagesInv, CountedPart, QuietPart, AcceptedPart
  <2>5. GrowingPart'
    BY <2>1, <2>2 DEF PagesInv, GrowingPart, GrowingReads
  <2>6. ShrinkingPart'
    BY <2>1, <2>2 DEF PagesInv, ShrinkingPart, ShrinkingReads
  <2> QED
    BY <2>3, <2>4, <2>5, <2>6 DEF PagesInv
<1> QED
  BY <1>1, <1>2, <1>3, <1>4, <1>5, <1>6, <1>7 DEF PagesNext

(* The strengthened invariant of the reading of a list.                    *)
THEOREM PagesInvariance == PagesSpec => []PagesInv
<1>1. PagesInit => PagesInv
  BY PagesInitially
<1>2. PagesInv /\ [PagesNext]_pagesVars => PagesInv'
  BY PagesStep
<1> QED
  BY <1>1, <1>2, PTL DEF PagesSpec

(* A list that _paginate_keyed_list returns holds nothing twice, nothing   *)
(* that was never there, and as many elements as the list had at some      *)
(* instant, for every list, page size and number of changes.               *)
THEOREM KeyedIsProperHolds == PagesSpec => []KeyedIsProper
<1>1. PagesInv => KeyedIsProper
  BY DEF PagesInv, InstantPart, CountedPart, KeyedIsProper
<1> QED
  BY <1>1, PagesInvariance, PTL

(* What _paginate returns of a list that is left alone or grows at its end *)
(* was the list at one instant, of any length and any page size; so was    *)
(* what _paginate_keyed_list returns of a list that changes one way, and   *)
(* what two equal readings of the loader hold of such a list.              *)
THEOREM TrueOnceHolds == PagesSpec => []TrueOnce
<1>1. PagesInv => TrueOnce
  BY DEF PagesInv, CountedPart, QuietPart, AcceptedPart, TrueOnce, Extending
<1> QED
  BY <1>1, PagesInvariance, PTL
=============================================================================
