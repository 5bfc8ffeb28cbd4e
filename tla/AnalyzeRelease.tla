--------------------------- MODULE AnalyzeRelease ---------------------------
(***************************************************************************)
(* One analysis request, from the pinned policy to the stored run:         *)
(* AnalysisService.run and GitHubReleaseLoader of                          *)
(* application/analyze_release.py, while GitHub and the policy change      *)
(* underneath.                                                             *)
(*                                                                         *)
(* GitHub cannot be read at one instant.  The loader reads a window of     *)
(* resources one request at a time, each naming further ones: a list of    *)
(* items names issue timelines and pull requests, a timeline names pull    *)
(* requests, the candidate ref names a commit and so its check runs.  It   *)
(* collects two windows and trusts them only when they are equal, in at    *)
(* most two attempts.                                                      *)
(*                                                                         *)
(* Every resource but the candidate ref has a version that only grows (it  *)
(* carries an updated_at, or is an append-only list); the ref may be moved *)
(* to any commit and back.  A comparison of two commits never changes, so  *)
(* it is determined by the pull request and the commit already read.       *)
(***************************************************************************)
EXTENDS Assessment

CONSTANTS
  Resources,         \* [kind, id] records: what GitHub may be asked for
  Commits,           \* what the candidate ref may point to
  Mentions(_, _),    \* the resources that a version of a resource names
  ChecksIn(_, _),    \* the check runs of a commit in a version of its list
  RestOf(_),         \* what the other rules find in a window
  RestCodesOf(_),    \* the insufficiency codes of the other rules
  PolicyVersions,    \* the policy versions, a sequence of records with the
                     \* check categories and whether a previous release is set
  MaxVersion,        \* bound on the versions of each resource
  MaxClock           \* bound on the clock

Stage == [milestone |-> 1, items |-> 2, previous_milestone |-> 3,
          previous_items |-> 4, ref |-> 5, timeline |-> 6, pull |-> 7,
          checks |-> 8]

Milestone    == [kind |-> "milestone", id |-> "current"]
Items        == [kind |-> "items", id |-> "current"]
Previous     == {[kind |-> "previous_milestone", id |-> "previous"],
                 [kind |-> "previous_items", id |-> "previous"]}
CandidateRef == [kind |-> "ref", id |-> "candidate"]
CheckRuns(commit) == [kind |-> "checks", id |-> commit]

Nothing == [state |-> "none"]

ASSUME ResourceAssumption ==
  /\ {Milestone, Items, CandidateRef} \subseteq Resources
  /\ \A n \in DOMAIN PolicyVersions :
       PolicyVersions[n].previous => Previous \subseteq Resources
  /\ \A x \in Resources : x.kind \in DOMAIN Stage
  /\ \A commit \in Commits : CheckRuns(commit) \in Resources /\ commit # NoSha
  /\ MaxVersion \in [Resources -> Nat]
  /\ \A x \in Resources : \A v \in 0..MaxVersion[x] :
       /\ Mentions(x, v) \subseteq Resources \ {CandidateRef}
       /\ \A y \in Mentions(x, v) : Stage[y.kind] > Stage[x.kind]
  /\ MaxClock \in Nat

Categories == {"BLOCKING", "ADVISORY", "IGNORED"}

ASSUME PolicyAssumption ==
  \A n \in DOMAIN PolicyVersions :
    LET categories == PolicyVersions[n].categories
    IN  \A name \in DOMAIN categories : categories[name] \in Categories

VARIABLES
  github,      \* the version of every resource, the commit of the ref
  policy,      \* the latest policy version, 0 when none is configured
  clock,       \* the wall clock
  pc,          \* where the request stands
  request,     \* the pinned policy version, and whether the request names
               \* the milestone and the candidate branch of that policy
  started,     \* when the fetch, or its bootstrap, started
  attempt,     \* which attempt at two equal windows
  first,       \* the first window of the attempt
  window,      \* the window being collected, or collected last
  snapshot,    \* what the loader handed over
  run,         \* the run handed to create_run
  between,     \* history: GitHub as it was between the windows
  heldAt       \* history: and the time of that

vars == <<github, policy, clock, pc, request, started, attempt, first, window,
          snapshot, run, between, heldAt>>

world == <<github, policy, clock>>
history == <<between, heldAt>>

Empty == [x \in {} |-> 0]

(* _now: the clock the service, the loader and the repository share.       *)
Now == clock

-----------------------------------------------------------------------------
(***************************************************************************)
(* _collect_window: what a window needs, given what it has read so far.    *)
(***************************************************************************)
Names(x, v) == IF x = CandidateRef THEN {CheckRuns(v)} ELSE Mentions(x, v)

NeededByLatest(w) ==
  {Milestone, Items, CandidateRef}
  \cup (IF PolicyVersions[policy].previous THEN Previous ELSE {})
  \cup UNION {Names(x, w[x]) : x \in DOMAIN w}

Needed(w) ==
  {Milestone, Items, CandidateRef}
  \cup (IF PolicyVersions[request.policy].previous THEN Previous ELSE {})
  \cup UNION {Names(x, w[x]) : x \in DOMAIN w}

Missing(w) == Needed(w) \ DOMAIN w

NextToRead(x, w) ==
  x \in Missing(w) /\ \A y \in Missing(w) : Stage[x.kind] <= Stage[y.kind]

Whole(w) == Missing(w) = {}

(* _EvidenceWindow.__eq__: the two windows hold the same evidence.         *)
SameWithoutChecks(v, w) ==
  /\ DOMAIN v = DOMAIN w
  /\ \A x \in DOMAIN v : x.kind # "checks" => v[x] = w[x]

SameWindow(v, w) == DOMAIN v = DOMAIN w /\ \A x \in DOMAIN v : v[x] = w[x]

(***************************************************************************)
(* _snapshot, and _unavailable_snapshot for a window that failed.          *)
(***************************************************************************)
SnapshotOf(w, errors) ==
  LET commit == w[CandidateRef]
  IN  [version |-> "github_v1", fixture |-> FALSE, unlinked |-> FALSE,
       complete |-> errors = {}, errors |-> errors, candidate |-> commit,
       identity |-> TRUE, matchesPolicy |-> request.matches,
       started |-> started, fetched |-> Now,
       checks |-> ChecksIn(commit, w[CheckRuns(commit)]),
       rest |-> RestOf(w), restCodes |-> RestCodesOf(w)]

UnavailableSnapshot(error) ==
  [version |-> "github_v1", fixture |-> FALSE, unlinked |-> FALSE,
   complete |-> FALSE, errors |-> {error}, candidate |-> NoSha,
   identity |-> TRUE, matchesPolicy |-> request.matches,
   started |-> started, fetched |-> Now, checks |-> {},
   rest |-> {}, restCodes |-> {Plain("snapshot.incomplete")}]

SourceErrors == {"github.rate_limited", "github.partial_data"}

InconsistentAccepted == {}

Inconsistent == {"github.inconsistent_state"}

-----------------------------------------------------------------------------
(***************************************************************************)
(* The world, changed by others at any time.                               *)
(***************************************************************************)
Edit(x) ==
  /\ x # CandidateRef
  /\ github[x] < MaxVersion[x]
  /\ github' = [github EXCEPT ![x] = @ + 1]
  /\ UNCHANGED <<policy, clock, pc, request, started, attempt, first, window,
                 snapshot, run, history>>

Repoint(commit) ==
  /\ commit # github[CandidateRef]
  /\ github' = [github EXCEPT ![CandidateRef] = commit]
  /\ UNCHANGED <<policy, clock, pc, request, started, attempt, first, window,
                 snapshot, run, history>>

Configure ==
  /\ policy + 1 \in DOMAIN PolicyVersions
  /\ policy' = policy + 1
  /\ UNCHANGED <<github, clock, pc, request, started, attempt, first, window,
                 snapshot, run, history>>

Tick ==
  /\ clock < MaxClock
  /\ clock' = clock + 1
  /\ UNCHANGED <<github, policy, pc, request, started, attempt, first, window,
                 snapshot, run, history>>

(***************************************************************************)
(* The request ends with an exception, which the route answers: without a  *)
(* policy, milestone, candidate branch or access there is no run.          *)
(***************************************************************************)
Raise ==
  /\ pc' = "raised"
  /\ UNCHANGED <<world, request, started, attempt, first, window, snapshot,
                 run, history>>

(* run pins the latest policy and reads the clock.                         *)
Begin ==
  /\ pc = "idle"
  /\ policy > 0
  /\ \E matches \in BOOLEAN :
       request' = [policy |-> policy, matches |-> matches]
  /\ started' = Now
  /\ pc' = "bootstrap"
  /\ UNCHANGED <<world, attempt, first, window, snapshot, run, history>>

(* There is no policy, or it cannot be read from the database.             *)
Refuse == pc = "idle" /\ Raise

(* loader_factory mints an installation token, and load reads the clock.   *)
Bootstrap ==
  /\ pc = "bootstrap"
  /\ started' = Now
  /\ pc' = "first"
  /\ UNCHANGED <<world, request, attempt, first, window, snapshot, run, history>>

(* A rate limit or a partial answer makes an incomplete snapshot, whether  *)
(* it hits the bootstrap, a read, or the limits of a window.               *)
Collecting == pc \in {"bootstrap", "first", "second"}

(* What load has read is gone when it ends without a window to return.     *)
Forget == first' = Empty /\ window' = Empty

SourceFails ==
  /\ Collecting
  /\ \E error \in SourceErrors : snapshot' = UnavailableSnapshot(error)
  /\ pc' = "loaded"
  /\ Forget
  /\ UNCHANGED <<world, request, started, attempt, run, history>>

(* GitHubUnauthorized, MissingMilestone, MissingCandidateRef.              *)
SourceDenies ==
  /\ Collecting
  /\ pc' = "raised"
  /\ Forget
  /\ UNCHANGED <<world, request, started, attempt, snapshot, run, history>>

Read(x) ==
  /\ pc \in {"first", "second"}
  /\ NextToRead(x, window)
  /\ window' = [y \in DOMAIN window \cup {x} |->
                  IF y = x THEN github[x] ELSE window[y]]
  /\ UNCHANGED <<world, pc, request, started, attempt, first, snapshot, run,
                 history>>

SecondWindow ==
  /\ pc = "first"
  /\ Whole(window)
  /\ first' = window
  /\ window' = Empty
  /\ pc' = "second"
  /\ between' = github
  /\ heldAt' = clock
  /\ UNCHANGED <<world, request, started, attempt, snapshot, run>>

TwoWindows == pc = "second" /\ Whole(window)

Accept ==
  /\ TwoWindows
  /\ SameWindow(first, window)
  /\ snapshot' = SnapshotOf(window, {})
  /\ pc' = "loaded"
  /\ UNCHANGED <<world, request, started, attempt, first, window, run, history>>

LastAttemptNever(n) == FALSE

LastAttempt(n) == n = 2

Retry ==
  /\ TwoWindows
  /\ ~SameWindow(first, window)
  /\ ~LastAttempt(attempt)
  /\ attempt' = 2
  /\ window' = Empty
  /\ pc' = "first"
  /\ UNCHANGED <<world, request, started, first, snapshot, run, history>>

GiveUp ==
  /\ TwoWindows
  /\ ~SameWindow(first, window)
  /\ LastAttempt(attempt)
  /\ snapshot' = SnapshotOf(window, Inconsistent)
  /\ pc' = "loaded"
  /\ UNCHANGED <<world, request, started, attempt, first, window, run, history>>

(* The verdict is reached under the policy pinned at the start.            *)
AssessLoaded ==
  /\ pc = "loaded"
  /\ run' = [state |-> "assessed", policy |-> request.policy, at |-> Now,
             status |-> Assess(snapshot,
                               PolicyVersions[request.policy].categories,
                               {}, Now).status]
  /\ pc' = "assessed"
  /\ UNCHANGED <<world, request, started, attempt, first, window, snapshot,
                 history>>

(* create_run stores run, snapshot and findings in one transaction, or     *)
(* none of them.                                                           *)
Store ==
  /\ pc = "assessed"
  /\ run' = [run EXCEPT !.state = "stored"]
  /\ pc' = "stored"
  /\ UNCHANGED <<world, request, started, attempt, first, window, snapshot,
                 history>>

StoreFails == pc = "assessed" /\ Raise

Init ==
  /\ \E commit \in Commits :
       github = [x \in Resources |-> IF x = CandidateRef THEN commit ELSE 0]
  /\ policy = 0
  /\ clock = 0
  /\ pc = "idle"
  /\ request = Nothing
  /\ started = 0
  /\ attempt = 1
  /\ first = Empty
  /\ window = Empty
  /\ snapshot = Nothing
  /\ run = Nothing
  /\ between = github
  /\ heldAt = 0

(* Bound: a request that has ended looks at nothing any more, so the world *)
(* need not be followed further.                                           *)
Ended == pc \in {"stored", "raised"}

World ==
  /\ ~Ended
  /\ \/ \E x \in Resources : Edit(x)
     \/ \E commit \in Commits : Repoint(commit)
     \/ Configure
     \/ Tick

Proceed ==
  \/ Bootstrap \/ SourceFails \/ SourceDenies
  \/ \E x \in Resources : Read(x)
  \/ SecondWindow \/ Accept \/ Retry \/ GiveUp
  \/ AssessLoaded \/ Store \/ StoreFails

Next == World \/ Begin \/ Refuse \/ Proceed

Spec == Init /\ [][Next]_vars

(* Every call to GitHub and to the database returns or times out, and the  *)
(* request then goes on.                                                   *)
FairSpec == Spec /\ WF_vars(Proceed)

-----------------------------------------------------------------------------
(***************************************************************************)
(* The shape of the state.                                                 *)
(***************************************************************************)
IsWindow(w) ==
  /\ DOMAIN w \subseteq Resources
  /\ \A x \in DOMAIN w : IF x = CandidateRef THEN w[x] \in Commits
                                             ELSE w[x] \in 0..MaxVersion[x]

TypeOK ==
  /\ IsWindow(github) /\ DOMAIN github = Resources
  /\ IsWindow(between) /\ DOMAIN between = Resources
  /\ IsWindow(first) /\ IsWindow(window)
  /\ policy \in {0} \cup DOMAIN PolicyVersions
  /\ clock \in 0..MaxClock /\ started \in 0..clock /\ heldAt \in 0..clock
  /\ pc \in {"idle", "bootstrap", "first", "second", "loaded", "assessed",
             "stored", "raised"}
  /\ pc \notin {"idle", "raised"} =>
       request.policy \in DOMAIN PolicyVersions /\ request.matches \in BOOLEAN
  /\ attempt \in {1, 2}
  /\ run # Nothing => run.status \in ReleaseStatus

(***************************************************************************)
(* A complete snapshot could have been read at one instant of the fetch:   *)
(* although its resources were read one by one while GitHub changed, there *)
(* was a moment when all of them, the ref aside, held what the snapshot    *)
(* says (GitHubReleaseLoader.load).  And it is whole: everything its own   *)
(* evidence and the pinned policy name was read, and nothing else.         *)
(***************************************************************************)
WindowAt(g) ==
  [x \in DOMAIN window |-> IF x = CandidateRef THEN window[x] ELSE g[x]]

HeldAtOnce ==
  /\ window = WindowAt(between)
  /\ DOMAIN window = Needed(window)
  /\ started <= heldAt
  /\ heldAt <= snapshot.fetched

OneInstant == snapshot # Nothing /\ snapshot.complete => HeldAtOnce

(***************************************************************************)
(* A run stored as READY was ready: at one instant of the fetch every      *)
(* blocking check of the policy it names had succeeded on the candidate    *)
(* commit, no check contradicted it, and no rule found a blocker in what   *)
(* GitHub held then (AnalysisService.run).                                 *)
(***************************************************************************)
ReadyWasTrue ==
  run # Nothing /\ run.status = "READY" =>
    LET commit     == snapshot.candidate
        categories == PolicyVersions[run.policy].categories
        held       == ChecksIn(commit, between[CheckRuns(commit)])
    IN  /\ started <= heldAt /\ heldAt <= run.at
        /\ request.matches
        /\ \A n \in DOMAIN categories :
             categories[n] = "BLOCKING" =>
               \E c \in held : c.name = n /\ c.sha = commit /\ Success(c)
        /\ \A c \in held :
             c.name \in DOMAIN categories
             /\ (categories[c.name] # "IGNORED" => Success(c))
        /\ \A f \in RestOf(WindowAt(between)) : f.severity # "BLOCKING"

(***************************************************************************)
(* An analysis ends: however GitHub keeps changing, it is answered with a  *)
(* run or an error (the two attempts of load).                             *)
(***************************************************************************)
Ends == pc = "bootstrap" ~> Ended
=============================================================================
