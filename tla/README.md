# Verification of AI Release Intelligence

TLA+ models, TLC model-checking runs and TLAPS proofs of the release-readiness service in
`src/apps/api/src/release_intelligence` (called RI below). The service reads a release's
evidence from GitHub, assesses it by fixed rules, stores the verdict, lets people decide the
advisory findings that remain, and may ask an AI provider to explain the result. A web client in
`src/apps/web/src` shows it, and `src/demo/seed_state.py` builds the public repository it is
demonstrated on.

Every definition is translated from the code. `PROJECT.json` maps each definition to the lines
it stands for, each run to its properties, each property to a mutant of the model that it
rejects, and each hazard of the code to the properties that watch it.

## 1. Inventory

| Component | State it keeps | Operations | Behaviour that is hard | What makes it correct |
|---|---|---|---|---|
| Analysis request and loader, `application/analyze_release.py` | none between requests; one request holds the pinned policy, two evidence windows, an attempt count | `AnalysisService.run`, `GitHubReleaseLoader.load`, `_collect_window` | GitHub changes while it is read one HTTP request at a time; rate limits and partial answers at any read; the policy changes meanwhile | a complete snapshot was true at one instant; READY was true then, under the policy the run names; the analysis ends |
| Assessment, `domain/assessment.py` | none (pure) | `assess`, `assess_release`, `refresh_snapshot_freshness` | precedence of insufficiency, blockers, decisions; the ten-minute boundary | READY only of fresh, whole evidence with nothing open |
| CI check rule, `domain/rules/checks.py` | none (pure) | `evaluate_checks` | conflicting names, repeated run ids, duplicated records, fingerprints of decided evidence | every blocking check succeeded once on the candidate; a decision closes exactly its finding |
| Scope, blocker, operations and back-merge rules, `domain/rules/*` | none (pure) | `evaluate_*` | wrong records put issues, pull requests and links aside, each along its own chain; staged conditions that must hold of one pull request | READY means in order, whatever is wrong; with nothing wrong the verdict is exact; doubt stays local and is never silent |
| Decision lifecycle, `application/decisions.py`, `adapters/persistence/repositories.py` | `analysis_runs`, `readiness_findings`, `human_decisions` | `create_run`, `record_for_run`, `persist_decision`, `get_run` | concurrent decisions under a row lock; a clock read before the lock; supersession; rollback | a finding is decided once; the history is serial; a settled verdict never changes; READY is earned |
| Report, `api/routes/releases.py` | none | `get_analysis` | reads, awaits an access check, then refreshes by a later clock | a report that says READY is true when given |
| AI explanation, `application/explanations.py`, `api/routes/explanations.py` | `ai_explanations` (one row per run), an `asyncio.Lock` per run and process | `generate`, `reserve/complete/fail_explanation` | several processes race for the row; lost replies; cancellation; decisions made while the AI answers | the provider is called once per run; one explanation; it explains the verdict that was read |
| OpenAI provider, `adapters/ai/openai_provider.py` | none | `explain` | a deadline over at most two requests | bounded attempts |
| Policy history, `adapters/persistence/policies.py` | `release_policies` | `create_version`, `get_latest` | two editors save from one version; the disconnection of the repository | no edit is lost; the history is append-only |
| Repository connections, `adapters/persistence/auth.py` | `github_installations`, `user_installation_access`, `repository_connections` | `connect_repository`, `disconnect_installation`, `find_repository_access` | the cascade of a disconnection meets analyses in flight | a run keeps the policy that judged it |
| OAuth and sessions, `api/routes/auth.py`, `adapters/persistence/auth.py`, `main.py` | `oauth_states`, `web_sessions`, users and credentials; two cookies in the browser | login, callback, csrf, logout | a callback is suspended at the database and at GitHub, repeated, lost, or overtaken by another login | a login opens one session, the last one begun, for a bounded time |
| GitHub client, `adapters/github/client.py` | last seen rate limit | `_paginate`, `_paginate_keyed_list`, `compare_commits`, `_request` | lists that shift between pages; page and count limits | a list is never cut off silently; two readings that agree were true |
| Web client, `src/apps/web/src` | query cache, one mutation, the forms | load the run and the CSRF token, decide, ask for an explanation | answers come in another order than requests; the browser signs in as somebody else meanwhile | a decision is that of the user who made it; nothing shown is older than what the page was told; no form stays disabled |
| Demo seeder, `src/demo/seed_state.py` | none: all of it is on GitHub | `seed_repository` | it may be stopped after any request and started again; people edit what it made; the search it relies on lags | it makes nothing twice, undoes nothing, is not refused by its own half-made work, and ends |
| GitHub App authentication, benchmark, wiring, security helpers, fixtures, migrations | see `PROJECT.json` | | | |

How they interact: the page and the browser call routes; a route calls one service; a service calls the repository (one PostgreSQL
transaction per call, READ COMMITTED) and, for an analysis, GitHub. Components never call each
other back: they meet in the database rows and in the clock. The API runs as one uvicorn process
per container, many requests interleaving at each `await`, and several containers may serve one
database.

## 2. Modules

| Module | Stands for |
|---|---|
| `Checks` | `evaluate_checks`: the quarantine of conflicting and invalid records, the finding or code of every check and of every configured name |
| `Assessment` | `assess`, `assess_release`, the prerequisite and freshness codes, `refresh_snapshot_freshness`; extends `Checks` |
| `Decisions` | runs, decision requests and report requests, interleaved; extends `Assessment` |
| `Evidence` | what the rule families share: the records of issues and pull requests, their validation, `evaluate_blockers` |
| `Scope`, `Operations`, `Backmerge` | `evaluate_scope`, `evaluate_operations`, `evaluate_backmerge` over that evidence; each extends `Evidence` |
| `Release` | people working on a release on GitHub, the evidence `_collect_window` makes of it, wrong records, and the verdict of all five families; extends `Scope`, `Operations`, `Backmerge` |
| `RunVerdict` | the abstract lifecycle of a verdict that `Decisions` implements: publish, accept, block |
| `AnalyzeRelease` | one analysis against a changing GitHub, a changing policy and a clock; extends `Assessment` |
| `Explanations` | the explanation requests of a run, in several processes, while the run is decided |
| `Policies` | the policy history and the analyses that use it, with connections and disconnections |
| `Sessions` | logins, callbacks, sessions and the two cookies of one browser |
| `ReportPage` | the page of a report in one tab: its loads, decision forms and explanation; extends `Sessions` |
| `GitHubPages` | a list read twice, page by page, while it changes |
| `Seeder` | a run of the demo seeder, one request after the other, against GitHub and the people who use it |
| `MC*` | the small instances that TLC checks |
| `*Proofs` | the theorems |

### Correspondence

`Checks` and `Assessment`. A check is a record with its run id, name, commit, status and
conclusion, and two Booleans for what the validators ask of its identity and timestamps. A
finding is its rule, severity and subject, a fingerprint being the whole check: the code hashes
exactly the fields the record has, so two checks have one fingerprint when they are the same
record. A decision is a fingerprint and whether it blocks. The findings and codes of the four
other rule families are the fields `rest` and `restCodes` of a snapshot, arbitrary in the proofs
but for one fact of the source, that none of these rules reports an advisory finding.

`Evidence`, `Scope`, `Operations`, `Backmerge`. A record keeps its number, its kind, its source id,
and two Booleans for the validators: `url` (it names this repository) and `sound` (identity and
times are acceptable). An issue carries its milestone, state, labels, owners and a `body`, which is
what `_parse_sections` makes of the text: each section absent, hollow, filled or in conflict, the
migration section absent, in conflict, prose or the link of a check run. Every set a rule builds
(the conflicting, the misplaced, the uncertain) is an operator; `Evaluate*` pairs findings and
codes, the codes being those of the `*EvidenceError` a rule raises.

`Release`. `issues`, `pulls`, `links`, `ancestry`, `tip` and `proof` are GitHub. `Window` is
`_collect_window` over it with the records of the mapper; `Corrupt` and its callers make at most
`MaxFaults` records wrong in the ways mapper and client let through; `JudgeEvidence` is `assess`.
`InOrder` says without any of the rules' vocabulary when a release is ready, in terms of GitHub
alone: it is the reference definition the rules are compared with. GitHub stands still between
`Collect` and the verdict, which module `AnalyzeRelease` justifies: a window accepted as complete
was true at one instant.

`Decisions`. `run[r]` is a row of `analysis_runs` with its snapshot, `decisions[r]` its rows of
`human_decisions` in sequence order, `lock[r]` the transaction that holds
`SELECT ... FOR UPDATE` on the row. `Submit` is `DecisionService.record` up to its clock reading;
`Acquire` the select and the loads after it; `Insert`, `Reject`, `Abort` the three ends of
`persist_decision`. `Read` and `Respond` are the two halves of `get_analysis`, before and after
its access check. `Tick` moves the clock.

`AnalyzeRelease`. `github` gives every resource a version and the candidate ref a commit; `Edit`
and `Repoint` change it between any two reads. `Needed` is the control of `_collect_window`: which
resources a window must contain, given what those read so far name; `Read` reads one in the order
of the code. `SecondWindow`, `Accept`, `Retry`, `GiveUp` are the loop of `load`;
`SourceFails` and `SourceDenies` its error paths and those of the bootstrap; `AssessLoaded`,
`Store`, `StoreFails` the rest of `AnalysisService.run`.

`Explanations`. `content` is the row of `ai_explanations`; `lock[p]` the `asyncio.Lock` of the run
in process p. Every await of `_generate_once` is a point of `pc`. `StoreError`, `NotCompleted` and
`Fail` include the lost reply: the statement was committed and the caller sees an error. `Lose` is
cancellation or a stopped process.

`Policies`. `repository` is the row of `repository_connections`, with an id that is never issued
twice, `policies` its rows of `release_policies`, a placeholder having no payload. `form[e]` is the
record a policy form was last filled from (`applyRecord`); a row remembers in `base` the record of
the form it was saved from, which the code does not store and the properties compare. `Acquire`,
`Insert`, `Conflict` and `Unavailable` are `create_version` and its ends; `Unavailable` may follow
the commit, when the answer is lost. `Pin`, `Look`, `Store`, `RepositoryGone`, `StoreFails` and
`Audit` are an analysis as far as it touches these rows. `Connect` and `Disconnect` are the two
methods of the repository class; `Disconnect` cascades to policies and runs.

`Sessions`. `states` and `sessions` are the rows of `oauth_states` and `web_sessions`. `SaveState` is
`github_login` up to its answer and `Redirect` the browser that follows it. A callback reads the
clock and its binding cookie in `Arrive`, takes the state out in `Consume` (the `DELETE` of
`consume_oauth_state`), and opens its session in `Open`, after any time at GitHub; `ConsumeFails`
and `OpenFails` are the failures before or after the transaction took effect, `Lost` a request or
answer that is gone. `Answered` and `LogoutAnswered` change the cookies.

`ReportPage`. `token` and `report` are the two queries of `App.tsx` and `explanation` its mutation,
each with the request that is on its way; `form[f]` is the state of a `DecisionForm` and `post[f]`
its request. `Mounted` says which forms there are, `Remounted` that a form that goes loses its
state. `PostAnswered` is the rest of `submit` with `onDecisionRecorded`: `Reset` drops the
explanation and the answer on its way to it, `Refetch` replaces a load that is on its way. What the
server makes of a decision or a question is what `Decisions` and `Explanations` promise: one
decision for a finding, and an explanation of the verdict it read. `Admitted` is `enforce_csrf`.

`GitHubPages`. `list` is the list on GitHub, `ReadPage` one request of `_paginate` or, where `keyed`,
of `_paginate_keyed_list` with its checks; `ReadAgain` and `Compare` are the second window of the
loader and the comparison of the sorted evidence. The specification is `PagesSpec`, since
`AnalyzeReleaseProofs` extends this module beside `AnalyzeRelease`.

`Seeder`. `refs`, `issues`, `pulls`, `milestones` and `labels` are GitHub; a commit is what it is made
from, since the script fixes author and date. `known` is what the run read of each marker before it
changed anything, which it uses until it ends. Each action is one request that changes something,
or the reads between two of them; `Stop` ends a run after any of them. `ExistingTopology` is
`_validate_existing_topology`, and `PullTopology` is `_validate_pull_topology` with base, head, state
and merge. `EditIssue`, `EditPull`, `DeleteBranch`, `Index` and `Check` are other people, the search
index and the workflow: people change texts and labels, close issues and pull requests and open them
again, give an open pull request another base, and delete branches, which closes the open pull
requests from them and to them. `MergePull` asks GitHub, which merges onto the base that the pull
request has by then.

## 3. Runs

| Run | Instance | Shows |
|---|---|---|
| `decisions_core` | one run of six kinds of evidence (two open decisions, a disputed name, a missing blocking check, an unclassified check, an incomplete window, a blocker of another rule), two racing requests, a report that is read and answered at different times, two clock values; fairness | `DecidedOnce`, `ReadyIsEarned`, `DecidedOnFreshEvidence`, `VerdictIsFinal`, `ReadyIsStillTrue`, `Answered`, and that the lifecycle implements `RunVerdict` |
| `decisions_stale` | the clock passes the limit while a request waits | a violation, see section 6 |
| `analyze_core` | two commits between which the ref may move for ever, a timeline that comes to name a pull request, checks that change, a second policy version with a previous release saved at any time; fairness | `OneInstant` with the pinned policy, `ReadyWasTrue`, `Ends` |
| `explain_core` | three requests in two processes, decisions, five answers of the provider, right and wrong; fairness | `AskedOnce`, `OneExplanation`, `AnswersItsVerdict`, `Served` |
| `release_milestone` | one issue and two pull requests filed, linked, merged, moved and cut into the candidate in every order, or two release-operations issues in twelve shapes and the migration check; one record wrong | `ReadyMeansInOrder`, `VerdictIsExact`, `QuarantineIsLocal`, `NothingWithheldSilently`, `NoFalseBlame` |
| `release_backmerge` | two issues and two pull requests of which the previous release shipped some; one record wrong, or two when there is one issue | the same but `NothingWithheldSilently`, whose case for this rule `ReadyMeansInOrder` covers |
| `release_migration` | one code change labelled migration-required | a violation, see section 6 |
| `policies_core` | two forms, one analysis, two versions, the repository disconnected and connected again once | `NoEditLost`, `RunPolicyKept`, `HistoryGrows` |
| `policies_reconnected` | one form, one analysis, one version | a violation, see section 6 |
| `page_core` | two users who sign in in one browser, three callbacks of which one repeats another, two findings, three clock values; one tab opened up to twice, up to two questions (`MCBounds`); fairness | `OneSessionPerLogin`, `SessionEndsInTime`, `DecisionIsOfThePage`, `ExplanationFollowsDecisions`, `RecordedIsShown`, `PageSettles` |
| `lists_core` | lists of up to seven elements, three pages of two, two changes anywhere at any time | `KeyedIsProper`, `TrueOnce` |
| `seeder_core` | two issues, three pull requests, two milestones, a label; up to two stops and two edits, one record the search does not find yet (`MCBounds`); fairness | `SuccessIsComplete`, `NeverRefused`, `OneOfEach`, `EvidenceIsEarned`, `NothingIsUndone`, `Converges` |

Bounds and why they are enough. Two requests are enough to race for a row, and what one more could
add is excluded by the proofs, which hold for any number. `MaxAge` is 0 in
`decisions_core`, so that two clock values are the fresh moment and the stale one, and 1 in
`decisions_stale`. In `analyze_core` GitHub and the policies stand still once the analysis has
ended. `MaxVersion` lets each interesting
resource change once; with the ref that may move back and forth this already makes windows equal
whose parts changed in between, which is the case `OneInstant` is about. Three explanation requests
are one that wins the row, one of the same process that waits for it, and one of another process.
Two forms race for a version and two versions let a form be one behind; the row id 2 is the
repository connected, or inserted by an analysis, after it was deleted.
Two commits are one that the candidate contains and one that it does not yet; two pull requests let
each pass another stage of the scope rules, or one ship and the other bring back. One wrong record
is enough for each way of putting a chain aside; two are tried on one chain of the previous release
(`BackmergeBound`, which also keeps the candidate branch where it is, since the back-merge rule does
not read it). `ScopeOrOperations` keeps a milestone to the issues of one kind at a time: no rule
relates an operations issue to another issue's pull requests. `MCBounds` of `page_core` tries five
combinations in turn, each a reason for trouble beside one or two others: two users who sign in and
out while time passes; a page that is left open while the other user signs in; two forms and a
question; two questions while others decide; a page opened again while its requests are on their
way. That of `seeder_core` combines two stops with an edit or with a lagging search, two edits, or an
edit with a lagging search.
Seven elements are one more than three pages of two hold, six end exactly with the last page, and
two changes are what it takes to move an element out of one page and another into it. Issues and pull requests are interchangeable, hence the symmetry.
Deadlock is not checked because requests end and no new ones arrive: a finished system stops.
The type invariants of `Decisions`, `AnalyzeRelease`, `Explanations`, `Policies`, `Release`, `Seeder` and
`ReportPage` are proved (section 4, `TypeCorrect`) and therefore part of no run, and so is
`SerialHistory`.

Fairness. `Answered` uses strong fairness of taking the row lock, because PostgreSQL queues the
waiters of a row, and weak fairness of ending a transaction, because the code of `persist_decision`
has no await after the lock but database calls. `Ends` uses weak fairness of the request going on:
each GitHub call has a ten-second timeout (`adapters/github/client.py`), each database call returns
or fails. `Served` uses strong fairness of entering the lock, because `asyncio.Lock` is FIFO, and
weak fairness of `_generate_once`, whose provider call has a deadline. `PageSettles` uses weak
fairness of serving a request and of handling its answer: the server or the network ends every
request, with an error if nothing else, and a browser runs its callbacks; nobody has to decide, to
ask or to sign in. `Converges` uses weak fairness of a run's next request, and of starting a run
after one that did not end well, which is what an operator does; of the search index; and of the
workflow, which GitHub ends.

## 4. Proofs

TLAPS proves the following for every value of the constants: any number of runs, requests,
processes, checks, policies and resources, any age limit, and lists and pages of any length.

- `AssessmentProofs`: `ReadyMeansEarned` (what a READY verdict says of checks and decisions) and
  `DecidingOnce` (the first decision of a failed advisory check closes its finding and no other).
  These two facts about pure functions carry the rest.
- `DecisionsProofs`: the inductive invariant `IInv` says what is stored (every run is the
  assessment of its snapshot, every row decides a failed advisory check and stores the assessment
  under all rows up to it), what the holder of a lock knows (it has loaded exactly the rows there
  are, and nobody else holds that lock), and what a report in flight has read. `DecidedOnce` alone is
  not inductive: that a second decision of a fingerprint is rejected depends on the first having
  removed its finding from the reassessment, hence on `SerialHistory` and on `LockDiscipline`.
  From `IInv` follow type correctness, the four safety invariants and both action properties.
  `Refinement`, in its last section: every step of `Decisions` is a step of `RunVerdict` or leaves
  all verdicts alone, by `DecidingOnce` and the serial history.
- `AnalyzeReleaseProofs`: versions only grow, so a resource that has one version in two windows had
  it at every moment between, the moment `between` included. `IInv` keeps that the first window was
  not newer than `between` and the second is not older; equal windows are then equal to `between`
  wherever a resource was read, the ref excepted. `OneInstant` and `ReadyWasTrue` follow.
  Its second half is about `GitHubPages`, for every list, page size and number of changes (`PagesInv`).
  A reading is `UpToDate` as long as nothing changed before the place it has reached. A change there
  leaves a trace that changes of the same kind cannot undo. On a list that only grows an element is
  missing (`Before` the place, not in `result`; of several the foremost is never read), and the
  element that moves over the place comes twice. On a list that only shrinks the reading holds an
  element that is gone, and loses the one that moves over the place. With counts the length shows the
  change at once (`CountsShow`). Without them the first reading may carry the trace to its end
  unseen; the second then has what the first misses, or lacks what it held in vain, and a second reading
  that is disturbed itself repeats or lacks an element of a first that was true (`GrowingReads`,
  `ShrinkingReads`). So readings that agree are undisturbed, whence `TrueOnce`. Neither property is
  inductive: both speak of the end of a reading. TLC checks `PagesInv` in the 337,934 states of
  `MCGitHubPages`, and with three changes on lists of up to five.
- `ExplanationsProofs`: the row's life (none, pending, then available or unavailable for good) and
  who may still change it. Decisions only ever close findings, so two verdicts of a run with the
  same selected findings are the same in what an explanation says; this is why a cached answer
  that the validator accepts explains the later verdict.
- `PoliciesProofs`: a form, a save in flight, a pinned policy, a stored run and the base of a row
  each hold a record read from the repository as it was connected then. `True(r)` says that such
  a record is still so unless the repository was replaced since; every action keeps it
  (`RecordsStayTrue`), because rows are only added and ids are not issued twice. With that,
  `LockPart` (the holder of the row lock knows the latest version) and `HistoryPart` (versions
  have no gap) make `NoEditLost`, `RunPolicyKept` and `HistoryGrows` inductive.
- `ReportPageProofs`: for any number of logins, callbacks, users and findings. A callback *holds* its
  login from the moment it has taken the state out of the table; a state is stored once, so there is
  one holder (`HolderPart`), it came in time and with the login's own binding, and only holders open
  sessions. `OneSessionPerLogin` alone is not inductive: it needs that a held login has no state left
  and will get none. For the page, `ReportPart` and `QuestionPart` say that whatever answer is on
  its way is as new as the decisions the page was told of, because being told of one drops the
  question and replaces the load; so what arrives may be shown.
- `ReleaseProofs`: all five invariants, for any number of issues, pull requests, commits and wrong
  records. For `ReadyMeansInOrder`: a READY verdict means that no family reported a code or a blocker
  (`Clean`), so no record was put aside. Collected evidence is faithful to GitHub in a weak sense
  that every wrong record keeps (`Faithful`): each listed number has its true record or an
  ill-formed one, and no record invents a link, a merge or a commit in the candidate. Clean and
  faithful evidence shows each conjunct of `InOrder` (`IssuesInOrder`, `BackmergeIsInOrder`).
  `ReadyMeansInOrder` alone is not inductive; `IInv` adds `Faithful` from `Collect` to the verdict,
  and that a made commit contains itself.
  The other four compare what is said of the evidence with what the rules say of the records as they
  were collected (`Window`). They rest on a second invariant, `Kept` (theorem `Bookkeeping`): the
  records that differ are of touched numbers (`Traced`), the verdict is that of the evidence, and
  commits contain each other in one order that starts with the first commit (`Lineage`), which makes
  every comparison GitHub answers coherent (`ComparisonIsCoherent`).
  `NoFalseBlame`: what a rule reads after putting records aside is what it would have read before
  (`ValidIsRead`, `PullIsRead`, `ShippedIsRead`, `MissingIsRead`), family by family.
  `VerdictIsExact`: without wrong records nothing is put aside (`WindowIsTrusted`), a legible release
  gives no code (`NoScopeCodes`, `NoOperationsCodes`, `NoBackmergeCodes`) and one that is in order no
  finding; READY meaning in order is the first theorem. `QuarantineIsLocal`: two bodies of evidence that
  agree outside t (`Agree`) put the same records aside outside t, and report the same of every
  issue and pull request whose chain is outside t (`LocalSaid`); the relation is symmetric, so
  nothing appears and nothing disappears. `NothingWithheldSilently`: evidence without a code holds
  the issue records of GitHub (`UndoubtedIssues`); an issue that is stuck at a stage is stuck at
  some stage there (`StuckIsReported`), since whoever passes all stages is delivered on GitHub, and
  whoever is delivered passes them in what was collected. TLC checks `Kept` on the instances of
  the runs.

- `SeederProofs`: for any manifest, any number of stops and edits, and a search any number of records
  behind. Success is complete, no run is refused but in the cases `NeverRefused` names, nothing is made
  twice or undone, the evidence is earned. None of these is inductive. `PullPart` and `BranchPart` say
  what every half-made repository looks like: a head, a merge and a branch are made from the parent of their stage, and the tip of
  `main` tells which pull requests are merged, in which order, because a stage is merged only while
  its base stands at its parent (`BaseMoved`) and GitHub refuses a pull request whose commits the base has
  (`Refused`). `SolePart` follows from it for the two pull requests onto `main` even when the search is
  behind (`OpenedOnce`), and for everything else from `Seen`: a marker that the run has searched
  and not found is carried by nothing, unless a search missed it (`hasty`). `KnownPart` says what
  stays true of what was read many requests earlier: of a pull request the commits, of an issue the
  rest too as long as nobody edits it (`touched`). `StagePart`, `ListPart` and `IssuePart` say what
  the requests behind the run have achieved, at each of its requests; at the last one they add up to
  `Complete`. `NeverRefused` is shown by taking each refusal of the code (`Refusal`) and its
  contrary: `NotRefusedFinding`, `NotRefusedLooking`, `NotRefusedBuilding`, `NotRefusedVerifying`.
  A pull request that is closed or given another base while a run goes on may be merged astray or be
  left behind; the invariant then says less of it, and `InForceStep` and `NoneDisplaced` say what is
  left and when it matters. TLC checks every part of the invariant in the 546,752 states of the
  instance `MCSeeder`.

Assumptions, all named in the modules: the shapes of issues and pull requests are well-formed, their
numbers differ, a list of GitHub holds nothing twice, a check run belongs to one commit and concludes
as GitHub lets it; `MaxAge` is a natural number and the clock never runs backwards; the snapshots are of the GitHub loader; a resource names only resources of later stages;
versions grow (an `updated_at`, or a list that is only appended to); a finding's id identifies its
stored row; a decision closes a finding and opens none (this is `DecidingOnce`); a callback belongs
to one login, and lifetimes are natural numbers; the manifest of the seeder names no issue twice,
none like a pull request, and does not want the operations issue closed (`ManifestAssumption`).

Only model-checked: the liveness properties `Answered`, `Ends`, `Served`, `PageSettles` and
`Converges`, since proofs of liveness under fairness are out of the prover's reach, and the violations
of section 6. Every invariant and every action property that a run checks is proved.

## 5. Abstractions

- `AnalyzeRelease` reads a list of GitHub in one step. `GitHubPages` has the pages of one list: what
  two equal readings hold was the list at one instant when it changed one way. `next` links are
  those GitHub computes from the list as it is; `compare_commits` has the checks of a keyed list.
- `Sessions`: the exchange of the code, the question who the user is and the transaction that stores
  the session are one step, since nothing is kept between them; `oauth_binding` has an age of its
  own, which only ends it earlier than the row in `oauth_states`; users and credentials, which a
  login inserts or replaces, are left out. The web client has no sign-out button: `Logout` is the
  route, as another client of the same browser session may call it.
- `ReportPage`: a form posts one request at a time, since it is disabled meanwhile; a form that is
  unmounted and mounted again has forgotten this and could post a second time, which is left out (the
  server records one decision for a finding, `DecidedOnce`); the checks of its fields are left out; the server answers any request, or an error arrives in its place.
- `Seeder`: runs come one at a time. The labels of an issue are those managed and wanted, those
  managed and unwanted, and foreign ones; title, milestone and assignees are reconciled with the
  wanted labels and are one with them. What fails a check of identity, name or shape stops the run.
  People do not push commits to the branches the seeder manages, nor merge its pull requests
  themselves, which pushes to their base. The other base a pull request may be given is the second of
  the two branches that stages are merged onto.
- A comparison of two commits never changes and is determined by what was read before it.
- In `AnalyzeRelease` and `Decisions` the rules other than the check rule are arbitrary functions of
  the window; in `Release` they are the rules.
- The grammar of Markdown, the parser of URLs and the limits on counts and lengths (100 items, 200
  links or pull requests, 65,536 characters) are left out: what fails them is a record with `sound`
  or `url` FALSE. A section that is missing three times for one issue is one finding.
- A finding's source references are the numbers of its issue and pull requests.
- A merge makes one commit on the base branch; squash, rebase and revert commits look the same to
  the rules, which know a pull request by its merge commit.
- Wording, URLs, redaction, hashing and JSON are left out. A hash is the record it is taken of.
- The in-memory mode of the explanation service, which the application never configures, is out.

Behaviour the models show and no document contradicts. A list that loses elements and gains others
at the same places of both readings may be accepted although it was never so. The answer of a logout
or of a callback clears the cookie its browser has by then, which may be that of a later login. A
load of the run that the focus of the window causes may show the decisions of others beside an
older explanation. A seeder that is stopped between creating the repository and pushing to it is
refused by every later run; one that is started again before the search index has taken up what it
made makes an issue twice, and is refused from then on (`OneOfEach`, `NeverRefused` and `Converges`
say so with `hasty` and `repo`). It is refused too for as long as a managed pull request is closed
without a merge or has another base, since it neither opens a pull request again nor makes another
(`_validate_pull_topology`; `Displaced`); and when a pull request is given another base while a run
is on its way from reading it to `merge_pull`, it is merged onto that base, which no later run can
mend. A crash, a cancellation or a lost reply
after the reservation leaves the explanation row pending, and later requests are answered
"unavailable" for good; a decision that marks a finding a release blocker replaces it by one without
a stored row, so the run has no explanation from then on; an explanation uses the stored verdict and
not the one refreshed for the report.

## 6. Findings

`decisions_stale`: `docs/portfolio/architecture.md:126` says that a stale run rejects a new
decision. The clock is read before the request waits for the row lock, so a decision that waits
while the evidence expires is still recorded. What does hold, and is proved, is
`DecidedOnFreshEvidence`: the evidence was fresh at the time the row carries.

`policies_reconnected`: `docs/portfolio/architecture.md:94` says that what is stored lets a reader
reconstruct which policy produced a verdict. When `disconnect_installation` deletes the repository
while an analysis collects its evidence, `create_run` inserts repository and policy version anew,
the latter with no payload: the run names a policy that is stored nowhere. Decisions on that run
are then refused, and once the repository is connected again the version of that number can never
be saved, because `uq_release_policy_version` holds its name. The method is tested
(`tests/integration/test_auth_repository.py:183`) but no route calls it yet. Without a
disconnection the promise holds, and is proved: `RunPolicyKept`.

`release_migration`: `docs/superpowers/specs/2026-08-07-ai-release-intelligence-design.md:280` says
that a `migration-required` issue requires a link to a successful check. No rule reads that label:
`evaluate_operations` selects issues by the release-operations label and asks for evidence only
when the body has a migration section. What the code does guarantee is part of `InOrder` and proved:
a section that names a check needs that check to have succeeded on the candidate.

## 7. Not modelled, and the plan

Not modelled: `adapters/github/auth.py`, two request-response exchanges that keep no state; the
wiring in `main.py` but for `enforce_csrf`, which runs once; redaction, URLs and cryptography, which are
stateless string processing; fixtures and benchmark, which run offline over files. Of the GitHub
client the validation of URLs and the classification of rate limits, which end in an error of the
request either way; of the web client the demonstration mode, the start page of the end-to-end tests
and the validation of what was typed or answered; of the repository connections the users without
access.

Done: every module of section 2 with its run, and the proofs of section 4.

What is left:

1. `AnalyzeRelease` over lists read by `GitHubPages`, so that `OneInstant` rests on its pages.
2. Several tabs of one browser: two pages that decide the same findings.
