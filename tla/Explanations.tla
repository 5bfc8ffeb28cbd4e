---------------------------- MODULE Explanations ----------------------------
(***************************************************************************)
(* The optional AI explanation of one analysis run: the explanation route, *)
(* ExplanationService and ExplanationValidator, the bounded provider call, *)
(* and the one row of ai_explanations the run may have.                    *)
(*                                                                         *)
(* A request reads the run, waits for its process's lock of the run, and   *)
(* serves the stored explanation if it still fits the verdict it read.     *)
(* Otherwise it must win the row before it may ask the provider.  Several  *)
(* processes serve requests of one run, decisions change its verdict       *)
(* meanwhile, every database call may fail before or after it took effect, *)
(* and a process may stop at any await.                                    *)
(***************************************************************************)
EXTENDS Integers, FiniteSets

CONSTANTS
  Requests,     \* explanation requests of the run
  Processes,    \* API processes
  Home,         \* the process that serves each request
  NoOne,        \* the lock of a process is free
  Verdicts,     \* the verdicts the run may have: a status and findings
  Assessed,     \* the verdict of the analysis
  Decided,      \* the pairs of a verdict and one a decision turns it into
  Responses,    \* the explanations the provider may come up with
  MaxWarnings   \* MAX_WARNINGS

ASSUME RequestAssumption ==
  /\ NoOne \notin Requests
  /\ Home \in [Requests -> Processes]
  /\ MaxWarnings \in Nat

(* An open finding, the subject of a decision.                             *)
Open(v) == {f \in v.findings : f.severity = "DECISION_REQUIRED"}

(* Every decision closes a finding and opens none: see DecidingOnce of     *)
(* AssessmentProofs.  The id of a finding is the key of its stored row.    *)
ASSUME VerdictAssumption ==
  /\ Assessed \in Verdicts
  /\ Decided \subseteq Verdicts \X Verdicts
  /\ \A d \in Decided : Open(d[2]) \subseteq Open(d[1]) /\ Open(d[2]) # Open(d[1])
  /\ \A v \in Verdicts : IsFiniteSet(v.findings)
  /\ \A v, w \in Verdicts : \A f \in v.findings, g \in w.findings :
       f.stored /\ g.stored /\ f.id = g.id => f = g

VARIABLES
  verdict,    \* the verdict of the run, with its latest decision
  content,    \* the row of ai_explanations
  lock,       \* the request in the critical section of each process
  pc,         \* where each request stands
  read,       \* the verdict it read before it waited for the lock
  attempt,    \* the requests its provider call has sent
  response,   \* the validated explanation it is about to store
  answer,     \* what it was answered
  askers,     \* history: the requests that called the provider
  past        \* history: the verdicts the run has had

vars == <<verdict, content, lock, pc, read, attempt, response, answer,
          askers, past>>

Row(state)       == [state |-> state]
Available(e)     == [state |-> "available", explanation |-> e]
Nothing          == Row("none")
UnavailableReply == Row("unavailable")

-----------------------------------------------------------------------------
(***************************************************************************)
(* build_explanation_input: all critical findings and a bounded number of  *)
(* warnings, each with the id of its stored row.  A decision that marks a  *)
(* finding a release blocker replaces it by one that has no row.           *)
(***************************************************************************)
Prioritised(v) == {f \in v.findings : f.severity # "WARNING"}

Warnings(v) ==
  LET all == v.findings \ Prioritised(v)
  IN  CHOOSE some \in SUBSET all :
        Cardinality(some) = IF Cardinality(all) <= MaxWarnings
                              THEN Cardinality(all) ELSE MaxWarnings

Selected(v) == Prioritised(v) \cup Warnings(v)

Projectable(v) == \A f \in Selected(v) : f.stored /\ f.safe

Ids(findings) == {f.id : f \in findings}

Evidence(findings) == UNION {f.evidence : f \in findings}

(***************************************************************************)
(* ExplanationValidator: groups by severity and required actions each      *)
(* partition the findings, with exactly their evidence.  A response that   *)
(* does not parse, or repeats a group or an action, is a failed response.  *)
(***************************************************************************)
Named(v, ids) == {f \in Selected(v) : f.id \in ids}

Partition(v, parts) ==
  /\ UNION {p.findings : p \in parts} = Ids(Selected(v))
  /\ \A p \in parts :
       /\ p.findings # {}
       /\ p.evidence = Evidence(Named(v, p.findings))
       /\ \A o \in parts : o = p \/ o.findings \cap p.findings = {}

Grounded(v, e) ==
  /\ e.findings = Ids(Selected(v))
  /\ e.evidence = Evidence(Selected(v))
  /\ Partition(v, e.groups)
  /\ \A g \in e.groups : \A f \in Named(v, g.findings) : f.severity = g.severity
  /\ Partition(v, e.actions)
  /\ \A a \in e.actions : \A f \in Named(v, a.findings) : f.action = a.action

(* What validate returns: the summary is written from the input, and the   *)
(* model's own wording is replaced.                                        *)
Validated(v, e) ==
  [status |-> v.status, findings |-> e.findings, evidence |-> e.evidence,
   groups |-> e.groups, actions |-> e.actions]

-----------------------------------------------------------------------------
(* persist_decision gives the run its next verdict.                        *)
Decide ==
  /\ \E v \in Verdicts :
       /\ <<verdict, v>> \in Decided
       /\ verdict' = v
       /\ past' = past \cup {v}
  /\ UNCHANGED <<content, lock, pc, read, attempt, response, answer,
                 askers>>

(* POST /api/analyses/{run}/explanation reads the run, then calls generate. *)
Begin(q) ==
  /\ pc[q] = "idle"
  /\ read' = [read EXCEPT ![q] = verdict]
  /\ pc' = [pc EXCEPT ![q] = "queued"]
  /\ UNCHANGED <<verdict, content, lock, attempt, response, answer, askers, past>>

(* A step of q to another point of _generate_once, which changes no row.   *)
Goto(q, at) ==
  /\ pc' = [pc EXCEPT ![q] = at]
  /\ UNCHANGED <<verdict, read, answer, past>>

LockFree(q) == lock[Home[q]] = NoOne

Enter(q) ==
  /\ pc[q] = "queued"
  /\ LockFree(q)
  /\ Projectable(read[q])
  /\ lock' = [lock EXCEPT ![Home[q]] = q]
  /\ Goto(q, "loading")
  /\ UNCHANGED <<content, attempt, response, askers>>

(* generate returns or raises: the lock is released, the route answers.    *)
LeftNever(q) == lock

Left(q) == [p \in Processes |-> IF lock[p] = q THEN NoOne ELSE lock[p]]

Reply(q, reply) ==
  /\ pc' = [pc EXCEPT ![q] = "answered"]
  /\ answer' = [answer EXCEPT ![q] = reply]
  /\ lock' = Left(q)
  /\ UNCHANGED <<verdict, read, attempt, response, askers, past>>

(* The input cannot be built.                                              *)
Decline(q) ==
  /\ pc[q] = "queued"
  /\ LockFree(q)
  /\ ~Projectable(read[q])
  /\ Reply(q, UnavailableReply)
  /\ UNCHANGED content

(* _existing, before the reservation and once more after a lost one.       *)
CachedUnchecked(q) == Available(content.explanation)

Cached(q) ==
  IF Grounded(read[q], content.explanation)
    THEN Available(Validated(read[q], content.explanation))
    ELSE UnavailableReply

Serve(q) ==
  /\ pc[q] \in {"loading", "reloading"}
  /\ content # Nothing
  /\ Reply(q, IF content.state = "available" THEN Cached(q) ELSE UnavailableReply)
  /\ UNCHANGED content

NotFound(q) ==
  /\ pc[q] = "loading"
  /\ content = Nothing
  /\ Goto(q, "reserving")
  /\ UNCHANGED <<content, lock, attempt, response, askers>>

(* reserve_explanation: INSERT ... ON CONFLICT DO NOTHING.                 *)
ReservedByAll == content.state \in {"none", "pending"}

Vacant == content = Nothing

Reserve(q) ==
  /\ pc[q] = "reserving"
  /\ Vacant
  /\ content' = Row("pending")
  /\ askers' = askers \cup {q}
  /\ Goto(q, "asking")
  /\ UNCHANGED <<lock, attempt, response>>

Lost(q) ==
  /\ pc[q] = "reserving"
  /\ ~Vacant
  /\ Goto(q, "reloading")
  /\ UNCHANGED <<content, lock, attempt, response, askers>>

(* A database error before the row is known to be won.  The insertion may  *)
(* have been committed all the same; nobody then resolves the row.         *)
StoreError(q) ==
  /\ pc[q] \in {"loading", "reserving", "reloading"}
  /\ \/ UNCHANGED content
     \/ pc[q] = "reserving" /\ Vacant /\ content' = Row("pending")
  /\ Reply(q, UnavailableReply)

(* OpenAIExplanationProvider.explain: at most two requests in one deadline, *)
(* which may pass before either is sent or while it is awaited.            *)
MayRetry(n) == n < 2

Send(q) ==
  /\ pc[q] = "asking"
  /\ attempt' = [attempt EXCEPT ![q] = @ + 1]
  /\ Goto(q, "awaiting")
  /\ UNCHANGED <<content, lock, response, askers>>

(* 429 or a server error of the first request.                             *)
SendAgain(q) ==
  /\ pc[q] = "awaiting"
  /\ MayRetry(attempt[q])
  /\ Goto(q, "asking")
  /\ UNCHANGED <<content, lock, attempt, response, askers>>

(* Deadline, refusal, malformed or ungrounded output.                      *)
NoExplanation(q) ==
  /\ pc[q] \in {"asking", "awaiting"}
  /\ Goto(q, "failing")
  /\ UNCHANGED <<content, lock, attempt, response, askers>>

Explain(q) ==
  /\ pc[q] = "awaiting"
  /\ \E e \in Responses :
       /\ Grounded(read[q], e)
       /\ response' = [response EXCEPT ![q] = Validated(read[q], e)]
  /\ Goto(q, "storing")
  /\ UNCHANGED <<content, lock, attempt, askers>>

(* complete_explanation, under the row's lock, only of a pending row.      *)
Complete(q) ==
  /\ pc[q] = "storing"
  /\ content = Row("pending")
  /\ content' = Available(response[q])
  /\ Goto(q, "stored")
  /\ UNCHANGED <<lock, attempt, response, askers>>

Answer(q) ==
  /\ pc[q] = "stored"
  /\ Reply(q, Available(response[q]))
  /\ UNCHANGED content

(* The update is rejected or fails, or its outcome is lost.                *)
NotCompleted(q) ==
  /\ pc[q] \in {"storing", "stored"}
  /\ Goto(q, "failing")
  /\ UNCHANGED <<content, lock, attempt, response, askers>>

(* fail_explanation, whose own errors are swallowed.                       *)
MayFailAny == TRUE

MayFail == content = Row("pending")

Fail(q) ==
  /\ pc[q] = "failing"
  /\ \/ MayFail /\ content' = Row("unavailable")
     \/ UNCHANGED content
  /\ Reply(q, UnavailableReply)

(* The request is cancelled or its process stops, at any await: nothing is *)
(* caught.  A process that stops loses all its requests.                   *)
Active(q) == pc[q] \notin {"idle", "answered", "lost"}

Lose(q) ==
  /\ Active(q)
  /\ pc' = [pc EXCEPT ![q] = "lost"]
  /\ lock' = Left(q)
  /\ UNCHANGED <<verdict, content, read, attempt, response, answer,
                 askers, past>>

Init ==
  /\ verdict = Assessed
  /\ content = Nothing
  /\ lock = [p \in Processes |-> NoOne]
  /\ pc = [q \in Requests |-> "idle"]
  /\ read = [q \in Requests |-> Assessed]
  /\ attempt = [q \in Requests |-> 0]
  /\ response = [q \in Requests |-> Nothing]
  /\ answer = [q \in Requests |-> Nothing]
  /\ askers = {}
  /\ past = {Assessed}

Generate(q) ==
  \/ Serve(q) \/ NotFound(q) \/ Reserve(q) \/ Lost(q) \/ StoreError(q)
  \/ Send(q) \/ SendAgain(q) \/ NoExplanation(q) \/ Explain(q)
  \/ Complete(q) \/ Answer(q) \/ NotCompleted(q) \/ Fail(q)

Next ==
  \/ Decide
  \/ \E q \in Requests :
       \/ Begin(q) \/ Enter(q) \/ Decline(q) \/ Generate(q) \/ Lose(q)

Spec == Init /\ [][Next]_vars

(* Database and provider calls return or time out, and asyncio.Lock wakes  *)
(* its waiters in order.                                                   *)
Fairness ==
  \A q \in Requests : SF_vars(Enter(q) \/ Decline(q)) /\ WF_vars(Generate(q))

FairSpec == Spec /\ Fairness

-----------------------------------------------------------------------------
(***************************************************************************)
(* The shape of the state.                                                 *)
(***************************************************************************)
Explained ==
  [status : {v.status : v \in Verdicts},
   findings : SUBSET UNION {Ids(v.findings) : v \in Verdicts},
   evidence : SUBSET UNION {Evidence(v.findings) : v \in Verdicts},
   groups : {e.groups : e \in Responses},
   actions : {e.actions : e \in Responses}]

IsRow(row, states) ==
  \/ row.state \in states /\ row = Row(row.state)
  \/ row.state = "available" /\ row = Available(row.explanation)
       /\ row.explanation \in Explained

TypeOK ==
  /\ verdict \in past /\ past \subseteq Verdicts
  /\ IsRow(content, {"none", "pending", "unavailable"})
  /\ lock \in [Processes -> Requests \cup {NoOne}]
  /\ pc \in [Requests -> {"idle", "queued", "loading", "reserving", "reloading",
                         "asking", "awaiting", "storing", "stored", "failing",
                         "answered", "lost"}]
  /\ read \in [Requests -> past]
  /\ attempt \in [Requests -> 0..2]
  /\ askers \subseteq Requests
  /\ DOMAIN response = Requests /\ DOMAIN answer = Requests
  /\ \A q \in Requests :
       /\ pc[q] \in {"storing", "stored"} => response[q] \in Explained
       /\ IsRow(answer[q], {"none", "unavailable"})

(***************************************************************************)
(* The provider is called at most once for a run, whichever requests, in   *)
(* whichever processes, race for its row or come after a failure           *)
(* (reserve_explanation, _generate_once).                                  *)
(***************************************************************************)
AskedOnce == \A p, q \in askers : p = q

(***************************************************************************)
(* A run has one explanation.  What any request was answered is what the   *)
(* row still holds, whatever other requests did to the row since and       *)
(* whatever was decided on the run, so all answers are the same            *)
(* (_existing, complete_explanation, fail_explanation).                    *)
(***************************************************************************)
OneExplanation ==
  \A q \in Requests :
    answer[q].state = "available" => content = answer[q]

(***************************************************************************)
(* An answer explains the verdict its request read, not the verdict of     *)
(* another request for which it was made: it names that status, and has    *)
(* every finding selected from that verdict in one group of its severity   *)
(* and one action it required, with its evidence (ExplanationValidator).   *)
(***************************************************************************)
Explains(e, v) ==
  /\ e.status = v.status
  /\ e.findings = {f.id : f \in Selected(v)}
  /\ \A f \in Selected(v) :
       /\ \E g \in e.groups : /\ f.id \in g.findings
                              /\ g.severity = f.severity
                              /\ f.evidence \subseteq g.evidence
       /\ \E a \in e.actions : f.id \in a.findings /\ a.action = f.action

AnswersItsVerdict ==
  \A q \in Requests :
    answer[q].state = "available" =>
      Explains(answer[q].explanation, read[q])

(***************************************************************************)
(* Every explanation request is answered, unless it is cancelled or its    *)
(* process stops: however long the queue for the lock of its process       *)
(* (generate).                                                             *)
(***************************************************************************)
Served ==
  \A q \in Requests : pc[q] = "queued" ~> pc[q] \in {"answered", "lost"}
=============================================================================
