------------------------- MODULE ExplanationsProofs -------------------------
(***************************************************************************)
(* Theorems about Explanations, for any number of requests and processes,  *)
(* any verdicts a run may have and anything the provider comes up with.    *)
(*                                                                         *)
(* The argument: the row is won once, and only its winner resolves it.     *)
(* What it stores fits the verdict the winner read.  A later decision      *)
(* changes the open findings of the run, so an explanation that still fits *)
(* what a request has read was made for that very verdict.                 *)
(***************************************************************************)
EXTENDS Explanations, FiniteSetTheorems, FunctionTheorems, TLAPS

(***************************************************************************)
(* The inductive invariant.                                                *)
(***************************************************************************)
AskingStates == {"asking", "awaiting", "storing", "stored", "failing"}
EarlyStates  == {"idle", "queued", "loading", "reserving", "reloading"}
InsideStates == AskingStates \cup {"loading", "reserving", "reloading"}

(* Decisions only ever close findings, so no verdict comes back.           *)
PastPart ==
  /\ \A v \in past : Open(verdict) \subseteq Open(v)
  /\ \A v, w \in past : Open(v) = Open(w) => v = w

AskPart ==
  /\ \A q \in Requests : pc[q] \in AskingStates => q \in askers
  /\ content = Nothing => askers = {}
  /\ AskedOnce

AttemptPart ==
  \A q \in Requests :
    /\ pc[q] \in EarlyStates => attempt[q] = 0
    /\ pc[q] = "asking" => attempt[q] < 2

Fits(e, v) == Projectable(v) /\ Grounded(v, e) /\ e = Validated(v, e)

FitsPast(row) ==
  \E v \in past : Fits(row.explanation, v) /\ row = Available(row.explanation)

ResponsePart ==
  \A q \in Requests :
    /\ pc[q] \in InsideStates => Projectable(read[q])
    /\ pc[q] \in {"storing", "stored"} => Fits(response[q], read[q])
    /\ pc[q] = "stored" => content = Available(response[q])

AnswerPart ==
  /\ content.state = "available" => FitsPast(content)
  /\ \A q \in Requests :
       answer[q].state = "available" =>
         /\ pc[q] = "answered"
         /\ content = answer[q]
         /\ Fits(answer[q].explanation, read[q])

IInv == TypeOK /\ PastPart /\ AskPart /\ AttemptPart /\ ResponsePart /\ AnswerPart

-----------------------------------------------------------------------------
(***************************************************************************)
(* A finite set has a subset of every smaller size, so that the bounded    *)
(* choice of warnings exists (_selected_findings).                         *)
(***************************************************************************)
LEMMA SubsetOfSize ==
  ASSUME NEW S, IsFiniteSet(S), NEW k \in Nat, k <= Cardinality(S)
  PROVE  \E T \in SUBSET S : Cardinality(T) = k
<1> DEFINE n == Cardinality(S)
<1>1. n \in Nat /\ ExistsBijection(1..n, S)
  BY FS_CardinalityType
<1>2. PICK f \in Bijection(1..n, S) : TRUE
  BY <1>1 DEF ExistsBijection
<1>3. /\ f \in [1..n -> S]
      /\ \A a, b \in 1..n : f[a] = f[b] => a = b
  BY <1>2, Fun_BijectionProperties
<1> DEFINE T == {f[i] : i \in 1..k}
           g == [i \in 1..k |-> f[i]]
<1>4. 1..k \subseteq 1..n
  BY <1>1
<1>5. T \in SUBSET S
  BY <1>3, <1>4
<1>6. g \in [1..k -> T] /\ (\A a, b \in 1..k : g[a] = g[b] => a = b)
  BY <1>3, <1>4
<1>7. \A t \in T : \E i \in 1..k : g[i] = t
  OBVIOUS
<1> HIDE DEF T, g
<1>8. g \in Bijection(1..k, T)
  BY <1>6, <1>7, Fun_IsBij
<1>9. Cardinality(T) = k
  BY <1>8, FS_CountingElements DEF ExistsBijection
<1>10. QED
  BY <1>5, <1>9

(***************************************************************************)
(* The selected findings are findings of the verdict, and all open ones    *)
(* are among them (_selected_findings).                                    *)
(***************************************************************************)
LEMMA SelectedFindings ==
  ASSUME NEW v \in Verdicts
  PROVE  /\ Selected(v) \subseteq v.findings
         /\ Open(v) = {f \in Selected(v) : f.severity = "DECISION_REQUIRED"}
<1> DEFINE all == v.findings \ Prioritised(v)
           size == IF Cardinality(all) <= MaxWarnings
                     THEN Cardinality(all) ELSE MaxWarnings
<1>1. IsFiniteSet(all) /\ Cardinality(all) \in Nat
  BY VerdictAssumption, FS_Subset, FS_CardinalityType
<1>2. size \in Nat /\ size <= Cardinality(all)
  BY <1>1, RequestAssumption
<1>3. \E some \in SUBSET all : Cardinality(some) = size
  <2> HIDE DEF all, size
  <2>1. QED
    BY <1>1, <1>2, SubsetOfSize
<1>4. Warnings(v) = CHOOSE some \in SUBSET all : Cardinality(some) = size
  BY Zenon DEF Warnings
<1>5. Warnings(v) \in SUBSET all
  <2> HIDE DEF all, size
  <2>1. QED
    BY <1>3, <1>4
<1>6. QED
  BY <1>5 DEF Selected, Prioritised, Open

(***************************************************************************)
(* An explanation that fits two verdicts of the run was made for one: its  *)
(* finding ids name the rows of their open findings (_existing).           *)
(***************************************************************************)
LEMMA FitsOneVerdict ==
  ASSUME NEW v \in Verdicts, NEW w \in Verdicts, NEW e,
         Projectable(v), Projectable(w),
         e.findings = Ids(Selected(v)), e.findings = Ids(Selected(w))
  PROVE  Open(v) = Open(w)
<1>1. \A x \in Verdicts : Selected(x) \subseteq x.findings
  BY SelectedFindings
<1>2. ASSUME NEW x \in Verdicts, NEW y \in Verdicts,
             Projectable(x), Projectable(y),
             Ids(Selected(x)) = Ids(Selected(y))
      PROVE  Selected(x) \subseteq Selected(y)
  <2> SUFFICES ASSUME NEW f \in Selected(x)
               PROVE  f \in Selected(y)
    OBVIOUS
  <2>1. f.id \in Ids(Selected(y))
    BY <1>2 DEF Ids
  <2>2. PICK g \in Selected(y) : g.id = f.id
    BY <2>1 DEF Ids
  <2>3. f.stored /\ g.stored
    BY <1>2, <2>2 DEF Projectable
  <2>4. f = g
    BY <1>1, <1>2, <2>2, <2>3, VerdictAssumption
  <2>5. QED
    BY <2>2, <2>4
<1>3. Selected(v) \subseteq Selected(w) /\ Selected(w) \subseteq Selected(v)
  BY <1>2
<1>4. QED
  BY <1>3, SelectedFindings

-----------------------------------------------------------------------------
(* What a request is answered with is a reply of the explanation's type.   *)
LEMMA FitsHasType ==
  ASSUME NEW v \in Verdicts, NEW e \in Responses, Grounded(v, e)
  PROVE  Validated(v, e) \in Explained /\ (Projectable(v) => Fits(Validated(v, e), v))
<1>1. Selected(v) \subseteq v.findings
  BY SelectedFindings
<1>2. Ids(Selected(v)) \subseteq Ids(v.findings)
  BY <1>1 DEF Ids
<1>3. Evidence(Selected(v)) \subseteq Evidence(v.findings)
  BY <1>1 DEF Evidence
<1>4. e.findings = Ids(Selected(v)) /\ e.evidence = Evidence(Selected(v))
  BY DEF Grounded
<1>5. e.findings \in SUBSET UNION {Ids(x.findings) : x \in Verdicts}
  BY <1>2, <1>4
<1>6. e.evidence \in SUBSET UNION {Evidence(x.findings) : x \in Verdicts}
  BY <1>3, <1>4
<1>7. Validated(v, e) \in Explained
  BY <1>5, <1>6 DEF Validated, Explained
<1>8. Grounded(v, Validated(v, e))
  BY DEF Grounded, Validated
<1>9. Validated(v, Validated(v, e)) = Validated(v, e)
  BY DEF Validated
<1>10. QED
  BY <1>7, <1>8, <1>9, Zenon DEF Fits

(***************************************************************************)
(* A stored explanation that is grounded in what a request read is served  *)
(* as it is stored, and fits what that request read (_existing).           *)
(***************************************************************************)
LEMMA ServedAsStored ==
  ASSUME IInv, NEW q \in Requests, content.state = "available",
         Projectable(read[q]), Grounded(read[q], content.explanation)
  PROVE  /\ Cached(q) = content
         /\ Fits(content.explanation, read[q])
<1> DEFINE e == content.explanation
<1>1. PICK v \in past : Fits(e, v) /\ content = Available(e)
  BY DEF IInv, AnswerPart, FitsPast
<1>2. v \in Verdicts /\ read[q] \in past /\ read[q] \in Verdicts
  BY DEF IInv, TypeOK
<1> HIDE DEF e
<1>3. e.findings = Ids(Selected(v)) /\ e.findings = Ids(Selected(read[q]))
  BY <1>1 DEF Fits, Grounded, e
<1>4. Open(v) = Open(read[q])
  BY <1>1, <1>2, <1>3, FitsOneVerdict DEF Fits
<1>5. v = read[q]
  BY <1>2, <1>4 DEF IInv, PastPart
<1>6. e = Validated(read[q], e)
  BY <1>1, <1>5 DEF Fits
<1>7. Cached(q) = Available(Validated(read[q], e))
  BY DEF Cached, e
<1>8. QED
  BY <1>1, <1>5, <1>6, <1>7 DEF e

-----------------------------------------------------------------------------
(* A decision leaves every earlier verdict behind (persist_decision).      *)
LEMMA PastStep ==
  ASSUME IInv, [Next]_vars
  PROVE  PastPart'
<1>1. CASE UNCHANGED <<verdict, past>>
  BY <1>1 DEF IInv, PastPart
<1>2. CASE Decide
  <2>1. PICK w \in Verdicts : <<verdict, w>> \in Decided /\ verdict' = w
                              /\ past' = past \cup {w}
    BY <1>2 DEF Decide
  <2>2. Open(w) \subseteq Open(verdict) /\ Open(w) # Open(verdict)
    BY <2>1, VerdictAssumption
  <2>3. \A v \in past : Open(w) \subseteq Open(v) /\ Open(w) # Open(v)
    BY <2>2 DEF IInv, PastPart
  <2>4. QED
    BY <2>1, <2>3 DEF IInv, PastPart
<1>3. [Next]_vars => Decide \/ UNCHANGED <<verdict, past>>
  BY DEF Next, vars, Begin, Enter, Decline, Generate, Lose, Serve, NotFound,
         Reserve, Lost, StoreError, Send, SendAgain, NoExplanation, Explain,
         Complete, Answer, NotCompleted, Fail, Goto, Reply
<1>4. QED
  BY <1>1, <1>2, <1>3

(***************************************************************************)
(* The row is won by one request, which alone asks the provider            *)
(* (reserve_explanation).                                                  *)
(***************************************************************************)
LEMMA AskStep ==
  ASSUME IInv, [Next]_vars
  PROVE  AskPart'
<1> USE DEF IInv, TypeOK, AskPart, AskingStates, AskedOnce, Nothing, Row, Available
<1>1. CASE Decide \/ UNCHANGED vars
  BY <1>1 DEF Decide, vars
<1>2. ASSUME NEW q \in Requests, Begin(q) \/ Enter(q) \/ Decline(q) \/ Lose(q)
      PROVE  AskPart'
  BY <1>2 DEF Begin, Enter, Decline, Lose, Goto, Reply
<1>3. ASSUME NEW q \in Requests, Reserve(q)
      PROVE  AskPart'
  BY <1>3 DEF Reserve, Goto, Vacant
<1>4. ASSUME NEW q \in Requests,
             \/ Serve(q) \/ NotFound(q) \/ Lost(q) \/ StoreError(q)
             \/ Answer(q) \/ Fail(q)
      PROVE  AskPart'
  BY <1>4 DEF Serve, NotFound, Lost, StoreError, Answer, Fail, Goto, Reply
<1>5. ASSUME NEW q \in Requests,
             \/ Send(q) \/ SendAgain(q) \/ NoExplanation(q) \/ Explain(q)
             \/ Complete(q) \/ NotCompleted(q)
      PROVE  AskPart'
  BY <1>5 DEF Send, SendAgain, NoExplanation, Explain, Complete, NotCompleted,
              Goto
<1>6. QED
  BY <1>1, <1>2, <1>3, <1>4, <1>5 DEF Next, Generate

(* One provider call sends at most two requests (explain).                 *)
LEMMA AttemptStep ==
  ASSUME IInv, [Next]_vars
  PROVE  AttemptPart' /\ attempt' \in [Requests -> 0..2]
<1> USE DEF IInv, TypeOK, AttemptPart, EarlyStates
<1>1. CASE Decide \/ UNCHANGED vars
  BY <1>1 DEF Decide, vars
<1>2. ASSUME NEW q \in Requests, Begin(q) \/ Enter(q) \/ Decline(q) \/ Lose(q)
      PROVE  AttemptPart' /\ attempt' = attempt
  BY <1>2 DEF Begin, Enter, Decline, Lose, Goto, Reply
<1>3. ASSUME NEW q \in Requests, Send(q)
      PROVE  AttemptPart' /\ attempt' \in [Requests -> 0..2]
  BY <1>3 DEF Send, Goto
<1>4. ASSUME NEW q \in Requests, SendAgain(q) \/ Reserve(q)
      PROVE  AttemptPart' /\ attempt' = attempt
  BY <1>4 DEF SendAgain, Reserve, Goto, MayRetry
<1>5. ASSUME NEW q \in Requests,
             \/ Serve(q) \/ NotFound(q) \/ Lost(q) \/ StoreError(q)
             \/ Answer(q) \/ Fail(q) \/ NoExplanation(q) \/ Explain(q)
             \/ Complete(q) \/ NotCompleted(q)
      PROVE  AttemptPart' /\ attempt' = attempt
  BY <1>5 DEF Serve, NotFound, Lost, StoreError, Answer, Fail, NoExplanation,
              Explain, Complete, NotCompleted, Goto, Reply
<1>6. QED
  BY <1>1, <1>2, <1>3, <1>4, <1>5 DEF Next, Generate

(***************************************************************************)
(* Whoever is past the reservation has read a verdict that can be          *)
(* explained, and what it stores fits that verdict (_generate_once).       *)
(***************************************************************************)
LEMMA ResponseStep ==
  ASSUME IInv, [Next]_vars
  PROVE  /\ ResponsePart'
         /\ \A q \in Requests :
              pc'[q] \in {"storing", "stored"} => response'[q] \in Explained
<1> DEFINE Typed == \A q \in Requests :
                      pc'[q] \in {"storing", "stored"} => response'[q] \in Explained
<1> USE DEF IInv, TypeOK, ResponsePart, InsideStates, AskingStates, Nothing, Row,
            Available
<1>1. CASE Decide \/ UNCHANGED vars
  BY <1>1 DEF Decide, vars
<1>2. ASSUME NEW q \in Requests, Begin(q) \/ Enter(q) \/ Decline(q) \/ Lose(q)
      PROVE  ResponsePart' /\ Typed
  BY <1>2 DEF Begin, Enter, Decline, Lose, Goto, Reply
<1>3. ASSUME NEW q \in Requests,
             \/ Serve(q) \/ NotFound(q) \/ Lost(q) \/ Answer(q) \/ NotCompleted(q)
             \/ Send(q) \/ SendAgain(q) \/ NoExplanation(q)
      PROVE  ResponsePart' /\ Typed
  BY <1>3 DEF Serve, NotFound, Lost, Answer, NotCompleted, Send, SendAgain,
              NoExplanation, Goto, Reply
<1>4. ASSUME NEW q \in Requests, Reserve(q) \/ StoreError(q) \/ Fail(q)
      PROVE  ResponsePart' /\ Typed
  BY <1>4 DEF Reserve, StoreError, Fail, Vacant, MayFail, Goto, Reply
<1>5. ASSUME NEW q \in Requests, Complete(q)
      PROVE  ResponsePart' /\ Typed
  BY <1>5 DEF Complete, Goto
<1>6. ASSUME NEW q \in Requests, Explain(q)
      PROVE  ResponsePart' /\ Typed
  <2>1. PICK e \in Responses :
          /\ Grounded(read[q], e)
          /\ response' = [response EXCEPT ![q] = Validated(read[q], e)]
    BY <1>6 DEF Explain
  <2>2. read[q] \in Verdicts /\ Projectable(read[q])
    BY <1>6 DEF Explain
  <2>3. /\ Validated(read[q], e) \in Explained
        /\ Fits(Validated(read[q], e), read[q])
    BY <2>1, <2>2, FitsHasType
  <2>4. response' = [x \in DOMAIN response |->
                       IF x = q THEN Validated(read[q], e) ELSE response[x]]
    BY <2>1
  <2>5. pc' = [pc EXCEPT ![q] = "storing"] /\ UNCHANGED <<read, content>>
    BY <1>6 DEF Explain, Goto
  <2>6. DOMAIN response = Requests
    OBVIOUS
  <2>7. response'[q] = Validated(read[q], e)
    BY <2>4, <2>6
  <2>8. \A x \in Requests : x # q => response'[x] = response[x] /\ pc'[x] = pc[x]
    BY <2>4, <2>5, <2>6
  <2>9. pc'[q] = "storing" /\ pc[q] = "awaiting"
    BY <1>6, <2>5 DEF Explain
  <2>10. Typed
    BY <2>3, <2>7, <2>8
  <2>11. ASSUME NEW x \in Requests
         PROVE  /\ pc'[x] \in InsideStates => Projectable(read'[x])
                /\ pc'[x] \in {"storing", "stored"} => Fits(response'[x], read'[x])
                /\ pc'[x] = "stored" => content' = Available(response'[x])
    BY <2>3, <2>5, <2>7, <2>8, <2>9
  <2>12. QED
    BY <2>10, <2>11
<1>7. QED
  BY <1>1, <1>2, <1>3, <1>4, <1>5, <1>6 DEF Next, Generate

(***************************************************************************)
(* The row and every answer agree: a pending row is only resolved while    *)
(* nothing has been answered, and a resolved one is never changed          *)
(* (_transition_explanation).                                              *)
(***************************************************************************)
(* A resolved row is never changed, so what was answered stays what the    *)
(* row holds (_transition_explanation).                                    *)
(***************************************************************************)
LEMMA AnswerStep ==
  ASSUME IInv, [Next]_vars
  PROVE  AnswerPart'
<1> USE DEF IInv, TypeOK, AnswerPart
<1> DEFINE Kept == /\ UNCHANGED answer
                   /\ past \subseteq past'
                   /\ \A q \in Requests :
                        pc[q] = "answered" => pc'[q] = pc[q] /\ read'[q] = read[q]
<1>1. ASSUME Kept, UNCHANGED content
      PROVE  AnswerPart'
  BY <1>1 DEF FitsPast
<1>2. ASSUME NEW q \in Requests, NEW reply, Reply(q, reply), UNCHANGED content,
             pc[q] # "answered",
             \/ reply = UnavailableReply
             \/ /\ content.state = "available" /\ reply = content
                /\ Fits(reply.explanation, read[q])
      PROVE  AnswerPart'
  BY <1>2 DEF Reply, FitsPast, UnavailableReply, Row
<1>3. ASSUME NEW row, content' = row, row.state # "available",
             content.state # "available", UNCHANGED <<read, past>>,
             \A q \in Requests : answer'[q].state = "available" => answer[q].state = "available"
      PROVE  AnswerPart'
  BY <1>3
<1>4. CASE Decide \/ UNCHANGED vars
  BY <1>1, <1>4 DEF Decide, vars
<1>5. ASSUME NEW q \in Requests,
             \/ Begin(q) \/ Enter(q) \/ Lose(q) \/ NotFound(q) \/ Lost(q)
             \/ Send(q) \/ SendAgain(q) \/ NoExplanation(q) \/ Explain(q)
             \/ NotCompleted(q)
      PROVE  AnswerPart'
  <2>1. Kept /\ UNCHANGED content
    BY <1>5 DEF Begin, Enter, Lose, NotFound, Lost, Send, SendAgain,
                NoExplanation, Explain, NotCompleted, Goto, Active
  <2>2. QED
    BY <1>1, <2>1
<1>6. ASSUME NEW q \in Requests, Decline(q)
      PROVE  AnswerPart'
  BY <1>2, <1>6 DEF Decline
<1>7. ASSUME NEW q \in Requests, Serve(q)
      PROVE  AnswerPart'
  <2>1. Projectable(read[q])
    BY <1>7 DEF Serve, ResponsePart, InsideStates, AskingStates
  <2>2. CASE content.state = "available" /\ Grounded(read[q], content.explanation)
    <3>1. Cached(q) = content /\ Fits(content.explanation, read[q])
      BY <2>1, <2>2, ServedAsStored
    <3>2. QED
      BY <1>2, <1>7, <2>2, <3>1 DEF Serve
  <2>3. CASE ~(content.state = "available" /\ Grounded(read[q], content.explanation))
    BY <1>2, <1>7, <2>3 DEF Serve, Cached
  <2>4. QED
    BY <2>2, <2>3
<1>8. ASSUME NEW q \in Requests, Reserve(q)
      PROVE  AnswerPart'
  BY <1>3, <1>8 DEF Reserve, Vacant, Nothing, Row, Goto
<1>9. ASSUME NEW q \in Requests, StoreError(q)
      PROVE  AnswerPart'
  <2>1. CASE UNCHANGED content
    BY <1>2, <1>9, <2>1 DEF StoreError
  <2>2. CASE Vacant /\ content' = Row("pending")
    BY <1>3, <1>9, <2>2 DEF StoreError, Vacant, Nothing, Row, Reply,
                            UnavailableReply
  <2>3. QED
    BY <1>9, <2>1, <2>2 DEF StoreError
<1>10. ASSUME NEW q \in Requests, Fail(q)
       PROVE  AnswerPart'
  <2>1. CASE UNCHANGED content
    BY <1>2, <1>10, <2>1 DEF Fail
  <2>2. CASE MayFail /\ content' = Row("unavailable")
    BY <1>3, <1>10, <2>2 DEF Fail, MayFail, Row, Reply, UnavailableReply
  <2>3. QED
    BY <1>10, <2>1, <2>2 DEF Fail
<1>11. ASSUME NEW q \in Requests, Complete(q)
       PROVE  AnswerPart'
  <2>1. /\ content = Row("pending") /\ content' = Available(response[q])
        /\ UNCHANGED <<answer, read, past>>
        /\ Fits(response[q], read[q]) /\ read[q] \in past
    BY <1>11 DEF Complete, Goto, ResponsePart
  <2>2. \A x \in Requests : answer[x].state # "available"
    BY <2>1 DEF Row
  <2>3. FitsPast(content)'
    BY <2>1 DEF FitsPast, Available
  <2>4. QED
    BY <2>1, <2>2, <2>3
<1>12. ASSUME NEW q \in Requests, Answer(q)
       PROVE  AnswerPart'
  <2>1. content = Available(response[q]) /\ Fits(response[q], read[q])
    BY <1>12 DEF Answer, ResponsePart
  <2>2. QED
    BY <1>2, <1>12, <2>1 DEF Answer, Available
<1>13. QED
  BY <1>4, <1>5, <1>6, <1>7, <1>8, <1>9, <1>10, <1>11, <1>12 DEF Next, Generate

(* Every step keeps the types.                                             *)
LEMMA TypeStep ==
  ASSUME IInv, [Next]_vars
  PROVE  TypeOK'
<1> USE DEF IInv, TypeOK
<1>1. attempt' \in [Requests -> 0..2]
  BY AttemptStep
<1>2. \A q \in Requests :
        pc'[q] \in {"storing", "stored"} => response'[q] \in Explained
  BY ResponseStep
<1>3. verdict' \in past' /\ past' \subseteq Verdicts /\ read' \in [Requests -> past']
  <2>1. CASE Decide
    BY <2>1 DEF Decide
  <2>2. ASSUME NEW q \in Requests, Begin(q)
        PROVE  verdict' = verdict /\ past' = past /\ read' \in [Requests -> past]
    BY <2>2 DEF Begin
  <2>3. [Next]_vars => \/ Decide \/ (\E q \in Requests : Begin(q))
                       \/ UNCHANGED <<verdict, past, read>>
    BY DEF Next, vars, Enter, Decline, Generate, Lose, Serve, NotFound,
           Reserve, Lost, StoreError, Send, SendAgain, NoExplanation, Explain,
           Complete, Answer, NotCompleted, Fail, Goto, Reply
  <2>4. QED
    BY <2>1, <2>2, <2>3
<1>4. lock' \in [Processes -> Requests \cup {NoOne}]
  <2>1. ASSUME NEW q \in Requests
        PROVE  Left(q) \in [Processes -> Requests \cup {NoOne}]
    BY DEF Left
  <2>2. ASSUME NEW q \in Requests, Enter(q)
        PROVE  lock' \in [Processes -> Requests \cup {NoOne}]
    BY <2>2 DEF Enter
  <2>3. [Next]_vars => \/ \E q \in Requests : Enter(q) \/ lock' = Left(q)
                       \/ UNCHANGED lock
    BY DEF Next, vars, Decide, Begin, Decline, Generate, Lose, Serve, NotFound,
           Reserve, Lost, StoreError, Send, SendAgain, NoExplanation, Explain,
           Complete, Answer, NotCompleted, Fail, Goto, Reply
  <2>4. QED
    BY <2>1, <2>2, <2>3
<1>5. /\ pc' \in [Requests -> {"idle", "queued", "loading", "reserving",
                             "reloading", "asking", "awaiting", "storing",
                             "stored", "failing", "answered", "lost"}]
      /\ askers' \subseteq Requests
      /\ DOMAIN response' = Requests /\ DOMAIN answer' = Requests
  BY DEF Next, vars, Decide, Begin, Enter, Decline, Generate, Lose, Serve,
         NotFound, Reserve, Lost, StoreError, Send, SendAgain, NoExplanation,
         Explain, Complete, Answer, NotCompleted, Fail, Goto, Reply
<1>6. IsRow(content, {"none", "pending", "unavailable"})'
  <2>1. ASSUME NEW q \in Requests, Complete(q)
        PROVE  IsRow(content, {"none", "pending", "unavailable"})'
    BY <2>1 DEF Complete, IsRow, Row, Available
  <2>2. [Next]_vars => \/ \E q \in Requests : Complete(q)
                       \/ content' \in {content, Row("pending"), Row("unavailable")}
    BY DEF Next, vars, Decide, Begin, Enter, Decline, Generate, Lose, Serve,
           NotFound, Reserve, Lost, StoreError, Send, SendAgain, NoExplanation,
           Explain, Answer, NotCompleted, Fail, Goto, Reply
  <2>3. ASSUME NEW row \in {Row("pending"), Row("unavailable")}
        PROVE  IsRow(row, {"none", "pending", "unavailable"})
    BY DEF IsRow, Row
  <2>4. QED
    BY <2>1, <2>2, <2>3
<1>7. \A q \in Requests : IsRow(answer[q], {"none", "unavailable"})'
  <2>1. AnswerPart'
    BY AnswerStep
  <2>2. ASSUME NEW q \in Requests, answer'[q].state # "available"
        PROVE  IsRow(answer[q], {"none", "unavailable"})'
    <3>1. answer'[q] \in {answer[q], UnavailableReply}
      BY <2>2 DEF Next, vars, Decide, Begin, Enter, Decline, Generate, Lose,
           Serve, NotFound, Reserve, Lost, StoreError, Send, SendAgain,
           NoExplanation, Explain, Complete, Answer, NotCompleted, Fail, Goto,
           Reply, Cached, Available
    <3>2. IsRow(UnavailableReply, {"none", "unavailable"})
      BY DEF IsRow, UnavailableReply, Row
    <3>3. QED
      BY <3>1, <3>2
  <2>3. ASSUME NEW q \in Requests, answer'[q].state = "available"
        PROVE  IsRow(answer[q], {"none", "unavailable"})'
    BY <1>6, <2>1, <2>3 DEF AnswerPart, IsRow, Row
  <2>4. QED
    BY <2>2, <2>3
<1>8. QED
  BY <1>1, <1>2, <1>3, <1>4, <1>5, <1>6, <1>7

(* The invariant holds initially.                                          *)
LEMMA InitInv == Init => IInv
<1> SUFFICES ASSUME Init
             PROVE  IInv
  OBVIOUS
<1>1. TypeOK
  BY VerdictAssumption DEF Init, TypeOK, IsRow, Row, Nothing
<1>2. PastPart /\ AskPart /\ AttemptPart
  BY DEF Init, PastPart, AskPart, AttemptPart, AskedOnce, AskingStates
<1>3. ResponsePart /\ AnswerPart
  BY DEF Init, ResponsePart, AnswerPart, InsideStates, AskingStates, Nothing, Row
<1>4. QED
  BY <1>1, <1>2, <1>3 DEF IInv

-----------------------------------------------------------------------------
(* The inductive invariant holds in every state.                           *)
THEOREM Invariance == Spec => []IInv
<1>1. IInv /\ [Next]_vars => IInv'
  BY TypeStep, PastStep, AskStep, AttemptStep, ResponseStep, AnswerStep DEF IInv
<1>2. QED
  BY InitInv, <1>1, PTL DEF Spec

(* Every state of the explanation of a run has its type.                   *)
THEOREM TypeCorrect == Spec => []TypeOK
<1>1. IInv => TypeOK
  BY DEF IInv
<1>2. QED
  BY Invariance, <1>1, PTL

(***************************************************************************)
(* The provider is called at most once for a run, for any number of        *)
(* requests and processes and whatever fails (reserve_explanation).        *)
(***************************************************************************)
THEOREM AskedOnceHolds == Spec => []AskedOnce
<1>1. IInv => AskedOnce
  BY DEF IInv, AskPart
<1>2. QED
  BY Invariance, <1>1, PTL

(***************************************************************************)
(* What any request was answered is what the row still holds               *)
(* (_existing, _transition_explanation).                                   *)
(***************************************************************************)
THEOREM OneExplanationHolds == Spec => []OneExplanation
<1>1. IInv => OneExplanation
  BY DEF IInv, AnswerPart, OneExplanation
<1>2. QED
  BY Invariance, <1>1, PTL

(***************************************************************************)
(* An explanation that passes the validator has each finding of the        *)
(* verdict in a group of its severity and under the action it requires     *)
(* (ExplanationValidator).                                                 *)
(***************************************************************************)
LEMMA FittingExplains ==
  ASSUME NEW e, NEW v, Fits(e, v)
  PROVE  Explains(e, v)
<1>1. /\ e.findings = Ids(Selected(v))
      /\ Partition(v, e.groups) /\ Partition(v, e.actions)
      /\ \A g \in e.groups : \A f \in Named(v, g.findings) : f.severity = g.severity
      /\ \A a \in e.actions : \A f \in Named(v, a.findings) : f.action = a.action
  BY DEF Fits, Grounded
<1>2. e.status = v.status
  BY DEF Fits, Validated
<1>3. ASSUME NEW parts, Partition(v, parts), NEW f \in Selected(v)
      PROVE  \E p \in parts : /\ f.id \in p.findings
                              /\ f \in Named(v, p.findings)
                              /\ f.evidence \subseteq p.evidence
  <2>1. f.id \in UNION {p.findings : p \in parts}
    BY <1>3 DEF Partition, Ids
  <2>2. PICK p \in parts : f.id \in p.findings
    BY <2>1
  <2>3. f \in Named(v, p.findings)
    BY <2>2 DEF Named
  <2>4. f.evidence \subseteq Evidence(Named(v, p.findings))
    BY <2>3 DEF Evidence
  <2>5. QED
    BY <1>3, <2>2, <2>3, <2>4 DEF Partition
<1>4. ASSUME NEW f \in Selected(v)
      PROVE  /\ \E g \in e.groups : /\ f.id \in g.findings
                                    /\ g.severity = f.severity
                                    /\ f.evidence \subseteq g.evidence
             /\ \E a \in e.actions : f.id \in a.findings /\ a.action = f.action
  <2>1. PICK g \in e.groups : /\ f.id \in g.findings
                              /\ f \in Named(v, g.findings)
                              /\ f.evidence \subseteq g.evidence
    BY <1>1, <1>3
  <2>2. PICK a \in e.actions : f.id \in a.findings /\ f \in Named(v, a.findings)
    BY <1>1, <1>3
  <2>3. QED
    BY <1>1, <2>1, <2>2
<1>5. QED
  BY <1>1, <1>2, <1>4 DEF Explains, Ids

(***************************************************************************)
(* An answer explains the very verdict its request read, although it may   *)
(* have been made for another request, before or after a decision          *)
(* (_existing, ExplanationValidator).                                      *)
(***************************************************************************)
THEOREM AnswersItsVerdictHolds == Spec => []AnswersItsVerdict
<1>1. IInv => AnswersItsVerdict
  BY FittingExplains DEF IInv, AnswerPart, AnswersItsVerdict
<1>2. QED
  BY Invariance, <1>1, PTL
=============================================================================
