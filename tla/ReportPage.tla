----------------------------- MODULE ReportPage -----------------------------
(***************************************************************************)
(* The report of one analysis run in one tab of the browser: App.tsx with  *)
(* DecisionForm and AIExplanation, over the cookies and the sessions of    *)
(* module Sessions.                                                        *)
(*                                                                         *)
(* The tab loads the run and, once, the CSRF token of the session the      *)
(* browser is in.  The user records decisions and asks for an explanation, *)
(* each by a request of its own, while other people decide, the tab loads  *)
(* the run again, and the browser signs in, as somebody else too, or out.  *)
(* What the server makes of a decision and of a question is the subject of *)
(* Decisions and Explanations: here it is what they promise.               *)
(***************************************************************************)
EXTENDS Sessions, FiniteSets

CONSTANTS
  Findings,   \* the findings of the run that need a decision
  Bounds      \* bounds on what happens: records of the callbacks that are
              \* sent, the time that passes, the times the page is opened,
              \* the forms that are used, the questions, and the decisions
              \* of other people

ASSUME PageAssumption ==
  Bounds \subseteq [callbacks : SUBSET Callbacks, ticks : Nat, pages : Nat,
                    forms : SUBSET Findings, questions : Nat, others : Nat]

VARIABLES
  decided,      \* the findings of the run that are decided, and how
  token,        \* csrfQuery: the session the tab's CSRF token is of
  tokenLoad,    \* its request
  report,       \* analysisQuery: the run as the tab shows it
  reportLoad,   \* its request
  form,         \* the decision form of each finding
  post,         \* its request
  explanation,  \* explanationMutation
  question,     \* its request
  acked,        \* history: the decisions this page was told are recorded
  left          \* what may still happen of the bounds

tab == <<token, tokenLoad, report, reportLoad, form, post, explanation,
         question, acked>>
pageVars == <<decided, tab, left>>
vars == <<sessionVars, pageVars>>

NoRequest == [pc |-> "none"]
Sent      == [pc |-> "sent", cookie |-> cookie]
Answer(a) == [pc |-> "answered", answer |-> a]
Failure   == [state |-> "failed"]
Pending   == [state |-> "pending"]
Closed    == [state |-> "closed"]

Decided == DOMAIN decided

Init ==
  /\ SessionInit
  /\ decided = [f \in {} |-> None]
  /\ token = Closed /\ tokenLoad = NoRequest
  /\ report = Closed /\ reportLoad = NoRequest
  /\ form = [f \in Findings |-> "idle"]
  /\ post = [f \in Findings |-> NoRequest]
  /\ explanation = [state |-> "idle"] /\ question = NoRequest
  /\ acked = {}
  /\ left \in Bounds

Use(bound) == left[bound] > 0 /\ left' = [left EXCEPT ![bound] = @ - 1]

-----------------------------------------------------------------------------
(***************************************************************************)
(* Loading.                                                                *)
(***************************************************************************)
AdmittedByCookie(request) == Valid(request.cookie)

(* enforce_csrf: the session the cookie names is valid and the token of    *)
(* the request is the one derived from that session.                       *)
Admitted(request) == Valid(request.cookie) /\ request.token = request.cookie

(* The token is loaded until there is one and never again: staleTime.      *)
LoadToken ==
  /\ token \in {Pending, Failure} /\ tokenLoad = NoRequest
  /\ tokenLoad' = Sent
  /\ UNCHANGED <<decided, token, report, reportLoad, form, post, explanation,
                 question, acked, left>>

(* csrf_bootstrap.                                                         *)
ServeToken ==
  /\ tokenLoad.pc = "sent"
  /\ \/ /\ Valid(tokenLoad.cookie)
        /\ tokenLoad' = Answer([state |-> "shown", of |-> tokenLoad.cookie])
     \/ tokenLoad' = Answer(Failure)
  /\ UNCHANGED <<decided, token, report, reportLoad, form, post, explanation,
                 question, acked, left>>

TokenLoaded ==
  /\ tokenLoad.pc = "answered"
  /\ token' = tokenLoad.answer /\ tokenLoad' = NoRequest
  /\ UNCHANGED <<decided, report, reportLoad, form, post, explanation,
                 question, acked, left>>

(* The run is loaded at first and whenever the window gets the focus; a    *)
(* request that is on its way is not repeated.                             *)
LoadReport ==
  /\ report # Closed /\ reportLoad = NoRequest
  /\ reportLoad' = Sent
  /\ UNCHANGED <<decided, token, tokenLoad, report, form, post, explanation,
                 question, acked, left>>

(* The route of the run answers with its decisions as of then, and whether *)
(* its status is NEEDS_DECISION: a release blocker or age may end that.  A *)
(* request that fails is repeated a few times.                             *)
ServeReport ==
  /\ reportLoad.pc = "sent"
  /\ \/ /\ Valid(reportLoad.cookie)
        /\ \E needs \in BOOLEAN :
             reportLoad' = Answer([state |-> "shown", decided |-> Decided,
                                   needs |-> needs])
     \/ reportLoad' \in {Answer(Failure), Sent}
  /\ UNCHANGED <<decided, token, tokenLoad, report, form, post, explanation,
                 question, acked, left>>

(* The decision forms a page has for its report.                           *)
Mounted(t, r) ==
  IF t.state = "shown" /\ r.state = "shown" /\ r.needs
    THEN Findings \ r.decided ELSE {}

(* A form that is not shown any more loses its state.                      *)
Remounted(forms) == [f \in Findings |-> IF f \in forms THEN form[f] ELSE "idle"]

ReportLoaded ==
  /\ reportLoad.pc = "answered"
  /\ report' = reportLoad.answer /\ reportLoad' = NoRequest
  /\ form' = Remounted(Mounted(token, report'))
  /\ UNCHANGED <<decided, token, tokenLoad, post, explanation, question, acked,
                 left>>

-----------------------------------------------------------------------------
(***************************************************************************)
(* Deciding: DecisionForm.submit.                                          *)
(***************************************************************************)
Submit(f) ==
  /\ f \in Mounted(token, report) \cap left.forms
  /\ form[f] # "saving" /\ post[f] = NoRequest
  /\ form' = [form EXCEPT ![f] = "saving"]
  /\ post' = [post EXCEPT ![f] =
       [pc |-> "sent", cookie |-> cookie, token |-> token.of, live |-> TRUE]]
  /\ UNCHANGED <<decided, token, tokenLoad, report, reportLoad, explanation,
                 question, acked, left>>

(* The decision of a request: it is its session's user's.                  *)
Recorded(f, request) ==
  [g \in Decided \cup {f} |->
     IF g = f THEN [user |-> User(request.cookie), token |-> request.token]
              ELSE decided[g]]

(* The decision is recorded unless the finding has one or the request is   *)
(* refused.  The answer, or an error in its place, is on its way.          *)
Decide(f) ==
  /\ post[f].pc = "sent"
  /\ \/ /\ Admitted(post[f]) /\ f \notin Decided
        /\ decided' = Recorded(f, post[f])
        /\ \E ok \in BOOLEAN :
             post' = [post EXCEPT ![f] =
                        [pc |-> "answered", ok |-> ok, live |-> post[f].live]]
     \/ /\ UNCHANGED decided
        /\ post' = [post EXCEPT ![f] =
                      [pc |-> "answered", ok |-> FALSE, live |-> post[f].live]]
  /\ UNCHANGED <<token, tokenLoad, report, reportLoad, form, explanation,
                 question, acked, left>>

ResetShown == explanation' = [state |-> "idle"] /\ UNCHANGED question
RefetchUnlessLoading ==
  reportLoad' = IF reportLoad = NoRequest THEN Sent ELSE reportLoad

(* onDecisionRecorded: reset forgets the explanation and the question on   *)
(* its way; refetch replaces a load that is on its way.                    *)
Reset   == explanation' = [state |-> "idle"] /\ question' = NoRequest
Refetch == reportLoad' = Sent

ToldSuccess(f, outcome) ==
  form' = [form EXCEPT ![f] = IF outcome = "recorded" THEN outcome ELSE @]

(* The form is told the outcome, and may be used again.                    *)
Told(f, outcome) ==
  form' = [form EXCEPT ![f] = IF @ = "saving" THEN outcome ELSE @]

(* A form that was taken from the page meanwhile still calls it.           *)
PostAnswered(f) ==
  /\ post[f].pc = "answered" /\ post[f].live
  /\ post' = [post EXCEPT ![f] = NoRequest]
  /\ IF post[f].ok
       THEN /\ Told(f, "recorded")
            /\ acked' = acked \cup {f}
            /\ Reset /\ Refetch
       ELSE /\ Told(f, "failed")
            /\ UNCHANGED <<acked, explanation, question, reportLoad>>
  /\ UNCHANGED <<decided, token, tokenLoad, report, left>>

(* Another user decides, from a page of his own.                           *)
OtherDecides(f) ==
  /\ f \notin Decided
  /\ Use("others")
  /\ decided' = [g \in Decided \cup {f} |->
                   IF g = f THEN [user |-> None, token |-> None] ELSE decided[g]]
  /\ UNCHANGED tab

-----------------------------------------------------------------------------
(***************************************************************************)
(* Asking for an explanation: the button is there while the mutation is    *)
(* idle.                                                                   *)
(***************************************************************************)
Ask ==
  /\ token.state = "shown" /\ report.state = "shown"
  /\ explanation.state = "idle"
  /\ Use("questions")
  /\ explanation' = [state |-> "loading"]
  /\ question' = [pc |-> "sent", cookie |-> cookie, token |-> token.of]
  /\ UNCHANGED <<decided, token, tokenLoad, report, reportLoad, form, post,
                 acked>>

(* create_explanation: what it explains is the verdict it reads.           *)
Explain ==
  /\ question.pc = "sent"
  /\ \/ /\ Admitted(question)
        /\ question' = Answer([state |-> "available", decided |-> Decided])
     \/ question' = Answer([state |-> "unavailable"])
  /\ UNCHANGED <<decided, token, tokenLoad, report, reportLoad, form, post,
                 explanation, acked, left>>

Explained ==
  /\ question.pc = "answered"
  /\ explanation' = question.answer /\ question' = NoRequest
  /\ UNCHANGED <<decided, token, tokenLoad, report, reportLoad, form, post,
                 acked, left>>

(* The user opens the page, or loads it again: the requests of the page    *)
(* before go on without it.                                                *)
OpenPage ==
  /\ Use("pages")
  /\ token' = Pending /\ tokenLoad' = NoRequest
  /\ report' = Pending /\ reportLoad' = NoRequest
  /\ form' = [f \in Findings |-> "idle"]
  /\ post' = [f \in Findings |-> IF post[f].pc = "sent"
                                   THEN [post[f] EXCEPT !.live = FALSE]
                                   ELSE NoRequest]
  /\ Reset
  /\ acked' = {}
  /\ UNCHANGED decided

(* Nobody waits for the answer.                                            *)
PostForgotten(f) ==
  /\ post[f].pc = "answered" /\ ~post[f].live
  /\ post' = [post EXCEPT ![f] = NoRequest]
  /\ UNCHANGED <<decided, token, tokenLoad, report, reportLoad, form,
                 explanation, question, acked, left>>

-----------------------------------------------------------------------------
PageNext ==
  \/ LoadToken \/ ServeToken \/ TokenLoaded
  \/ LoadReport \/ ServeReport \/ ReportLoaded
  \/ \E f \in Findings :
       Submit(f) \/ Decide(f) \/ PostAnswered(f) \/ PostForgotten(f)
                 \/ OtherDecides(f)
  \/ Ask \/ Explain \/ Explained
  \/ OpenPage

Signing ==
  /\ SessionNext
  /\ clock' <= left.ticks
  /\ \A c \in Callbacks \ left.callbacks : callback'[c] = callback[c]
  /\ \A l \in Logins : login'[l] # login[l] =>
       \E c \in left.callbacks : LoginOf[c] = l

Next ==
  \/ Signing /\ UNCHANGED pageVars
  \/ PageNext /\ UNCHANGED sessionVars

Spec == Init /\ [][Next]_vars

(* The server or the network ends every request, and the browser handles   *)
(* what it is given.  Nobody has to decide, to ask or to sign in.          *)
FairSpec ==
  /\ Spec
  /\ \A f \in Findings :
       WF_vars((Decide(f) \/ PostAnswered(f)) /\ UNCHANGED sessionVars)
  /\ WF_vars((Explain \/ Explained) /\ UNCHANGED sessionVars)

-----------------------------------------------------------------------------
(***************************************************************************)
(* Properties.                                                             *)
(***************************************************************************)
(* Only a form the page shows has a state, and a question is on its way    *)
(* exactly while the page says so.                                         *)
TypeOK ==
  /\ SessionTypeOK
  /\ Decided \subseteq Findings
  /\ decided \in [Decided -> [user : {Account[l] : l \in Logins} \cup {None},
                              token : Callbacks \cup {None}]]
  /\ token \in {Closed, Pending, Failure} \cup [state : {"shown"}, of : Callbacks]
  /\ report \in {Closed, Pending, Failure}
                 \cup [state : {"shown"}, decided : SUBSET Findings,
                        needs : BOOLEAN]
  /\ form \in [Findings -> {"idle", "saving", "recorded", "failed"}]
  /\ \A f \in Findings : form[f] # "idle" => f \in Mounted(token, report)
  /\ explanation \in [state : {"idle", "loading", "unavailable"}]
                      \cup [state : {"available"}, decided : SUBSET Findings]
  /\ explanation.state = "loading" <=> question # NoRequest
  /\ acked \subseteq Decided

(* A decision is recorded as that of the user whose token the page loaded, *)
(* whoever the browser is signed in as when it is made or when it arrives. *)
DecisionIsOfThePage ==
  \A f \in Decided :
    decided[f].token # None => decided[f].user = User(decided[f].token)

(* The explanation a page shows was given after every decision the page    *)
(* has been told of: an answer that was on its way is not shown.           *)
ExplanationFollowsDecisions ==
  explanation.state = "available" => acked \subseteq explanation.decided

(* Once a page that was told its decision is recorded loads nothing, the   *)
(* report it shows has the decision: the load that was on its way when the *)
(* decision was made is not what it shows.                                 *)
RecordedIsShown ==
  report.state = "shown" /\ reportLoad = NoRequest => acked \subseteq report.decided

(* No form stays disabled, and no page waits for an explanation for ever,  *)
(* whatever fails.                                                         *)
PageSettles ==
  /\ \A f \in Findings : form[f] = "saving" ~> form[f] # "saving"
  /\ explanation.state = "loading" ~> explanation.state # "loading"
=============================================================================
