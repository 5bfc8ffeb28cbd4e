-------------------------- MODULE ReportPageProofs --------------------------
(***************************************************************************)
(* Proofs about ReportPage and the Sessions below it, for any number of    *)
(* logins, callbacks and findings, and any lifetimes.                      *)
(*                                                                         *)
(* A callback holds its login from the moment it has taken the state out   *)
(* of the table.  The state is stored once, so there is no second holder,  *)
(* and a session is only ever opened by the holder.                        *)
(***************************************************************************)
EXTENDS ReportPage, TLAPS

Holds(c) == callback[c].pc = "exchange" \/ c \in opened

(* A state in the table is as old as its login.                            *)
StatePart ==
  \A r \in states : login[r.login] # "new"
                     /\ r.expires = begun[r.login] + StateLife

CallbackPart ==
  \A c \in Callbacks :
    /\ callback[c].pc # "new" => login[LoginOf[c]] = "redirected"
    /\ c \in opened => callback[c].pc # "new"

(* A holder came in time and with the binding of its login, whose state is *)
(* gone from the table, and nobody else holds that login.                  *)
HolderPart ==
  /\ \A c \in Callbacks : Holds(c) =>
       /\ callback[c].binding = LoginOf[c]
       /\ callback[c].now < begun[LoginOf[c]] + StateLife
       /\ \A r \in states : r.login # LoginOf[c]
  /\ \A c, d \in Callbacks :
       Holds(c) /\ Holds(d) /\ LoginOf[c] = LoginOf[d] => c = d

(* The sessions are those the callbacks opened.                            *)
SessionPart ==
  \A r \in sessions : /\ r.token \in opened
                      /\ r.expires = callback[r.token].now + SessionLife

SessionInv ==
  SessionTypeOK /\ StatePart /\ CallbackPart /\ HolderPart /\ SessionPart

-----------------------------------------------------------------------------
(***************************************************************************)
(* Signing in and out.                                                     *)
(***************************************************************************)
LEMMA SessionsStart ==
  ASSUME SessionInit
  PROVE  SessionInv
<1>1. SessionTypeOK
  <2>1. 0 \in Nat /\ 0 \in 0..MaxClock
    BY SessionsAssumption
  <2>2. callback = [c \in Callbacks |-> [pc |-> "new", now |-> 0, binding |-> None]]
    BY DEF SessionInit
  <2>3. callback \in [Callbacks ->
          [pc : {"new", "consume", "exchange", "signed in", "failed", "done"},
           now : 0..MaxClock, binding : Logins \cup {None}]]
    BY <2>1, <2>2
  <2>4. begun \in [Logins -> 0..MaxClock]
    BY <2>1 DEF SessionInit
  <2>5. QED
    BY <2>1, <2>3, <2>4 DEF SessionInit, SessionTypeOK
<1>2. \A c \in Callbacks : callback[c].pc = "new" /\ ~Holds(c)
  BY DEF SessionInit, Holds
<1>3. StatePart /\ CallbackPart /\ HolderPart /\ SessionPart
  BY <1>2 DEF SessionInit, StatePart, CallbackPart, HolderPart, SessionPart
<1>4. QED
  BY <1>1, <1>3 DEF SessionInv

(* The types of what the rows and the callbacks hold.                      *)
LEMMA SessionFields ==
  ASSUME SessionTypeOK
  PROVE  /\ \A r \in states : r.login \in Logins /\ r.expires \in Nat
         /\ \A r \in sessions : r.token \in Callbacks /\ r.expires \in Nat
         /\ \A c \in Callbacks :
              /\ callback[c].now \in 0..MaxClock /\ callback[c].now \in Nat
              /\ callback[c].binding \in Logins \cup {None}
              /\ LoginOf[c] \in Logins
         /\ \A l \in Logins : begun[l] \in Nat
         /\ clock \in Nat
<1>1. 0..MaxClock \subseteq Nat
  BY SessionsAssumption
<1>2. \A r \in states : r.login \in Logins /\ r.expires \in Nat
  BY DEF SessionTypeOK
<1>3. \A r \in sessions : r.token \in Callbacks /\ r.expires \in Nat
  BY DEF SessionTypeOK
<1>4. \A c \in Callbacks : callback[c].now \in 0..MaxClock
                          /\ callback[c].binding \in Logins \cup {None}
  BY DEF SessionTypeOK
<1>5. \A l \in Logins : begun[l] \in 0..MaxClock
  BY DEF SessionTypeOK
<1>6. clock \in 0..MaxClock
  BY DEF SessionTypeOK
<1>7. QED
  BY <1>1, <1>2, <1>3, <1>4, <1>5, <1>6, SessionsAssumption

(* A new state is of a login that no callback has come for.                *)
LEMMA SaveStateKeeps ==
  ASSUME SessionInv, NEW l \in Logins, SaveState(l)
  PROVE  SessionInv'
<1>1. SessionTypeOK'
  <2>1. clock + StateLife \in Nat
    BY SessionsAssumption, SessionFields DEF SessionInv
  <2>2. StateRow(l) \in [login : Logins, expires : Nat]
    BY <2>1 DEF StateRow
  <2>3. begun' \in [Logins -> 0..MaxClock]
    BY DEF SessionInv, SessionTypeOK, SaveState
  <2>4. login' \in [Logins -> {"new", "saved", "failed", "redirected"}]
    BY DEF SessionInv, SessionTypeOK, SaveState
  <2>5. QED
    BY <2>2, <2>3, <2>4 DEF SessionInv, SessionTypeOK, SaveState, browser
<1>2. \A c \in Callbacks : LoginOf[c] = l => ~Holds(c)
  BY SessionsAssumption
     DEF SessionInv, SessionTypeOK, CallbackPart, Holds, SaveState
<1>3. StatePart'
  <2>1. begun'[l] = clock /\ login'[l] # "new"
    BY DEF SessionInv, SessionTypeOK, SaveState
  <2>2. \A k \in Logins : k # l => begun'[k] = begun[k] /\ login'[k] = login[k]
    BY DEF SessionInv, SessionTypeOK, SaveState
  <2>3. \A r \in states : r.login \in Logins /\ r.login # l
    BY SessionFields DEF SessionInv, StatePart, SaveState
  <2>4. states' = states \cup {[login |-> l, expires |-> clock + StateLife]}
    BY DEF SaveState, StateRow
  <2>5. QED
    BY <2>1, <2>2, <2>3, <2>4 DEF SessionInv, StatePart
<1>4. CallbackPart'
  BY SessionsAssumption
     DEF SessionInv, SessionTypeOK, CallbackPart, SaveState
<1>5. HolderPart'
  <2>1. \A c \in Callbacks : Holds(c)' <=> Holds(c)
    BY DEF SaveState, Holds
  <2>2. \A k \in Logins : k # l => begun'[k] = begun[k]
    BY DEF SessionInv, SessionTypeOK, SaveState
  <2>3. /\ states' = states \cup {[login |-> l, expires |-> clock + StateLife]}
        /\ callback' = callback
    BY DEF SaveState, StateRow
  <2>4. QED
    BY <1>2, <2>1, <2>2, <2>3, SessionFields DEF SessionInv, HolderPart
<1>6. SessionPart'
  BY DEF SessionInv, SessionPart, SaveState
<1>7. QED
  BY <1>1, <1>3, <1>4, <1>5, <1>6 DEF SessionInv

(* A callback that moves on keeps what it came with.                       *)
LEMMA MovingKeeps ==
  ASSUME SessionInv, NEW c \in Callbacks, callback[c].pc # "new",
         NEW pc \in {"exchange", "signed in", "failed", "done"},
         callback' = [callback EXCEPT ![c].pc = pc],
         UNCHANGED <<clock, login, leaving, begun>>,
         states' \subseteq states,
         opened \subseteq opened', opened' \subseteq opened \cup {c},
         binding' \in Logins \cup {None}, cookie' \in Callbacks \cup {None},
         \A r \in sessions' \ sessions :
           /\ r \in [token : Callbacks, expires : Nat]
           /\ r.token \in opened' /\ r.expires = callback[r.token].now + SessionLife
  PROVE  /\ SessionTypeOK' /\ StatePart' /\ CallbackPart' /\ SessionPart'
         /\ \A d \in Callbacks : /\ callback'[d].binding = callback[d].binding
                                 /\ callback'[d].now = callback[d].now
                                 /\ d # c => callback'[d] = callback[d]
         /\ callback'[c].pc = pc
<1>1. /\ \A d \in Callbacks : /\ callback'[d].binding = callback[d].binding
                              /\ callback'[d].now = callback[d].now
                              /\ d # c => callback'[d] = callback[d]
      /\ callback'[c].pc = pc
  BY DEF SessionInv, SessionTypeOK
<1>2. callback' \in [Callbacks ->
        [pc : {"new", "consume", "exchange", "signed in", "failed", "done"},
         now : 0..MaxClock, binding : Logins \cup {None}]]
  BY DEF SessionInv, SessionTypeOK
<1>3. SessionTypeOK'
  BY <1>2 DEF SessionInv, SessionTypeOK
<1>4. StatePart'
  BY DEF SessionInv, StatePart
<1>5. CallbackPart'
  BY <1>1 DEF SessionInv, CallbackPart
<1>6. SessionPart'
  <2> SUFFICES ASSUME NEW r \in sessions'
               PROVE  /\ r.token \in opened'
                      /\ r.expires = callback'[r.token].now + SessionLife
    BY DEF SessionPart
  <2>1. r.token \in Callbacks
    BY <1>3 DEF SessionTypeOK
  <2>2. callback'[r.token].now = callback[r.token].now
    BY <1>1, <2>1
  <2>3. QED
    BY <2>2 DEF SessionInv, SessionPart
<1>7. QED
  BY <1>1, <1>3, <1>4, <1>5, <1>6

(* A state is taken out of the table by the callback that will hold it.    *)
LEMMA ConsumeKeeps ==
  ASSUME SessionInv, NEW c \in Callbacks, Consume(c), Consumable(c) # {}
  PROVE  SessionInv'
<1>1. /\ states' = states \ Consumable(c)
      /\ callback' = [callback EXCEPT ![c].pc = "exchange"]
      /\ UNCHANGED <<clock, sessions, login, binding, cookie, leaving, begun,
                     opened>>
      /\ callback[c].pc = "consume"
  BY DEF Consume, Move, At, AfterConsuming, browser
<1>2. /\ SessionTypeOK' /\ StatePart' /\ CallbackPart' /\ SessionPart'
      /\ \A d \in Callbacks : /\ callback'[d].binding = callback[d].binding
                              /\ callback'[d].now = callback[d].now
                              /\ d # c => callback'[d] = callback[d]
      /\ callback'[c].pc = "exchange"
  <2>1. callback[c].pc # "new" /\ states' \subseteq states
    BY <1>1
  <2>2. binding' \in Logins \cup {None} /\ cookie' \in Callbacks \cup {None}
    BY <1>1 DEF SessionInv, SessionTypeOK
  <2>3. QED
    BY <1>1, <2>1, <2>2, MovingKeeps
<1>3. PICK r \in states : /\ r.login = LoginOf[c]
                          /\ r.login = callback[c].binding
                          /\ r.expires > callback[c].now
  BY DEF Consumable
<1>4. callback[c].now < begun[LoginOf[c]] + StateLife
  BY <1>3, SessionFields, SessionsAssumption DEF SessionInv, StatePart
<1>5. \A q \in states' : q.login # LoginOf[c]
  <2> SUFFICES ASSUME NEW q \in states', q.login = LoginOf[c]
               PROVE  FALSE
    OBVIOUS
  <2>1. q \in states /\ q.expires = r.expires
    BY <1>1, <1>3 DEF SessionInv, StatePart
  <2>2. q \in Consumable(c)
    BY <1>3, <2>1 DEF Consumable
  <2>3. QED
    BY <1>1, <2>2
<1>6. \A d \in Callbacks : Holds(d) => LoginOf[d] # LoginOf[c]
  BY <1>3 DEF SessionInv, HolderPart
<1>7. \A d \in Callbacks : d # c => (Holds(d)' <=> Holds(d))
  BY <1>1, <1>2 DEF Holds
<1>8. HolderPart'
  <2>1. \A d \in Callbacks : Holds(d)' =>
          /\ callback'[d].binding = LoginOf[d]
          /\ callback'[d].now < begun'[LoginOf[d]] + StateLife
          /\ \A q \in states' : q.login # LoginOf[d]
    BY <1>1, <1>2, <1>3, <1>4, <1>5, <1>7 DEF SessionInv, HolderPart
  <2>2. \A d, e \in Callbacks :
          Holds(d)' /\ Holds(e)' /\ LoginOf[d] = LoginOf[e] => d = e
    BY <1>6, <1>7 DEF SessionInv, HolderPart
  <2>3. QED
    BY <2>1, <2>2 DEF HolderPart
<1>9. QED
  BY <1>2, <1>8 DEF SessionInv

LEMMA SessionRowFields ==
  ASSUME SessionTypeOK, NEW c \in Callbacks
  PROVE  /\ SessionRow(c) \in [token : Callbacks, expires : Nat]
         /\ SessionRow(c).token = c
         /\ SessionRow(c).expires = callback[c].now + SessionLife
<1>1. callback[c].now \in Nat
  BY SessionFields
<1>2. \A n \in Nat : n + SessionLife \in Nat
  BY SessionsAssumption
<1>3. QED
  BY <1>1, <1>2 DEF SessionRow

(* In every other move nobody becomes a holder.                            *)
LEMMA HoldersRemain ==
  ASSUME SessionInv, states' \subseteq states, begun' = begun,
         \A d \in Callbacks : /\ callback'[d].binding = callback[d].binding
                              /\ callback'[d].now = callback[d].now
                              /\ Holds(d)' => Holds(d)
  PROVE  HolderPart'
BY DEF SessionInv, HolderPart

LEMMA CallbackKeeps ==
  ASSUME SessionInv, NEW c \in Callbacks,
         \/ Consume(c) \/ ConsumeFails(c)
         \/ Open(c) \/ OpenFails(c) \/ Answered(c) \/ Lost(c)
  PROVE  SessionInv'
<1>1. binding \in Logins \cup {None} /\ cookie \in Callbacks \cup {None}
  BY DEF SessionInv, SessionTypeOK
<1>2. CASE Open(c)
  <2>1. PICK pc \in {"signed in", "failed"} :
          callback' = [callback EXCEPT ![c].pc = pc]
    BY <1>2 DEF Open, Move
  <2>2. /\ sessions' = sessions \cup {SessionRow(c)}
        /\ opened' = opened \cup {c}
        /\ UNCHANGED <<clock, states, login, binding, cookie, leaving, begun>>
        /\ callback[c].pc = "exchange"
    BY <1>2 DEF Open, At, browser
  <2>3. /\ SessionRow(c) \in [token : Callbacks, expires : Nat]
        /\ SessionRow(c).token = c
        /\ SessionRow(c).expires = callback[c].now + SessionLife
    BY SessionRowFields DEF SessionInv
  <2>4. /\ SessionTypeOK' /\ StatePart' /\ CallbackPart' /\ SessionPart'
        /\ \A d \in Callbacks : /\ callback'[d].binding = callback[d].binding
                                /\ callback'[d].now = callback[d].now
                                /\ d # c => callback'[d] = callback[d]
        /\ callback'[c].pc = pc
    <3>1. \A r \in sessions' \ sessions :
            /\ r \in [token : Callbacks, expires : Nat]
            /\ r.token \in opened'
            /\ r.expires = callback[r.token].now + SessionLife
      BY <2>2, <2>3
    <3>2. /\ callback[c].pc # "new" /\ states' \subseteq states
          /\ opened \subseteq opened' /\ opened' \subseteq opened \cup {c}
          /\ binding' \in Logins \cup {None} /\ cookie' \in Callbacks \cup {None}
      BY <1>1, <2>2
    <3>3. QED
      BY <2>1, <2>2, <3>1, <3>2, MovingKeeps
  <2>5. \A d \in Callbacks : Holds(d)' => Holds(d)
    BY <2>2, <2>4 DEF Holds
  <2>6. QED
    BY <2>2, <2>4, <2>5, HoldersRemain DEF SessionInv
<1>3. ASSUME \/ Consume(c) /\ Consumable(c) = {}
             \/ ConsumeFails(c) \/ OpenFails(c) \/ Answered(c) \/ Lost(c)
      PROVE  SessionInv'
  <2>1. PICK pc \in {"failed", "done"} :
          callback' = [callback EXCEPT ![c].pc = pc]
    BY <1>3 DEF Consume, ConsumeFails, OpenFails, Answered, Lost, Move
  <2>2. /\ UNCHANGED <<clock, sessions, login, leaving, begun, opened>>
        /\ states' \subseteq states
        /\ callback[c].pc # "new"
    BY <1>3 DEF Consume, ConsumeFails, OpenFails, Answered, Lost, At, browser,
                AfterConsuming
  <2>3. binding' \in Logins \cup {None} /\ cookie' \in Callbacks \cup {None}
    BY <1>1, <1>3 DEF Consume, ConsumeFails, OpenFails, Answered, Lost, browser
  <2>4. /\ SessionTypeOK' /\ StatePart' /\ CallbackPart' /\ SessionPart'
        /\ \A d \in Callbacks : /\ callback'[d].binding = callback[d].binding
                                /\ callback'[d].now = callback[d].now
                                /\ d # c => callback'[d] = callback[d]
        /\ callback'[c].pc = pc
    BY <2>1, <2>2, <2>3, MovingKeeps
  <2>5. \A d \in Callbacks : Holds(d)' => Holds(d)
    BY <2>1, <2>2, <2>4 DEF Holds
  <2>6. QED
    BY <2>2, <2>4, <2>5, HoldersRemain DEF SessionInv
<1>4. QED
  BY <1>2, <1>3, ConsumeKeeps

(* A callback that arrives takes nothing yet.                              *)
LEMMA ArriveKeeps ==
  ASSUME SessionInv, NEW c \in Callbacks, Arrive(c)
  PROVE  SessionInv'
<1>1. SessionTypeOK'
  BY DEF SessionInv, SessionTypeOK, Arrive, browser
<1>2. ~Holds(c) /\ ~Holds(c)'
  BY DEF SessionInv, SessionTypeOK, CallbackPart, Arrive, At, Holds
<1>3. \A d \in Callbacks : d # c => callback'[d] = callback[d]
  BY DEF SessionInv, SessionTypeOK, Arrive
<1>4. QED
  <2>1. /\ login[LoginOf[c]] = "redirected" /\ c \notin opened
        /\ UNCHANGED <<states, sessions, login, begun, opened>>
    BY <1>2 DEF Arrive, Holds
  <2>2. \A d \in Callbacks : Holds(d)' => Holds(d) /\ callback'[d] = callback[d]
    BY <1>2, <1>3, <2>1 DEF Holds
  <2>3. \A r \in sessions : callback'[r.token] = callback[r.token]
    BY <1>3, <2>1, SessionFields DEF SessionInv, SessionPart
  <2>4. StatePart'
    BY <2>1 DEF SessionInv, StatePart
  <2>5. CallbackPart'
    BY <1>3, <2>1 DEF SessionInv, CallbackPart
  <2>6. HolderPart'
    BY <2>1, <2>2 DEF SessionInv, HolderPart
  <2>7. SessionPart'
    BY <2>1, <2>3 DEF SessionInv, SessionPart
  <2>8. QED
    BY <1>1, <2>4, <2>5, <2>6, <2>7 DEF SessionInv

LEMMA SessionStep ==
  ASSUME SessionInv, [SessionNext]_sessionVars
  PROVE  SessionInv'
<1>1. CASE UNCHANGED sessionVars
  BY <1>1
     DEF sessionVars, server, browser, SessionInv, SessionTypeOK, StatePart,
         CallbackPart, HolderPart, SessionPart, Holds
<1>2. CASE Tick
  <2>1. UNCHANGED <<states, sessions, login, callback, binding, cookie, leaving,
                    begun, opened>>
        /\ clock < MaxClock /\ clock' = clock + 1
    BY <1>2 DEF Tick, browser
  <2>2. clock' \in 0..MaxClock
    BY <2>1, SessionsAssumption, SessionFields DEF SessionInv
  <2>3. SessionTypeOK'
    BY <2>1, <2>2 DEF SessionInv, SessionTypeOK
  <2>4. StatePart' /\ CallbackPart' /\ HolderPart' /\ SessionPart'
    BY <2>1 DEF SessionInv, StatePart, CallbackPart, HolderPart, SessionPart, Holds
  <2>5. QED
    BY <2>3, <2>4 DEF SessionInv
<1>3. ASSUME NEW l \in Logins, Redirect(l)
      PROVE  SessionInv'
  <2>1. /\ UNCHANGED <<clock, states, sessions, callback, cookie, leaving,
                       begun, opened>>
        /\ binding' = l
        /\ \A k \in Logins : login'[k] = login[k] \/ login'[k] = "redirected"
        /\ login' \in [Logins -> {"new", "saved", "failed", "redirected"}]
    BY <1>3 DEF Redirect, SessionInv, SessionTypeOK
  <2>2. SessionTypeOK'
    BY <2>1 DEF SessionInv, SessionTypeOK
  <2>3. StatePart'
    BY <2>1, SessionFields DEF SessionInv, StatePart
  <2>4. CallbackPart'
    BY <2>1, SessionsAssumption DEF SessionInv, CallbackPart
  <2>5. HolderPart' /\ SessionPart'
    BY <2>1 DEF SessionInv, HolderPart, SessionPart, Holds
  <2>6. QED
    BY <2>2, <2>3, <2>4, <2>5 DEF SessionInv
<1>4. CASE Logout \/ LogoutAnswered
  <2>1. /\ UNCHANGED <<clock, states, login, callback, binding, begun, opened>>
        /\ sessions' \subseteq sessions
        /\ leaving' \in BOOLEAN
        /\ cookie' \in Callbacks \cup {None}
    BY <1>4 DEF Logout, LogoutAnswered, server, SessionInv, SessionTypeOK
  <2>2. SessionTypeOK'
    BY <2>1 DEF SessionInv, SessionTypeOK
  <2>3. StatePart' /\ CallbackPart' /\ HolderPart' /\ SessionPart'
    BY <2>1 DEF SessionInv, StatePart, CallbackPart, HolderPart, SessionPart, Holds
  <2>4. QED
    BY <2>2, <2>3 DEF SessionInv
<1>5. QED
  BY <1>1, <1>2, <1>3, <1>4, SaveStateKeeps, ArriveKeeps, CallbackKeeps
     DEF SessionNext

-----------------------------------------------------------------------------
(***************************************************************************)
(* The page.                                                               *)
(*                                                                         *)
(* What an answer on its way says is as new as the decisions the page was  *)
(* told of: a decision that is told drops the question and replaces the    *)
(* load of the run, and nothing else tells the page of one.                *)
(***************************************************************************)
Tokens  == [state : {"shown"}, of : Callbacks]
Reports == [state : {"shown"}, decided : SUBSET Findings, needs : BOOLEAN]
GivenExplanations == [state : {"available"}, decided : SUBSET Findings]

RecordPart ==
  /\ Decided \subseteq Findings
  /\ decided \in [Decided -> [user : {Account[l] : l \in Logins} \cup {None},
                              token : Callbacks \cup {None}]]
  /\ DecisionIsOfThePage

(* The token is asked for while there is none.                             *)
TokenPart ==
  /\ token \in {Closed, Pending, Failure} \cup Tokens
  /\ tokenLoad # NoRequest => token \in {Pending, Failure}
  /\ tokenLoad.pc = "answered" => tokenLoad.answer \in {Failure} \cup Tokens

ReportPart ==
  /\ report \in {Closed, Pending, Failure} \cup Reports
  /\ reportLoad.pc = "answered" =>
       /\ reportLoad.answer \in {Failure} \cup Reports
       /\ reportLoad.answer.state = "shown" => acked \subseteq reportLoad.answer.decided
  /\ RecordedIsShown

FormPart ==
  /\ form \in [Findings -> {"idle", "saving", "recorded", "failed"}]
  /\ \A f \in Findings : form[f] # "idle" => f \in Mounted(token, report)

PostPart ==
  /\ post = [f \in Findings |-> post[f]]
  /\ \A f \in Findings : post[f].pc = "answered" /\ post[f].ok => f \in Decided
  /\ acked \subseteq Decided

QuestionPart ==
  /\ explanation \in [state : {"idle", "loading", "unavailable"}] \cup GivenExplanations
  /\ explanation.state = "loading" <=> question # NoRequest
  /\ question.pc = "answered" =>
       /\ question.answer \in [state : {"unavailable"}] \cup GivenExplanations
       /\ question.answer.state = "available" => acked \subseteq question.answer.decided
  /\ ExplanationFollowsDecisions

PageInv ==
  RecordPart /\ TokenPart /\ ReportPart /\ FormPart /\ PostPart /\ QuestionPart

IInv == SessionInv /\ PageInv

LEMMA PageStart ==
  ASSUME Init
  PROVE  PageInv
<1>1. RecordPart
  BY DEF Init, RecordPart, Decided, DecisionIsOfThePage
<1>2. TokenPart
  BY DEF Init, TokenPart, NoRequest, Closed
<1>3. ReportPart
  BY DEF Init, ReportPart, RecordedIsShown, NoRequest, Closed
<1>4. FormPart
  BY DEF Init, FormPart
<1>5. PostPart
  BY DEF Init, PostPart, NoRequest
<1>6. QuestionPart
  BY DEF Init, QuestionPart, ExplanationFollowsDecisions, NoRequest
<1>7. QED
  BY <1>1, <1>2, <1>3, <1>4, <1>5, <1>6 DEF PageInv

(* A valid cookie is that of a callback.                                   *)
LEMMA ValidIsOpened ==
  ASSUME SessionInv, NEW t, Valid(t)
  PROVE  t \in Callbacks
BY DEF SessionInv, SessionTypeOK, SessionPart, Valid

(* A decision is recorded with the token of the session it came in.        *)
LEMMA RecordsKept ==
  ASSUME SessionInv, RecordPart, PageNext
  PROVE  RecordPart'
<1>1. ASSUME NEW f \in Findings, Admitted(post[f]), f \notin Decided,
             decided' = Recorded(f, post[f])
      PROVE  RecordPart'
  <2>1. post[f].cookie \in Callbacks /\ post[f].token = post[f].cookie
    BY <1>1, ValidIsOpened DEF Admitted
  <2>2. User(post[f].cookie) \in {Account[l] : l \in Logins}
    BY <2>1, SessionsAssumption DEF User
  <2>3. Decided' = Decided \cup {f}
    BY <1>1 DEF Decided, Recorded
  <2>4. decided'[f] = [user |-> User(post[f].token), token |-> post[f].token]
    BY <1>1, <2>1 DEF Recorded
  <2>5. \A g \in Decided : decided'[g] = decided[g]
    BY <1>1 DEF Recorded
  <2>6. decided' \in [Decided' -> [user : {Account[l] : l \in Logins} \cup {None},
                                  token : Callbacks \cup {None}]]
    BY <1>1, <2>1, <2>2 DEF RecordPart, Decided, Recorded
  <2>7. DecisionIsOfThePage'
    BY <2>3, <2>4, <2>5 DEF RecordPart, DecisionIsOfThePage, User
  <2>8. QED
    BY <2>3, <2>6, <2>7 DEF RecordPart
<1>2. ASSUME NEW f \in Findings, OtherDecides(f)
      PROVE  RecordPart'
  <2>1. decided' = [g \in Decided \cup {f} |->
                      IF g = f THEN [user |-> None, token |-> None]
                               ELSE decided[g]]
    BY <1>2 DEF OtherDecides
  <2>2. Decided' = Decided \cup {f}
    BY <2>1 DEF Decided
  <2>3. decided' \in [Decided' -> [user : {Account[l] : l \in Logins} \cup {None},
                                  token : Callbacks \cup {None}]]
    BY <2>1 DEF RecordPart, Decided
  <2>4. DecisionIsOfThePage'
    BY <2>1, <2>2 DEF RecordPart, DecisionIsOfThePage, User
  <2>5. QED
    BY <2>2, <2>3, <2>4 DEF RecordPart
<1>3. CASE UNCHANGED decided
  BY <1>3 DEF RecordPart, Decided, DecisionIsOfThePage, User
<1>4. QED
  BY <1>1, <1>2, <1>3
     DEF PageNext, LoadToken, ServeToken, TokenLoaded, LoadReport, ServeReport,
         ReportLoaded, Submit, Decide, PostAnswered, PostForgotten, Ask, Explain,
         Explained, OpenPage

LEMMA TokenKept ==
  ASSUME SessionInv, TokenPart, PageNext
  PROVE  TokenPart'
<1>1. CASE LoadToken
  BY <1>1 DEF TokenPart, LoadToken, NoRequest, Sent
<1>2. CASE ServeToken
  <2>1. token' = token /\ tokenLoad # NoRequest
    BY <1>2 DEF ServeToken, NoRequest
  <2>2. tokenLoad'.pc = "answered" /\ tokenLoad'.answer \in {Failure} \cup Tokens
    BY <1>2, ValidIsOpened DEF ServeToken, Answer, Tokens
  <2>3. QED
    BY <2>1, <2>2 DEF TokenPart
<1>3. CASE TokenLoaded
  BY <1>3 DEF TokenPart, TokenLoaded, NoRequest
<1>4. CASE OpenPage
  BY <1>4 DEF TokenPart, OpenPage, NoRequest
<1>5. CASE UNCHANGED <<token, tokenLoad>>
  BY <1>5 DEF TokenPart
<1>6. QED
  BY <1>1, <1>2, <1>3, <1>4, <1>5
     DEF PageNext, LoadReport, ServeReport, ReportLoaded, Submit, Decide,
         PostAnswered, PostForgotten, OtherDecides, Ask, Explain, Explained, tab

(* A run is loaded with every decision the page has been told of, and the  *)
(* load that follows a decision replaces the one on its way.               *)
LEMMA ReportKept ==
  ASSUME RecordPart, ReportPart, PostPart, PageNext
  PROVE  ReportPart'
<1>1. CASE LoadReport
  BY <1>1 DEF ReportPart, RecordedIsShown, LoadReport, NoRequest, Sent
<1>2. CASE ServeReport
  <2>1. /\ report' = report /\ acked' = acked
        /\ reportLoad' # NoRequest
    BY <1>2 DEF ServeReport, NoRequest, Answer, Sent
  <2>2. reportLoad'.pc = "answered" =>
          /\ reportLoad'.answer \in {Failure} \cup Reports
          /\ reportLoad'.answer.state = "shown" => acked \subseteq reportLoad'.answer.decided
    BY <1>2 DEF ServeReport, Answer, Sent, Failure, Reports, RecordPart, PostPart
  <2>3. QED
    BY <2>1, <2>2 DEF ReportPart, RecordedIsShown
<1>3. CASE ReportLoaded
  BY <1>3 DEF ReportPart, RecordedIsShown, ReportLoaded, NoRequest
<1>4. ASSUME NEW f \in Findings, PostAnswered(f)
      PROVE  ReportPart'
  <2>1. CASE post[f].ok
    BY <1>4, <2>1 DEF ReportPart, RecordedIsShown, PostAnswered, Refetch, Sent, NoRequest
  <2>2. CASE ~post[f].ok
    BY <1>4, <2>2 DEF ReportPart, RecordedIsShown, PostAnswered
  <2>3. QED
    BY <2>1, <2>2
<1>5. CASE OpenPage
  BY <1>5 DEF ReportPart, RecordedIsShown, OpenPage, NoRequest, Pending
<1>6. CASE UNCHANGED <<report, reportLoad, acked>>
  BY <1>6 DEF ReportPart, RecordedIsShown
<1>7. QED
  BY <1>1, <1>2, <1>3, <1>4, <1>5, <1>6
     DEF PageNext, LoadToken, ServeToken, TokenLoaded, Submit, Decide,
         PostForgotten, OtherDecides, Ask, Explain, Explained, tab

(* The forms change with the report; the token changes only while no form  *)
(* is shown.                                                               *)
LEMMA FormsKept ==
  ASSUME TokenPart, FormPart, PageNext
  PROVE  FormPart'
<1>1. CASE TokenLoaded
  <2>1. token \in {Pending, Failure}
    BY <1>1 DEF TokenPart, TokenLoaded, NoRequest
  <2>2. \A f \in Findings : form[f] = "idle"
    BY <2>1 DEF FormPart, Mounted, Pending, Failure
  <2>3. QED
    BY <1>1, <2>2 DEF FormPart, TokenLoaded
<1>2. CASE ReportLoaded
  BY <1>2 DEF FormPart, ReportLoaded, Remounted
<1>3. ASSUME NEW f \in Findings, Submit(f)
      PROVE  FormPart'
  BY <1>3 DEF FormPart, Submit
<1>4. ASSUME NEW f \in Findings, PostAnswered(f)
      PROVE  FormPart'
  BY <1>4 DEF FormPart, PostAnswered, Told
<1>5. CASE OpenPage
  BY <1>5 DEF FormPart, OpenPage
<1>6. CASE UNCHANGED <<form, token, report>>
  BY <1>6 DEF FormPart
<1>7. QED
  BY <1>1, <1>2, <1>3, <1>4, <1>5, <1>6
     DEF PageNext, LoadToken, ServeToken, LoadReport, ServeReport, Decide,
         PostForgotten, OtherDecides, Ask, Explain, Explained, tab

(* Only a decision that is recorded is answered as recorded.               *)
LEMMA PostsKept ==
  ASSUME PostPart, PageNext
  PROVE  PostPart'
<1>1. ASSUME NEW f \in Findings, Submit(f)
      PROVE  PostPart'
  BY <1>1 DEF PostPart, Submit, Decided
<1>2. ASSUME NEW f \in Findings, Decide(f)
      PROVE  PostPart'
  <2>1. Decided \subseteq Decided' /\ acked' = acked
    BY <1>2 DEF Decide, Recorded, Decided
  <2>2. post' = [post EXCEPT ![f] = post'[f]]
    BY <1>2 DEF Decide, PostPart
  <2>3. post'[f].ok => f \in Decided'
    BY <1>2 DEF Decide, PostPart, Recorded, Decided
  <2>4. QED
    BY <2>1, <2>2, <2>3 DEF PostPart
<1>3. ASSUME NEW f \in Findings, PostAnswered(f) \/ PostForgotten(f)
      PROVE  PostPart'
  BY <1>3 DEF PostPart, PostAnswered, PostForgotten, NoRequest, Decided
<1>4. ASSUME NEW f \in Findings, OtherDecides(f)
      PROVE  PostPart'
  <2>1. Decided' = Decided \cup {f} /\ post' = post /\ acked' = acked
    BY <1>4 DEF OtherDecides, Decided, tab
  <2>2. QED
    BY <2>1 DEF PostPart
<1>5. CASE OpenPage
  BY <1>5 DEF PostPart, OpenPage, NoRequest, Decided
<1>6. CASE UNCHANGED <<post, decided, acked>>
  BY <1>6 DEF PostPart, Decided
<1>7. QED
  BY <1>1, <1>2, <1>3, <1>4, <1>5, <1>6
     DEF PageNext, LoadToken, ServeToken, TokenLoaded, LoadReport, ServeReport,
         ReportLoaded, Ask, Explain, Explained

(* A question is dropped when a decision is told, so an answer was given   *)
(* after every decision the page was told of.                              *)
LEMMA QuestionKept ==
  ASSUME RecordPart, PostPart, QuestionPart, PageNext
  PROVE  QuestionPart'
<1>1. CASE Ask
  BY <1>1 DEF QuestionPart, ExplanationFollowsDecisions, Ask, NoRequest, Use
<1>2. CASE Explain
  <2>1. /\ explanation' = explanation /\ acked' = acked
        /\ question # NoRequest /\ question' # NoRequest
    BY <1>2 DEF Explain, NoRequest, Answer
  <2>2. /\ question'.answer \in [state : {"unavailable"}] \cup GivenExplanations
        /\ question'.answer.state = "available" => acked \subseteq question'.answer.decided
    BY <1>2 DEF Explain, Answer, GivenExplanations, RecordPart, PostPart
  <2>3. QED
    BY <2>1, <2>2 DEF QuestionPart, ExplanationFollowsDecisions
<1>3. CASE Explained
  BY <1>3 DEF QuestionPart, ExplanationFollowsDecisions, Explained, NoRequest, GivenExplanations
<1>4. ASSUME NEW f \in Findings, PostAnswered(f)
      PROVE  QuestionPart'
  <2>1. CASE post[f].ok
    BY <1>4, <2>1 DEF QuestionPart, ExplanationFollowsDecisions, PostAnswered, Reset, NoRequest
  <2>2. CASE ~post[f].ok
    BY <1>4, <2>2 DEF QuestionPart, ExplanationFollowsDecisions, PostAnswered
  <2>3. QED
    BY <2>1, <2>2
<1>5. CASE OpenPage
  BY <1>5 DEF QuestionPart, ExplanationFollowsDecisions, OpenPage, Reset, NoRequest
<1>6. CASE UNCHANGED <<explanation, question, acked>>
  BY <1>6 DEF QuestionPart, ExplanationFollowsDecisions
<1>7. QED
  BY <1>1, <1>2, <1>3, <1>4, <1>5, <1>6
     DEF PageNext, LoadToken, ServeToken, TokenLoaded, LoadReport, ServeReport,
         ReportLoaded, Submit, Decide, PostForgotten, OtherDecides, tab

(* The page depends on the sessions only through the cookies it sends, so  *)
(* it stays as it is while the browser signs in or out.                    *)
LEMMA PageStep ==
  ASSUME IInv, [Next]_vars
  PROVE  IInv'
<1>1. CASE UNCHANGED pageVars
  <2>1. [SessionNext]_sessionVars
    BY DEF Next, Signing, vars
  <2>2. SessionInv'
    BY <2>1, SessionStep DEF IInv
  <2>3. UNCHANGED <<decided, token, tokenLoad, report, reportLoad, form, post,
                    explanation, question, acked>>
    BY <1>1 DEF pageVars, tab
  <2>4. PageInv'
    BY <2>3
       DEF IInv, PageInv, RecordPart, TokenPart, ReportPart, FormPart, PostPart,
           QuestionPart, Decided, DecisionIsOfThePage, User, RecordedIsShown,
           ExplanationFollowsDecisions
  <2>5. QED
    BY <2>2, <2>4 DEF IInv
<1>2. CASE PageNext /\ UNCHANGED sessionVars
  <2>1. SessionInv'
    BY <1>2, SessionStep DEF IInv
  <2>2. RecordPart' /\ TokenPart'
    BY <1>2, RecordsKept, TokenKept DEF IInv, PageInv
  <2>3. ReportPart' /\ FormPart'
    BY <1>2, ReportKept, FormsKept DEF IInv, PageInv
  <2>4. PostPart' /\ QuestionPart'
    BY <1>2, PostsKept, QuestionKept DEF IInv, PageInv
  <2>5. QED
    BY <2>1, <2>2, <2>3, <2>4 DEF IInv, PageInv
<1>3. QED
  BY <1>1, <1>2 DEF Next, vars

(***************************************************************************)
(* The inductive invariant: who may still open a session, what every       *)
(* session stems from, and how new the answers on their way are.           *)
(***************************************************************************)
THEOREM Invariance == Spec => []IInv
<1>1. Init => IInv
  BY SessionsStart, PageStart DEF Init, IInv
<1>2. IInv /\ [Next]_vars => IInv'
  BY PageStep
<1>3. QED
  BY <1>1, <1>2, PTL DEF Spec

(***************************************************************************)
(* Every cookie, row, request and answer has its type; only a form that is *)
(* shown has a state, and a question is on its way exactly while the page  *)
(* says so.                                                                *)
(***************************************************************************)
THEOREM TypeCorrect == Spec => []TypeOK
<1>1. IInv => TypeOK
  BY DEF IInv, SessionInv, PageInv, RecordPart, TokenPart, ReportPart, FormPart,
         PostPart, QuestionPart, TypeOK, Tokens, Reports, GivenExplanations
<1>2. QED
  BY <1>1, Invariance, PTL

(***************************************************************************)
(* However often the callbacks of a login are sent and whatever fails, the *)
(* login opens one session at most.                                        *)
(***************************************************************************)
THEOREM OneSessionPerLoginHolds == Spec => []OneSessionPerLogin
<1>1. IInv => OneSessionPerLogin
  BY DEF IInv, SessionInv, SessionTypeOK, HolderPart, Holds, OneSessionPerLogin
<1>2. QED
  BY <1>1, Invariance, PTL

(***************************************************************************)
(* A session ends within both lifetimes of its login, although its end is  *)
(* computed from a clock that was read before GitHub was asked.            *)
(***************************************************************************)
THEOREM SessionEndsInTimeHolds == Spec => []SessionEndsInTime
<1>1. IInv => SessionEndsInTime
  <2> SUFFICES ASSUME IInv, NEW r \in sessions
               PROVE  r.expires < begun[LoginOf[r.token]] + StateLife + SessionLife
    BY DEF SessionEndsInTime
  <2>1. r.token \in Callbacks /\ Holds(r.token)
    BY DEF IInv, SessionInv, SessionTypeOK, SessionPart, Holds
  <2>2. r.expires = callback[r.token].now + SessionLife
    BY DEF IInv, SessionInv, SessionPart
  <2>3. callback[r.token].now < begun[LoginOf[r.token]] + StateLife
    BY <2>1 DEF IInv, SessionInv, HolderPart
  <2>4. /\ callback[r.token].now \in Nat
        /\ begun[LoginOf[r.token]] \in Nat
    BY <2>1, SessionFields DEF IInv, SessionInv
  <2>5. QED
    BY <2>2, <2>3, <2>4, SessionsAssumption
<1>2. QED
  BY <1>1, Invariance, PTL

(***************************************************************************)
(* A decision is that of the user whose page it was made on, whoever signs *)
(* in meanwhile.                                                           *)
(***************************************************************************)
THEOREM DecisionIsOfThePageHolds == Spec => []DecisionIsOfThePage
<1>1. IInv => DecisionIsOfThePage
  BY DEF IInv, PageInv, RecordPart
<1>2. QED
  BY <1>1, Invariance, PTL

(***************************************************************************)
(* No explanation is shown that was given before a decision the page was   *)
(* told of, in whatever order the answers arrive.                          *)
(***************************************************************************)
THEOREM ExplanationFollowsDecisionsHolds == Spec => []ExplanationFollowsDecisions
<1>1. IInv => ExplanationFollowsDecisions
  BY DEF IInv, PageInv, QuestionPart
<1>2. QED
  BY <1>1, Invariance, PTL

(***************************************************************************)
(* A page at rest shows every decision it was told of.                     *)
(***************************************************************************)
THEOREM RecordedIsShownHolds == Spec => []RecordedIsShown
<1>1. IInv => RecordedIsShown
  BY DEF IInv, PageInv, ReportPart
<1>2. QED
  BY <1>1, Invariance, PTL
=============================================================================
