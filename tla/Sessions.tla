------------------------------ MODULE Sessions ------------------------------
(***************************************************************************)
(* Signing in with GitHub, and the web sessions it opens: routes/auth.py   *)
(* over the tables oauth_states and web_sessions of persistence/auth.py,   *)
(* and the two cookies of one browser.                                     *)
(*                                                                         *)
(* A login stores a state and gives the browser a binding cookie; GitHub   *)
(* sends the browser back with the state; the callback consumes the state, *)
(* asks GitHub who it is, and opens a session.  The browser may begin a    *)
(* second login meanwhile, may follow the same redirect twice, any answer  *)
(* may be lost, and each transaction may fail before or after it took      *)
(* effect.                                                                 *)
(***************************************************************************)
EXTENDS Naturals

CONSTANTS
  Logins,       \* logins of the browser: each has a state and a binding
  Callbacks,    \* callback requests: each would open a session of its own
  LoginOf,      \* the login whose state and code a callback brings back
  Account,      \* the GitHub user who authorizes each login
  None,         \* the browser has no such cookie
  StateLife,    \* oauth_state_seconds, in ticks of the clock
  SessionLife,  \* session_seconds, in ticks of the clock
  MaxClock      \* bound on the clock

ASSUME SessionsAssumption ==
  /\ LoginOf \in [Callbacks -> Logins]
  /\ None \notin Logins \cup Callbacks
  /\ StateLife \in Nat /\ SessionLife \in Nat /\ MaxClock \in Nat

VARIABLES
  clock,      \* the clock of the API
  states,     \* the rows of oauth_states
  sessions,   \* the rows of web_sessions
  login,      \* where each login stands
  callback,   \* where each callback request stands
  binding,    \* the cookie oauth_binding: the login that set it
  cookie,     \* the cookie session: the callback that set it
  leaving,    \* the answer to a logout is on its way
  begun,      \* history: when the state of each login was stored
  opened      \* history: the callbacks that have opened their session

server  == <<clock, states, sessions, login, callback, begun, opened>>
browser == <<binding, cookie, leaving>>
sessionVars == <<server, browser>>

SessionInit ==
  /\ clock = 0
  /\ states = {} /\ sessions = {}
  /\ login = [l \in Logins |-> "new"]
  /\ callback = [c \in Callbacks |->
                   [pc |-> "new", now |-> 0, binding |-> None]]
  /\ binding = None /\ cookie = None
  /\ leaving = FALSE
  /\ begun = [l \in Logins |-> 0]
  /\ opened = {}

Tick ==
  /\ clock < MaxClock
  /\ clock' = clock + 1
  /\ UNCHANGED <<states, sessions, login, callback, browser, begun, opened>>

-----------------------------------------------------------------------------
(***************************************************************************)
(* github_login.                                                           *)
(***************************************************************************)
StateRow(l) == [login |-> l, expires |-> clock + StateLife]

(* The state is stored, and the answer is on its way or, where the         *)
(* transaction fails after it took effect, an error is.                    *)
SaveState(l) ==
  /\ login[l] = "new"
  /\ states' = states \cup {StateRow(l)}
  /\ begun' = [begun EXCEPT ![l] = clock]
  /\ \E answer \in {"saved", "failed"} : login' = [login EXCEPT ![l] = answer]
  /\ UNCHANGED <<clock, sessions, callback, browser, opened>>

(* The browser follows the redirect to GitHub.  It keeps one binding, that *)
(* of the answer it received last.                                         *)
Redirect(l) ==
  /\ login[l] = "saved"
  /\ login' = [login EXCEPT ![l] = "redirected"]
  /\ binding' = l
  /\ UNCHANGED <<clock, states, sessions, callback, cookie, leaving, begun,
                 opened>>

-----------------------------------------------------------------------------
(***************************************************************************)
(* github_callback.                                                        *)
(***************************************************************************)
At(c, pc) == callback[c].pc = pc

Move(c, pc) == callback' = [callback EXCEPT ![c].pc = pc]

(* GitHub sends the browser back with the code and the state of the login, *)
(* and the browser may repeat the request.  One without the binding cookie *)
(* is refused before anything is read.                                     *)
Arrive(c) ==
  /\ At(c, "new") /\ login[LoginOf[c]] = "redirected"
  /\ binding # None
  /\ callback' = [callback EXCEPT
       ![c] = [pc |-> "consume", now |-> clock, binding |-> binding]]
  /\ UNCHANGED <<clock, states, sessions, login, browser, begun, opened>>

(* consume_oauth_state: the rows its DELETE finds.                         *)
Consumable(c) ==
  {r \in states : /\ r.login = LoginOf[c]
                  /\ r.login = callback[c].binding
                  /\ r.expires > callback[c].now}

AfterReading(c) == states

(* What the DELETE leaves of the table.                                    *)
AfterConsuming(c) == states \ Consumable(c)

Consume(c) ==
  /\ At(c, "consume")
  /\ states' = AfterConsuming(c)
  /\ Move(c, IF Consumable(c) = {} THEN "done" ELSE "exchange")
  /\ UNCHANGED <<clock, sessions, login, browser, begun, opened>>

ConsumeFails(c) ==
  /\ At(c, "consume")
  /\ states' \in {states, AfterConsuming(c)}
  /\ Move(c, "done")
  /\ UNCHANGED <<clock, sessions, login, browser, begun, opened>>

SessionRowFromNow(c) == [token |-> c, expires |-> clock + SessionLife]

(* exchange_code, current_user and complete_oauth_login.  The session ends *)
(* a fixed time after the callback arrived, however long GitHub took.      *)
SessionRow(c) == [token |-> c, expires |-> callback[c].now + SessionLife]

Open(c) ==
  /\ At(c, "exchange")
  /\ sessions' = sessions \cup {SessionRow(c)}
  /\ opened' = opened \cup {c}
  /\ \E answer \in {"signed in", "failed"} : Move(c, answer)
  /\ UNCHANGED <<clock, states, login, browser, begun>>

(* GitHub does not confirm the user, or nothing is stored.                 *)
OpenFails(c) ==
  /\ At(c, "exchange")
  /\ Move(c, "failed")
  /\ UNCHANGED <<clock, states, sessions, login, browser, begun, opened>>

(* Either answer clears the binding the browser has by then, the binding   *)
(* of a later login included.                                              *)
Answered(c) ==
  /\ callback[c].pc \in {"signed in", "failed"}
  /\ cookie' = IF At(c, "signed in") THEN c ELSE cookie
  /\ binding' = None
  /\ Move(c, "done")
  /\ UNCHANGED <<clock, states, sessions, login, leaving, begun, opened>>

(* The request, its answer or the process that serves it is gone.          *)
Lost(c) ==
  /\ callback[c].pc \notin {"new", "done"}
  /\ Move(c, "done")
  /\ UNCHANGED <<clock, states, sessions, login, browser, begun, opened>>

-----------------------------------------------------------------------------
(***************************************************************************)
(* Sessions in use.                                                        *)
(***************************************************************************)
(* get_session.                                                            *)
Valid(token) == \E r \in sessions : r.token = token /\ r.expires > clock

User(token) == Account[LoginOf[token]]

(* logout, by a client that has the token of the session its browser is    *)
(* in.  Its answer clears the session cookie the browser has by then.      *)
Logout ==
  /\ Valid(cookie) /\ ~leaving
  /\ sessions' = {r \in sessions : r.token # cookie}
  /\ leaving' = TRUE
  /\ UNCHANGED <<clock, states, login, callback, binding, cookie, begun, opened>>

LogoutAnswered ==
  /\ leaving
  /\ leaving' = FALSE
  /\ cookie' \in {cookie, None}
  /\ UNCHANGED <<server, binding>>

SessionNext ==
  \/ Tick
  \/ \E l \in Logins : SaveState(l) \/ Redirect(l)
  \/ \E c \in Callbacks :
       \/ Arrive(c) \/ Consume(c) \/ ConsumeFails(c)
       \/ Open(c) \/ OpenFails(c) \/ Answered(c) \/ Lost(c)
  \/ Logout \/ LogoutAnswered

SessionSpec == SessionInit /\ [][SessionNext]_sessionVars

-----------------------------------------------------------------------------
(***************************************************************************)
(* Properties.                                                             *)
(***************************************************************************)
SessionTypeOK ==
  /\ clock \in 0..MaxClock
  /\ states \subseteq [login : Logins, expires : Nat]
  /\ sessions \subseteq [token : Callbacks, expires : Nat]
  /\ login \in [Logins -> {"new", "saved", "failed", "redirected"}]
  /\ callback \in [Callbacks ->
       [pc : {"new", "consume", "exchange", "signed in", "failed", "done"},
        now : 0..MaxClock, binding : Logins \cup {None}]]
  /\ binding \in Logins \cup {None} /\ cookie \in Callbacks \cup {None}
  /\ leaving \in BOOLEAN
  /\ begun \in [Logins -> 0..MaxClock]
  /\ opened \subseteq Callbacks

(* One login opens one session at most, however often its callback is sent *)
(* and whatever fails: consume_oauth_state takes the state out of the      *)
(* table before GitHub is asked.                                           *)
OneSessionPerLogin ==
  \A c, d \in opened : LoginOf[c] = LoginOf[d] => c = d

(* A session ends within the two lifetimes of the login it stems from,     *)
(* however long the callback waits for GitHub or for the database.         *)
SessionEndsInTime ==
  \A r \in sessions :
    r.expires < begun[LoginOf[r.token]] + StateLife + SessionLife
=============================================================================
