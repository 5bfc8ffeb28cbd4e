SPECIFICATION FairSpec
CONSTANTS
  alice = alice
  bob = bob
  none = none
  a = a
  b = b
  a1 = a1
  a2 = a2
  b1 = b1
  f = f
  g = g
  Logins = {a, b}
  Callbacks = {a1, a2, b1}
  LoginOf <- MCLoginOf
  Account <- MCAccount
  None = none
  StateLife = 1
  SessionLife = 2
  MaxClock = 2
  Findings = {f, g}
  Bounds <- MCBounds
INVARIANTS
  OneSessionPerLogin
  SessionEndsInTime
  DecisionIsOfThePage
  ExplanationFollowsDecisions
  RecordedIsShown
PROPERTIES
  PageSettles
CHECK_DEADLOCK FALSE
