SPECIFICATION FairSpec
CONSTANTS
  q1 = q1
  q2 = q2
  q3 = q3
  p1 = p1
  p2 = p2
  Requests = {q1, q2, q3}
  Processes = {p1, p2}
  Home <- MCHome
  NoOne = NoOne
  Verdicts <- MCVerdicts
  Assessed <- MCAssessed
  Decided <- MCDecided
  Responses <- MCResponses
  MaxWarnings = 1
INVARIANTS
  AskedOnce
  OneExplanation
  AnswersItsVerdict
PROPERTIES
  Served
CHECK_DEADLOCK FALSE
