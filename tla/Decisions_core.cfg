SPECIFICATION FairSpec
CONSTANTS
  MaxAge = 0
  MaxClock = 1
  Runs = {r1}
  Deciders = {d1, d2}
  Readers = {c1}
  NoOne = NoOne
  Snapshots <- MCVariedSnapshots
  Policies <- MCPolicies
INVARIANTS
  DecidedOnce
  ReadyIsEarned
  DecidedOnFreshEvidence
PROPERTIES
  VerdictIsFinal
  ReadyIsStillTrue
  ImplementsRunVerdict
  Answered
CHECK_DEADLOCK FALSE
