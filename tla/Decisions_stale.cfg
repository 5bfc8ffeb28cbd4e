SPECIFICATION Spec
CONSTANTS
  MaxAge = 1
  MaxClock = 2
  Runs = {r1}
  Deciders = {d1}
  Readers = {}
  NoOne = NoOne
  Snapshots <- MCSnapshots
  Policies <- MCPolicies
PROPERTIES
  StaleRunRejectsDecision
CHECK_DEADLOCK FALSE
