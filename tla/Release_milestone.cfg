SPECIFICATION Spec
CONSTANTS
  MaxAge = 1
  i1 = i1
  i2 = i2
  p1 = p1
  p2 = p2
  IssueNumbers = {i1, i2}
  PullNumbers = {p1, p2}
  CommitIds = {"c1", "c2"}
  IssueShapes <- MilestoneIssues
  PullShapes <- ScopePulls
  RunOf <- MCRunOf
  Outcomes = {"success", "failure"}
  HasPrevious = FALSE
  MaxFaults = 1
SYMMETRY Symmetric
CONSTRAINT ScopeOrOperations
INVARIANTS
  ReadyMeansInOrder
  VerdictIsExact
  QuarantineIsLocal
  NothingWithheldSilently
  NoFalseBlame
