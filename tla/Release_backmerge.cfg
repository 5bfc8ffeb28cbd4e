SPECIFICATION Spec
CONSTANTS
  MaxAge = 1
  i1 = i1
  i2 = i2
  p1 = p1
  p2 = p2
  IssueNumbers = {i1, i2}
  PullNumbers = {p1, p2}
  CommitIds = {"c1", "c2"}
  IssueShapes <- BackmergeIssues
  PullShapes <- BackmergePulls
  RunOf <- MCRunOf
  Outcomes = {}
  HasPrevious = TRUE
  MaxFaults = 2
SYMMETRY Symmetric
CONSTRAINT BackmergeBound
INVARIANTS
  ReadyMeansInOrder
  VerdictIsExact
  QuarantineIsLocal
  NoFalseBlame
