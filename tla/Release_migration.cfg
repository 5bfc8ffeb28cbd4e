SPECIFICATION Spec
CONSTANTS
  MaxAge = 1
  i1 = i1
  p1 = p1
  IssueNumbers = {i1}
  PullNumbers = {p1}
  CommitIds = {"c1"}
  IssueShapes <- MigrationIssues
  PullShapes <- ScopePulls
  RunOf <- MCRunOf
  Outcomes = {"success", "failure"}
  HasPrevious = FALSE
  MaxFaults = 0
SYMMETRY Symmetric
INVARIANTS
  MigrationsAreEvidenced
