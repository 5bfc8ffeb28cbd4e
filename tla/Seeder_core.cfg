SPECIFICATION FairSpec
CONSTANTS
  Milestones <- MCMilestones
  Labels <- MCLabels
  Issues <- MCIssues
  Closed <- MCClosed
  Operations = "release-operations"
  Attempts = 2
  Bounds <- MCBounds
INVARIANTS
  SuccessIsComplete
  NeverRefused
  OneOfEach
  EvidenceIsEarned
PROPERTIES
  NothingIsUndone
  Converges
CHECK_DEADLOCK FALSE
