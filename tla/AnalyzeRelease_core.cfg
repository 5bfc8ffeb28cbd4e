SPECIFICATION FairSpec
CONSTANTS
  MaxAge = 0
  MaxClock = 1
  MaxVersion <- MCMaxVersion
  Resources <- MCResources
  Commits <- MCCommits
  Mentions <- MCMentions
  ChecksIn <- MCChecksIn
  RestOf <- MCRestOf
  RestCodesOf <- MCRestCodesOf
  PolicyVersions <- MCPolicyVersions
INVARIANTS
  OneInstant
  ReadyWasTrue
PROPERTIES
  Ends
CHECK_DEADLOCK FALSE
