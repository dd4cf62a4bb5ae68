CONSTANTS
  None = None
  Urls <- MCUrls
  Root = "r"
  Contents <- MCContents
  Imports <- MCImports
  Bytes <- MCBytes
  Origin <- MCOrigin
  Lockfiles <- MCLockfiles
  Policies <- MCPolicies
  MaxRedirects = 2
  MaxRequests = 6
  MaxResponse = 2
  MaxDownloaded = 4
  MaxModules = 3
  MaxFiles = 5
SPECIFICATION FairSpec
CHECK_DEADLOCK FALSE
INVARIANTS WithinLimits GraphClosed BoundToLockfile PolicyHolds RebuiltAsPublished
PROPERTY GraphEnds
