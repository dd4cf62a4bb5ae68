CONSTANTS
  f1 = f1
  f2 = f2
  p1 = p1
  k1 = k1
  Fetchers = {f1, f2}
  Purgers = {p1}
  Keys = {k1}
  Slots = {"s1", "s2", "s3", "s4", "s5"}
  Inodes = {"i1", "i2", "i3", "i4"}
  Versions = {"v1", "v2"}
  VersionOf <- TwoVersions
  SmallLimit = {}
  InitialEntries = {"none", "damaged", "file", "v1"}
  Ops <- F1Again
  IoFaults = TRUE
  Lifecycle = Lifecycle
  None = None
SPECIFICATION Spec
CHECK_DEADLOCK FALSE
INVARIANTS EntryExclusion NeverHalfPublished StagingIntact
PROPERTIES DisplacedOnlyIfRejected ReadStable SuccessLeavesUsableEntry ImplementsPromise
