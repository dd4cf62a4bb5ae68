CONSTANTS
  t1 = t1
  t2 = t2
  t3 = t3
  Tasks = {t1, t2}
  Identities = {"a", "b"}
  Documents = {"x", "y"}
  DocumentBytes <- MCDocumentBytes
  MetadataLimit = 3
  Dependencies <- MCDependencies
  Duration = 2
  LastStart = 1
  None = None
SPECIFICATION FairSpec
CHECK_DEADLOCK FALSE
PROPERTY AcquisitionsEnd
