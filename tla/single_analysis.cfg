CONSTANTS
  Sources <- MCSources
  Ids = {"idA", "idB"}
  Keys <- MCKeys
  Contexts = {"l1", "l2"}
  None = None
  Declarations <- MCDeclarations
  Yields <- MCYields
  Denotes <- MCDenotes
  Gate <- MCGate
  Broken = {"x"}
  Limits <- MCLimits
  Root = "r1"
  RootMetadata <- FetchedRoot
  Projects <- MCProjects
  Threads = 2
SPECIFICATION Spec
CHECK_DEADLOCK FALSE
INVARIANTS WalkSound WholeOrLimited
PROPERTY Terminates
