CONSTANTS
  Sources <- MCSources
  Ids = {"idA", "idB"}
  Keys <- MCKeys
  Contexts = {"l1", "l2"}
  None = None
  Declarations <- MCDeclarations
  Yields <- MCYields
  Denotes <- MCDenotes
  Gate <- MCGate
  Broken = {"x"}
  Limits <- MCLimits
  Roots <- MCRoots
  Projects <- MCProjects
  Threads = 2
SPECIFICATION Spec
CHECK_DEADLOCK FALSE
INVARIANTS WalksSound SharedWorkBounded WholeOrLimited
PROPERTY Terminates
