SPECIFICATION MCSpec
CHECK_DEADLOCK FALSE
CONSTANTS
  MaxExtractedFiles = 4
  MaxExtractedSize = 5
  MaxDepth = 2
  MaxManifestFileSize = 2
  MaxChanges = 2
  MaxPackages = 3
  MaxDeclared = 4
  Environments <- MCEnvironments
  MaxImports = 3
  MaxImportMaps = 2
  MaxRedirectHops = 2
  DenoProjects <- MCDenoProjects
  Queries <- MCQueries
  Projects <- MCProjects
  BaseName <- MCBaseName
  Archives <- MCArchives
  Packages <- MCPackages
  Requests <- MCRequests
  Reads <- MCReads
  KindOf <- MCKindOf
  TargetOf <- MCTargetOf
  Trees <- MCTrees
  Sizes <- MCSizes
  Changes <- MCChanges
  None = None
  MaxRedirects = 2
  MaxRequests = 5
  MaxResponse = 1
  MaxDownloaded = 3
  Urls <- MCUrls
  Loopback <- MCLoopback
  Setups <- MCSetups
  Acquisitions <- MCAcquisitions
  ListedUrls <- MCListedUrls
INVARIANTS DeclarationsStayVisible
