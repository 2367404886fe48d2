SPECIFICATION MCSpec
CONSTANTS
  n1 = n1
  n2 = n2
  h1 = h1
  h2 = h2
  None = None
  Name <- MCName
  Handle <- MCHandle
  NCluster = 2
  NEntry = 3
  Image <- NoImage
  ClusterSize = 2
  MaxSize = 3
  MaxChunk = 2
  BaseLen = 2
  ExtLen = 2
  Char = {"a", "b"}
  MaxPath = 6
  TblSectors = 1
  DirSectors = 1
  DataSectors = 2
SYMMETRY Symm
PROPERTIES
  UnlinkKeepsOthers
