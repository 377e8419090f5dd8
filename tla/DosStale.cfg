SPECIFICATION Spec
CONSTANTS
  Name <- MCName
  Lower <- MCLower
  Tos <- MCLower
  Domain <- MCDomain
  MakeDirs <- MCMakeDirs
  Opens <- MCOpens
  Renames <- MCRenames
  Links <- MCLinks
  DirPaths <- MCDirPaths
  ReadPaths <- MCReadPaths
  FilePaths <- MCFilePaths
  Addr = {1, 2, 3}
  Root = 0
  NULL = NULL
  MAX_FD = 4
  MAX_DHD = 1
  ROOTSIZE = 2
  DEFAULTDIR = 1
  Proc = {"p", "q"}
  InitProc = "p"
  NSTD = 3
  NHDL = 1
  RamDrive = 2
CONSTRAINT Careful
INVARIANT NoStaleHandle
