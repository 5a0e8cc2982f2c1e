SPECIFICATION Spec
CONSTANTS
  BLKSIZE = 2
  BlockC = 9
  WORD = 64
  ENTCOUNT = 3
  MOUNTLIMIT = 1
  EntryVBytes = 2
  PathBytes = 2
  MountVBytes = 2
  NamePrefix <- MCNamePrefix
  Paths <- MCPaths
  Buffers <- MCBuffers
  Archives <- NoArchive
  Junk = Junk
  a = a
  ab = ab
  x = x
PROPERTY FileNameExists
