SPECIFICATION Spec
CONSTANTS
  BLKSIZE = 4
  HDRSIZE = 2
  BlockC = 4
  WORD = 128
  KernelTop = 7
  FieldSize = 32
  Requests <- MCOversize
  Arrays <- MCArrays
  Val = {0, 1}
  Zero = 0
PROPERTY NullIfNotFound
