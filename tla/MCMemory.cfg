SPECIFICATION Spec
CONSTANTS
  BLKSIZE = 4
  HDRSIZE = 2
  BlockC = 4
  WORD = 64
  KernelTop = 7
  FieldSize = 32
  Requests <- MCRequests
  Arrays <- MCArrays
  Val = {0, 1}
  Zero = 0
INVARIANTS TypeOK TableInv StaysInside MavailExact
PROPERTY ImplementsHeap
