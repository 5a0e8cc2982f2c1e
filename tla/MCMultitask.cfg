SPECIFICATION FairSpec
CONSTANTS
  BLKSIZE = 2
  BlockC = 6
  WORD = 16
  PROCLIMIT = 4
  STACKSIZE = 2
  PROCTABSIZE = 2
  Images <- MCImages
INVARIANTS StacksOwned MemoryAccounted ContextsIntact NoPanicAfterBoot
PROPERTIES NobodySkipped EveryoneRuns KernelRuns BrokenStackDies
