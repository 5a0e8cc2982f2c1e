SPECIFICATION InputSpec
CONSTANTS
  BLKSIZE = 4
  BlockC = 12
  WORD = 64
  ENTCOUNT = 6
  MOUNTLIMIT = 1
  EntryVBytes = 1
  PathBytes = 1
  MountVBytes = 1
  NamePrefix <- MCNamePrefix
  Junk = Junk
  MAXFD = 4
  U32 = 1
  Dev <- MCDev
  Keyboard <- MCKeyboard
  Mouse <- MCMouse
  Procs = {}
  Opens <- NoOpens
  Counts = {0}
  Keys = {43, 208, 91, 80, 219}
  Packet <- MCPacket
  Held = {0}
  MaxAccepted = 12
  Zero = Zero
  dev = dev
  keyboard = keyboard
  mouse = mouse
  Codes <- MCCodes
  Packets <- MCPackets
  MaxEvents = 2
  Machines <- MCMachines
INVARIANTS UnitsExact NothingDropped AnswersOwn BothPortsFound
PROPERTY Settles
