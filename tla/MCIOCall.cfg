SPECIFICATION Spec
CONSTANTS
  BLKSIZE = 4
  BlockC = 12
  WORD = 64
  ENTCOUNT = 6
  MOUNTLIMIT = 1
  EntryVBytes = 1
  PathBytes = 1
  MountVBytes = 1
  NamePrefix <- MCNamePrefix
  Junk = Junk
  MAXFD = 4
  U32 = 1
  Dev <- MCDev
  Keyboard <- MCKeyboard
  Mouse <- MCMouse
  Procs = {p1}
  Opens <- MCOpens
  Counts = {0, 3}
  Keys = {k1, k2}
  Packet <- MCPacket
  Held = {0, 2, 8}
  MaxAccepted = 2
  Zero = Zero
  dev = dev
  keyboard = keyboard
  mouse = mouse
  f = f
  g = g
  s = s
  x = x
  y = y
  k1 = k1
  k2 = k2
  p1 = p1
  p2 = p2
INVARIANTS DeviceFIFO BytesApart StoreSound PacketsWhole
