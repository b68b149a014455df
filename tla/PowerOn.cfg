SPECIFICATION FairSpec
CONSTANTS
  Polls = 2
  Bits = {1, 2}
  Pattern <- MCPattern
  Magic <- MCMagic
  Cells = 2
  Tested = 1
  Disk <- MCDisk
  KernelStart = 2
  BlockSize = 2
  Tries = 2
  Sections = 8
  DdrPA = 3
  DdrVA = 7
  KernelSize = 1
  IdentitySize = 3
  UserVA = 1
  Peripheral = {2}
INVARIANTS
  TypeOK
  KernelIsTheImage
  CodeStaysMapped
  InterruptsHaveHandlers
  Isolated
  NoPhantomInterrupt
PROPERTIES
  BootEnds
  InterruptsEnd
\* A panic and a failed set-up of the timer stop the system.
CHECK_DEADLOCK FALSE
