SPECIFICATION Spec
CONSTANTS
  Polls = 2
  Bits = {1, 2}
  Pattern <- MCPattern
  Magic <- MCMagic
  Cells = 2
  Tested = 1
  Disk <- MCDisk
  KernelStart = 2
  BlockSize = 2
  Tries = 2
  Sections = 8
  DdrPA = 3
  DdrVA = 7
  KernelSize = 1
  IdentitySize = 3
  UserVA = 1
  Peripheral = {2}
PROPERTY DevicesAreReady
CHECK_DEADLOCK FALSE
