SPECIFICATION Spec
CONSTANTS
  two = two
  wrap = wrap
  long = long
  far = far
  cut = cut
  out = out
  top = top
  d0 = d0
  d1 = d1
  sh = sh
  zero = zero
  junk = junk
  kernel = kernel
  root = root
  Name <- MCName
  Byte <- MCByte
  MaxFds = 5
  Words = 9
  UserBase = 2
  UserSize = 5
  SvcStack = 1
  Unmapped = {7}
  MaxPath = 1
  Zero = zero
  Unwritten = junk
  KernelCell = kernel
  Payload <- MCPayload
  StoredAt = {5}
  FileCount = 7
  FileName <- MCFileName
  Content <- MCContent
  Stored <- MCStored
  Number = {3, 5}
  Pointer = {2, 5, 7}
  Buffer = {2, 7}
  Length = {4}
  Registers <- MCRegisters
  Typed = {d0}
  MaxWrite = 2
  EntrySize = 3
  Count = {1, 3, 6}
  Info = sh
  TaskCount = 3
  Root = root
  MaxDepth = 1
INVARIANTS
  StartsOnFreshStack
