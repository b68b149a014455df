SPECIFICATION FairSpec
CONSTANTS
  Byte = {b0, b1}
  NoByte = none
  Size = 3
  FifoSize = 2
  Burst = 2
INVARIANTS
  TypeOK
  AvailableIsReadable
PROPERTIES
  ImplementsQueue
  LossOnlyWhenFull
  BytesAreRead
