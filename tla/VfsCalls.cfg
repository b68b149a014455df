SPECIFICATION Spec
CONSTANTS
  hello = hello
  info = info
  void = void
  absent = absent
  b0 = b0
  b1 = b1
  Name <- MCName
  Byte <- MCByte
  FileCount = 3
  FileName <- MCFileName
  Content <- MCContent
  MaxFds = 5
  Number <- MCNumber
  Length = {0, 1, 2, 5}
  Max <- MCMax
INVARIANTS
  TypeOK
PROPERTIES
  ImplementsOpenFiles
