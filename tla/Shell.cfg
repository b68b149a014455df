SPECIFICATION Spec
CONSTANTS
  Letter = {"c", "e"}
  LineSize = 6
  MaxArgs = 2
  PutsSize = 2
  MaxWrite = 2
  CatSize = 3
  Commands <- MCCommands
  Number = {0, 10, 409}
  Tasks <- MCTasks
  Widths <- MCWidths
  Name <- MCName
  Byte <- MCByte
  FileCount = 2
  FileName <- MCFileName
  Content <- MCContent
  MaxFds = 5
INVARIANTS
  TypeOK
  LineIsWhatWasTyped
  EchoMatches
  ArgumentsAreWords
  CommandsPrint
  PromptHoldsNoFile
PROPERTIES
  CommandReturns
