SPECIFICATION FairSpec
CONSTANTS
  MaxTasks = 4
  BootTasks = {2, 5}
  Shell = 1
INVARIANTS
  TypeOK
  BooksAgree
  ReadyIsResumable
  IdleAlwaysThere
  CanaryCaught
  YieldNeverRefused
  MaskedIdleFollowsAbort
PROPERTIES
  DeadStaysDead
  ImplementsRoundRobin
  ReadyRuns
