SPECIFICATION FairSpec
CONSTANTS
  MaxTasks = 4
  BootTasks = {2}
  Shell = 1
PROPERTIES
  TimerServed
