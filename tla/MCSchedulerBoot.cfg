\* The boot processor alone, and the six tasks of bootMain.
CONSTANTS
  NCores = 1
  MaxTasks = 6
  NTasks = 6
  KernelTasks = {0}
  Work = 1
SPECIFICATION FairSpec
PROPERTIES
  AllTasksCreated
