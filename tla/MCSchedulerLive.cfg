\* Two cores, four tasks, fair cores.
CONSTANTS
  NCores = 2
  MaxTasks = 4
  NTasks = 4
  KernelTasks = {0}
  Work = 1
SPECIFICATION FairSpec
PROPERTIES
  NoStarvation
