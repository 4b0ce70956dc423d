\* Three cores that run ring-3 tasks.
CONSTANTS
  NCores = 3
  MaxTasks = 3
  NTasks = 3
  KernelTasks = {}
  Work = 1
SPECIFICATION Spec
INVARIANTS
  OwnKernelStack
