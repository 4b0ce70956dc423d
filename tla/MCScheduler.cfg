\* Two cores, four tasks, one of them a ring-0 task as in bootMain.
CONSTANTS
  NCores = 2
  MaxTasks = 4
  NTasks = 4
  KernelTasks = {0}
  Work = 2
SPECIFICATION Spec
INVARIANTS
  TypeOK
  OneCorePerTask
  ContextIntact
  OwnAddressSpace
  OwnKernelStack
  StackShared
  StartOrder
  BoundedWait
PROPERTIES
  ImplementsRoundRobin
