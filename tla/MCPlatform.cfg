SPECIFICATION Spec
CONSTANTS
  Machines <- MCMachines
  Lines = 4
  MaxEntries = 3
  PciCapacity = 3
  DevicesPerBus = 2
  Functions = 2
  MaxDepth = 3
INVARIANTS OnlyBadFirmwareBreaks FirmwareUnderstood
CHECK_DEADLOCK FALSE
