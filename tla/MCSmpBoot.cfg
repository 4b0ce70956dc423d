\* Three cores, and between them an entry of the MADT that is not enabled;
\* tables that these cores just fit into.  The boot ends.
CONSTANTS
  Entries = 4
  Enabled = {1, 3}
  CpuEntries = 3
  TableEntries = 4
SPECIFICATION Spec
INVARIANTS
  RoomSuffices
  StacksPrivate
  NumbersAgree
  SchedulerCanStart
CHECK_DEADLOCK FALSE
