SPECIFICATION Spec
CONSTANTS
  ENTRIES = 4
  LOW_PAGES = 32
  BOOTSTRAP_TABLE_COUNT = 10
  KERNEL_PML4_START = 2
  MAX_VIRT_REGIONS = 6
  Machines <- MCMachines
CHECK_DEADLOCK FALSE
INVARIANTS NothingBelowHugePages  KernelHalfBacked
