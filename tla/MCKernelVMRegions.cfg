SPECIFICATION Spec
CONSTANTS
  Index <- MCIndex
  NoFrame = 0
  DYNAMIC_PAGES = 9
  MAX_VIRT_REGIONS = 4
  MAX_RUN = 4
  KERNEL_PML4_START = 2
  Root = 1
  Pool <- MCPool
  HEAP_INITIAL_PAGES = 1
  Sizes <- MCSizes
INVARIANTS RegionsReleased
CHECK_DEADLOCK FALSE
