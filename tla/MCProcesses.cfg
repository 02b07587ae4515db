SPECIFICATION ProcessesSpec
CONSTANTS
  MAX_PID = 2
  MAX_THREAD_ID = 2
  RESUME_POINTS = 2
  Index <- MCIndex
  NoFrame = 0
  KERNEL_PML4_START = 2
  KernelRoot = 1
  LowPdpt = 2
  Pool <- MCPool
  Leaves <- MCLeaves
  PrivateVA <- MCPrivateVA
  DYNAMIC_PAGES = 5
  MAX_VIRT_REGIONS = 3
  MAX_RUN = 4
  HEAP_INITIAL_PAGES = 1
  STACK_PAGES = 2
  MAX_PROCESSES = 1
INVARIANTS   StacksReachable SpacesFollowProcesses FramesBudgeted
 
CHECK_DEADLOCK FALSE
