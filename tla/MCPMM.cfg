SPECIFICATION Spec
CONSTANTS
  MAX_MANAGED_PAGES = 8
  BITS = 4
  MAX_REGIONS = 4
  ADDR_PAGES = 16
  MemoryMaps <- Maps
INVARIANTS Conservation verify_invariants
PROPERTIES FirstFit
