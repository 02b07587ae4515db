SPECIFICATION Spec
CONSTANTS
  NULL = 0
  ALIGN = 2
  HEADER_SIZE = 4
  MIN_BLOCK_PAYLOAD = 2
  PAGE_SIZE = 8
  HEAP_START = 8
  HEAP_INITIAL_PAGES = 1
  HEAP_GROWTH_STEP_PAGES = 1
  MAX_EXPAND_PAGES = 2
  FRAMES = 2
  Layouts <- MCLayouts
INVARIANTS Tiling verify_invariants FreedOnce
PROPERTIES ExpansionServes ContractSpec
