SPECIFICATION TimerSpec
CONSTANTS
  Rsdps <- MCRsdps
  NoRsdp = NoRsdp
  NoTable = NoTable
  NoMadt = NoMadt
  Irqs = {0, 1, 2, 3}
  Cascade = 2
  max_entries = 6
  MAX_IOAPICS = 2
  MAX_OVERRIDES = 3
  LAPIC_DEFAULT_BASE = 110
  IOAPIC_DEFAULT_BASE = 210
  OtherVector = 48
  COUNTER_MAX = 40
  PIT_CALIBRATION_HZ = 20
  TIMER_HZ = 100
  TIMER_FALLBACK_COUNT = 9
  PIT_WAIT_LIMIT = 4
  Speeds = {0, 1, 7, 10}
  Windows = {3, 4, 5}
CHECK_DEADLOCK FALSE
INVARIANTS    TimerAtRate
