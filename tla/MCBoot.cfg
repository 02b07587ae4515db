SPECIFICATION Spec
CONSTANTS
  MAX_TABLES = 3
  MAX_TRIES = 4
  MAX_CHANGES = 5
INVARIANTS ParsedMapIsFinal HaltNotSelfInflicted RsdpPreferred
PROPERTIES NoFirmwareCallAfterExit
CHECK_DEADLOCK FALSE
