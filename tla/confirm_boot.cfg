SPECIFICATION Spec
CONSTANTS
  Client = {"c1", "c2"}
  Reverter = "revert"
  Config = {"A", "B"}
  BootConfig = "A"
  PersistId = {"p"}
  MaxUint <- MCMaxUint
  TimeoutArg <- MCTimeoutArg
  MaxRequests = 2
INVARIANT CommitSaves
CHECK_DEADLOCK FALSE
