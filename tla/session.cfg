SPECIFICATION FairSpec
CONSTANTS
  c1 = c1
  c2 = c2
  c3 = c3
  Client = {c1, c2, c3}
  Node = {n1}
  Pid <- MCPid
  PidOf <- MCPidOf
INVARIANTS
  TypeOK
  CommitLock
  CommitAdmitted
PROPERTIES
  Answered
  KilledTerminates
  ImplementsLock
  FrozenButForLoad
