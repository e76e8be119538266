SPECIFICATION FairSpec
CONSTANTS
  c1 = c1
  c2 = c2
  c3 = c3
  Conn = {c1, c3}
  Pid <- MCPid
  PidOf <- MCPidOf
  Uid = {"u1", "u2"}
  UidOf <- MCUidOf
  Super = {c3}
  Sid = {"A"}
  ValidateSid <- MCValidateSid
  MaxObj = 3
INVARIANTS
  TypeOK
  NamesAreLive
  RunningStays
PROPERTY CallsReturn
