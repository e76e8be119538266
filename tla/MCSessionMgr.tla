----------------------------- MODULE MCSessionMgr -----------------------------
(* Instances of SessionMgr: c1 and c2 are connections of one process, c3 is  *)
(* a connection of another process of another user.                          *)
EXTENDS SessionMgr

CONSTANTS c1, c2, c3

MCPid == {1, 2}
MCPidOf == [c \in Conn |-> IF c = c3 THEN 2 ELSE 1]
MCUidOf == [c \in Conn |-> IF c = c3 THEN "u2" ELSE "u1"]
MCValidateSid == [p \in MCPid |-> IF p = 1 THEN "VALIDATE1" ELSE "VALIDATE2"]
=============================================================================
