------------------------------ MODULE MCSession ------------------------------
(* Instances of Session: c1 and c2 are connections of one process, c3 is a  *)
(* connection of another.                                                   *)
EXTENDS Session

CONSTANTS c1, c2, c3

MCPid == {1, 2}
MCPidOf == [c \in Client |-> IF c = c3 THEN 2 ELSE 1]
=============================================================================
