----------------------------- MODULE MCPidLock ------------------------------
(* Small instances of PidLock for the model checker.                       *)
EXTENDS PidLock

CONSTANTS p1, p2, p3

Three == {p1, p2, p3}
=============================================================================
