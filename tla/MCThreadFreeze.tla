--------------------------- MODULE MCThreadFreeze ---------------------------
(* Small instances of ThreadFreeze for the model checker.                  *)
EXTENDS ThreadFreeze

\* The first thread may run anywhere; the second one too, or on one CPU.
SomeHomes == {[t \in Thread |-> IF t = 2 THEN set ELSE Cpu] : set \in {{1}, Cpu}}
=============================================================================
