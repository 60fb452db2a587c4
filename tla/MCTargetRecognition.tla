----------------------- MODULE MCTargetRecognition -----------------------
(* A small instance of TargetRecognition for the model checker.            *)
EXTENDS TargetRecognition

CONSTANTS n1, n2

DefaultList == [i \in 1 .. 2 |-> IF i = 1 THEN n1 ELSE Blank]
\* All off; a line that is no name, so the default; one name in the second slot.
Files == {<<Blank, Blank>>, <<"invalid">>, <<Blank, "comment", n2>>}
=============================================================================
