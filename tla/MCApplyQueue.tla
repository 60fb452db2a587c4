---------------------------- MODULE MCApplyQueue ----------------------------
(* Small instances of ApplyQueue for the model checker.                    *)
EXTENDS ApplyQueue, TLC

CONSTANTS c1, c2, w1, w2, service, p1, p2

OneClient == {c1}
TwoClients == {c1, c2}
TwoWorkers == {w1, w2}
TwoPkgs == {p1, p2}

\* Processes of one kind and package lists are interchangeable.
Symmetry == Permutations(TwoWorkers) \cup Permutations(TwoPkgs)
BothSymmetry == Symmetry \cup Permutations(TwoClients)

\* A kill anywhere except in the middle of the native transaction.
NotInPatch == Label \ {"patch"}
Anywhere == Label
=============================================================================
