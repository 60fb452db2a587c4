------------------------- MODULE MCPatchTransaction -------------------------
(* Small instances of PatchTransaction for the model checker.              *)
EXTENDS PatchTransaction

CONSTANTS l1, l2

TwoLists == {l1, l2}

Global(relaxed)          == [mode |-> "global", relaxed |-> relaxed, list |-> l1]
Whitelist(relaxed, list) == [mode |-> "whitelist", relaxed |-> relaxed, list |-> list]

Both          == {Global(FALSE), Global(TRUE), Whitelist(TRUE, l2)}
=============================================================================
