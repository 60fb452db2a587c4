--------------------------- MODULE MCConfigCommit ---------------------------
(* Small instances of ConfigCommit for the model checker: two slots.       *)
EXTENDS ConfigCommit

FirstOnly == [pkgs |-> <<"a", Empty>>, states |-> <<On, Off>>]
BothNames == [pkgs |-> <<"a", "b">>, states |-> <<On, Off>>]
Swapped   == [pkgs |-> <<"b", "a">>, states |-> <<Off, On>>]
Tables    == {FirstOnly, BothNames, Swapped}

PkgsDefault   == <<"a", Empty>>
StatesDefault == <<On, Off>>

\* Another name, a duplicate, one that is not valid, and no file.
SomePkgs   == {<<"a", "c">>, <<"b", "b">>, <<Junk, "a">>, Missing}
SomeStates == {<<On, On>>, <<Off, Absent>>, Broken}

SomeCommands ==
    {[kind |-> "commit", mode |-> "enabled", policy |-> "disabled", table |-> Swapped],
     [kind |-> "controls", state |-> "enabled", policy |-> "disabled"],
     [kind |-> "controls", state |-> "disabled", policy |-> Empty],
     [kind |-> "toggle", target |-> "policy"],
     [kind |-> "setmode", state |-> "enabled"], [kind |-> "prepare"]}

\* An edit anywhere but between the last look at the table and the stat that
\* certifies it.
LookedAt == Label \ {"stat", "mark"}
=============================================================================
