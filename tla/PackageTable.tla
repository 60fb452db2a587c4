---------------------------- MODULE PackageTable ----------------------------
(* The package table of the configuration: packages.txt holds a name or    *)
(* nothing per slot, package_states a switch per slot, and the hidden      *)
(* baseline the names and the generation that normalize_package_config     *)
(* last worked on.  From the difference to the baseline it tells a file    *)
(* manager's edit of packages.txt from a commit of the web UI.             *)
EXTENDS Naturals, FiniteSets

CONSTANTS
    SlotCount,       \* 10 in the code
    Name,            \* names that valid_package accepts
    DefaultPkgs,     \* write_default_packages
    DefaultStates,   \* write_default_states
    Missing,         \* a file that is not there
    Broken           \* one with too many lines or bytes, or a wrong switch

Slot == 1 .. SlotCount

\* Values of a line: no name, a name that valid_package refuses; the switches,
\* and a line that a states file with fewer lines does not have.
Empty  == "empty"
Junk   == "junk"
On     == "1"
Off    == "0"
Absent == "absent"

Pkgs     == [Slot -> Name \cup {Empty, Junk}]
States   == [Slot -> {On, Off, Absent}]
Baseline == [pkgs : Pkgs, generation : Nat]

ASSUME TableAssumption ==
    /\ SlotCount \in Nat \ {0}
    /\ Empty \notin Name /\ Junk \notin Name
    /\ \A file \in {Missing, Broken} : file \notin Pkgs \cup States \cup Nat \cup Baseline
    /\ Missing # Broken
    /\ DefaultPkgs \in Pkgs /\ DefaultStates \in [Slot -> {On, Off}]

AllEmpty(pkgs) == \A i \in Slot : pkgs[i] = Empty

\* Mutant of External: the generation is not compared.
ExternalByNames(pkgs, states, generation, base) ==
    /\ states # Missing /\ base # Missing
    /\ pkgs # base.pkgs

\* The names were changed and the generation was not: a file manager.
External(pkgs, states, generation, base) ==
    /\ states # Missing /\ base # Missing
    /\ pkgs # base.pkgs /\ generation = base.generation

Occurrences(pkgs, i) == Cardinality({j \in Slot : pkgs[j] = pkgs[i]})

\* Mutant of Switch: a new name is switched on where the slot was on before.
SwitchAsGiven(pkgs, states, generation, base, i) ==
    LET given == IF states = Missing \/ states[i] = Absent THEN On ELSE states[i]
    IN  IF pkgs[i] = Empty THEN Off ELSE given

\* The switch of a slot: a name that a file manager has put there is switched
\* on if it is valid and the only one of its kind; otherwise the states file
\* decides, or the name's presence where that has no line.
Switch(pkgs, states, generation, base, i) ==
    LET renamed == External(pkgs, states, generation, base) /\ pkgs[i] # base.pkgs[i]
        given   == IF states = Missing \/ states[i] = Absent THEN On ELSE states[i]
    IN  IF pkgs[i] = Empty THEN Off
        ELSE IF ~renamed THEN given
        ELSE IF pkgs[i] \in Name /\ Occurrences(pkgs, i) = 1 THEN On ELSE Off

Switches(pkgs, states, generation, base) ==
    [i \in Slot |-> Switch(pkgs, states, generation, base, i)]

\* The active slots hold valid names, no two the same.
WellFormed(pkgs, on) ==
    /\ \A i \in Slot : on[i] = On => pkgs[i] \in Name
    /\ \A i, j \in Slot : on[i] = On /\ on[j] = On /\ pkgs[i] = pkgs[j] => i = j

ASSUME DefaultsAssumption ==
    /\ WellFormed(DefaultPkgs, DefaultStates)
    /\ \A i \in Slot : DefaultPkgs[i] \in Name => DefaultStates[i] = On

\* What normalize_package_config makes of the files: the table to write, or
\* the defaults (and no baseline).
Normalized(pkgs, states, generation, base) ==
    LET defaults == [pkgs |-> DefaultPkgs, states |-> DefaultStates, default |-> TRUE]
        on == Switches(pkgs, states, generation, base)
    IN  IF \/ pkgs \in {Missing, Broken} \/ states = Broken
           \/ states = Missing /\ AllEmpty(pkgs)
        THEN defaults
        ELSE IF WellFormed(pkgs, on)
             THEN [pkgs |-> pkgs, states |-> on, default |-> FALSE]
             ELSE defaults

\* generate_runtime_config: the names of the slots that are on.
Runtime(pkgs, states) ==
    IF pkgs \in {Missing, Broken} \/ states \in {Missing, Broken} THEN Broken
    ELSE [i \in Slot |-> IF states[i] = On THEN pkgs[i] ELSE Empty]
=============================================================================
