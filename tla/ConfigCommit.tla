---------------------------- MODULE ConfigCommit ----------------------------
(* What bin/a2h_apply does with the five configuration files under the     *)
(* config lock: grouped commits with backup and abort, the fast switches,  *)
(* and prepare_config with its fast path.  A root file manager edits the   *)
(* files at any time and without the lock.  The lock itself is PidLock's;  *)
(* here one process at a time is between acquire and release.              *)
EXTENDS PackageTable, Sequences

CONSTANTS
    Command,         \* the commands that are given
    Table,           \* tables that the arguments of a commit pass the checks with
    EditedPkgs,      \* what file managers make of packages.txt
    EditedStates,    \* and of package_states
    EditAt,          \* labels of the lock's holder at which a file manager may write
    Passes,          \* 4 in the code
    Repeat,          \* may an edit bring back just what prepare compares with?
    MaxSessions, MaxEdits, MaxFaults   \* bounds; a signal or a kill counts as a fault

File      == {"state", "policy", "pkgs", "states", "generation"}
TableFile == {"pkgs", "states", "generation"}
Order     == <<"state", "policy", "pkgs", "states", "generation">>
Value     == {"enabled", "disabled"}

Label == {"idle", "backup", "move", "chmod", "compare", "stat", "certify", "uncertify",
          "cleanup", "release", "restore", "late", "mark", "match", "first", "second",
          "unfirst", "unsecond", "recheck", "fast", "fastgen", "fastconfirm", "input",
          "mode", "policy", "read", "pkgs", "states", "base", "output", "generate",
          "confirm"}

VARIABLES
    file,         \* the contents of the five files
    base,         \* the hidden baseline, or Missing
    cert,         \* the normalized fingerprint: the files that were replaced
                  \* since the stat that it was computed from, or Missing
    tmp,          \* a2h_packages.txt
    pc, at, req,  \* the process that holds the config lock
    new,          \* what a commit is to install.  The generation is the time at
                  \* which the web UI made it, so it is another one every time
    old,          \* its backups; Missing where it has none (the had-flags)
    moved,        \* files that were replaced since its last stat
    saw,          \* contents of the files at its last signature
    norm,         \* what normalize_package_config is about to write
    pass,         \* prepare_pass
    certified,    \* did the fingerprint match when the switch began?
    rc,           \* the exit status so far
    tail,         \* the files a commit had no backup of, between its release
                  \* of the lock and the reset of its traps, or Missing
    sessions, edits, faults,
    entry, edited, broke, asked, renamed    \* history, see the properties

disk    == <<file, base, cert, tmp>>
holder  == <<at, req, new, old, saw, norm, pass, certified>>
spent   == <<sessions, edits, faults>>
history == <<entry, edited, asked, renamed>>
vars    == <<disk, holder, moved, pc, rc, tail, spent, broke, history>>

Nowhere == [f \in File |-> Missing]

\* The generation that normalize_package_config reads.
GenOf(files) == IF files["generation"] \in Nat THEN files["generation"] ELSE 0
Generation == GenOf(file)

NewFiles(mode, policy, table, generation) ==
    [f \in File |-> CASE f = "state"  -> mode
                      [] f = "policy" -> policy
                      [] f = "pkgs"   -> table.pkgs
                      [] f = "states" -> table.states
                      [] OTHER        -> generation]

Commands ==
    [kind : {"commit"}, mode : Value, policy : Value, table : Table]
    \cup [kind : {"controls"}, state : Value \cup {Empty}, policy : Value \cup {Empty}]
    \cup [kind : {"toggle"}, target : {"state", "policy"}]
    \cup [kind : {"setmode"}, state : Value]
    \cup [kind : {"prepare"}]

ASSUME CommandAssumption ==
    /\ Command \subseteq Commands
    /\ Table \subseteq [pkgs : [Slot -> Name \cup {Empty}], states : [Slot -> {On, Off}]]
    /\ \A t \in Table : WellFormed(t.pkgs, t.states)
ASSUME BoundsAssumption ==
    Passes \in Nat \ {0} /\ {MaxSessions, MaxEdits, MaxFaults} \subseteq Nat
ASSUME EditAssumption ==
    /\ EditedPkgs \subseteq Pkgs \cup {Missing, Broken}
    /\ EditedStates \subseteq States \cup {Missing, Broken}
ASSUME MissingAssumption ==
    Missing # {} /\ Missing \notin Commands /\ {Missing, Broken} \cap Value = {}

-----------------------------------------------------------------------------
(* Elementary operations.                                                  *)

Goto(label) == pc' = label

\* A call at the present label fails, or a signal arrives.
FaultAt(label) == /\ faults < MaxFaults /\ faults' = faults + 1
                  /\ broke' = broke \cup {label}
Fault   == FaultAt(pc)
NoFault == UNCHANGED <<faults, broke>>

\* A file is replaced or written.  Whoever compares the stat (inode, size,
\* time) of before sees it.
Replace(f, contents) ==
    /\ file' = [file EXCEPT ![f] = contents]
    /\ moved' = moved \cup {f}
    /\ cert' = IF cert = Missing THEN Missing ELSE cert \cup {f}

\* commit_tmp: a file that has these contents already is left alone.
Put(f, contents) ==
    IF file[f] = contents THEN UNCHANGED <<file, moved, cert>> ELSE Replace(f, contents)

\* The saved fingerprint is that of the files as they are.
Matches == cert = {} /\ \A f \in File : file[f] # Missing

KeptBut == UNCHANGED <<base, tmp, tail, sessions, edits, entry, edited, renamed>>
Kept    == KeptBut /\ UNCHANGED asked

\* The holder has seen that nothing was edited so far.
Seen(still) ==
    /\ edited' = (edited /\ ~still)
    /\ UNCHANGED <<base, tmp, tail, sessions, edits, entry, asked, renamed>>

-----------------------------------------------------------------------------
(* acquire_config_lock.                                                    *)

First(kind) ==
    CASE kind = "commit"   -> "backup"
      [] kind = "controls" -> "mark"
      [] kind = "toggle"   -> "match"
      [] kind = "setmode"  -> "second"
      [] OTHER             -> "fast"

Begin ==
    /\ pc = "idle" /\ sessions < MaxSessions /\ sessions' = sessions + 1
    /\ req' \in Command /\ Goto(First(req'.kind))
    /\ req'.kind = "commit" => tail = Missing
    /\ new' = IF req'.kind = "commit"
              THEN NewFiles(req'.mode, req'.policy, req'.table, sessions') ELSE Nowhere
    /\ at' = 1 /\ pass' = 1 /\ rc' = 0 /\ old' = Nowhere
    /\ entry' = file /\ edited' = FALSE /\ broke' = {}
    /\ renamed' = IF req'.kind = "prepare" THEN renamed ELSE {}
    /\ UNCHANGED <<disk, moved, saw, norm, certified, tail, edits, faults, asked>>

\* The lock is free again; what the process knew is gone.
End(status) ==
    /\ Goto("idle") /\ rc' = status
    /\ at' = 1 /\ old' = Nowhere /\ saw' = Nowhere /\ norm' = Missing /\ pass' = 1
    /\ certified' = FALSE /\ UNCHANGED <<req, new>>

-----------------------------------------------------------------------------
(* commit_config_and_queue.                                                *)

Fails(status) == rc' = status /\ Goto("restore") /\ at' = 1

NextFile(label) ==
    IF at < 5 THEN at' = at + 1 /\ UNCHANGED pc ELSE at' = 1 /\ Goto(label)

\* One file is copied aside, if there is one.
Backup ==
    /\ pc = "backup"
    /\ \/ /\ old' = [old EXCEPT ![Order[at]] = file[Order[at]]]
          /\ NextFile("move") /\ NoFault /\ UNCHANGED <<rc, asked>>
       \/ /\ file[Order[at]] # Missing /\ Fault /\ Fails(74) /\ asked' = Missing
          /\ UNCHANGED old
    /\ KeptBut /\ UNCHANGED <<file, cert, moved, req, new, saw, norm, pass, certified>>

\* mv of a finished file over the old one.
Move ==
    /\ pc = "move"
    /\ \/ /\ Replace(Order[at], new[Order[at]])
          /\ NextFile("chmod") /\ NoFault /\ UNCHANGED rc
       \/ Fault /\ Fails(74) /\ UNCHANGED <<file, cert, moved>>
    /\ Kept /\ UNCHANGED <<req, new, old, saw, norm, pass, certified>>

Chmod ==
    /\ pc = "chmod"
    /\ \/ Goto("compare") /\ NoFault /\ UNCHANGED <<at, rc>>
       \/ Fault /\ Fails(74)
    /\ Kept /\ UNCHANGED <<file, cert, moved, req, new, old, saw, norm, pass, certified>>

\* The value signature of what is there and of what was to be written.
Compare ==
    /\ pc = "compare" /\ Goto(IF file = new THEN "stat" ELSE "uncertify")
    /\ Kept /\ NoFault /\ UNCHANGED <<file, cert, moved, rc, holder>>

\* record_normalized_fingerprint: stat, then write.
Stat ==
    /\ pc = "stat"
    /\ IF \A f \in File : file[f] # Missing
       THEN moved' = {} /\ Goto("certify")
       ELSE Goto("uncertify") /\ UNCHANGED moved
    /\ Kept /\ NoFault /\ UNCHANGED <<file, cert, rc, holder>>

Finish == IF req.kind = "commit" THEN "cleanup" ELSE "release"

Certify ==
    /\ pc = "certify"
    /\ \/ cert' = moved /\ Goto(Finish) /\ NoFault
       \/ Fault /\ Goto("uncertify") /\ UNCHANGED cert
    /\ Kept /\ UNCHANGED <<file, moved, rc, holder>>

Uncertify ==
    /\ pc = "uncertify" /\ cert' = Missing /\ Goto(Finish)
    /\ Kept /\ NoFault /\ UNCHANGED <<file, moved, rc, holder>>

\* The backups are removed.
Cleanup ==
    /\ pc = "cleanup" /\ Goto("release")
    /\ Kept /\ NoFault /\ UNCHANGED <<file, cert, moved, rc, holder>>

NoBackup == {f \in File : old[f] = Missing}

\* release_config_lock; the traps of a commit are reset only after it.
Release ==
    /\ pc = "release"
    /\ \/ /\ End(rc) /\ NoFault
          /\ tail' = IF req.kind = "commit" THEN NoBackup ELSE tail
          /\ asked' = IF req.kind = "commit" /\ ~edited
                      THEN [pkgs |-> new["pkgs"], states |-> new["states"]]
                      ELSE asked
       \/ /\ Fault /\ UNCHANGED tail
          /\ IF req.kind = "commit"
             THEN Goto("late") /\ rc' = 75 /\ asked' = Missing /\ UNCHANGED holder
             ELSE End(IF rc = 0 THEN 1 ELSE rc) /\ UNCHANGED asked
    /\ UNCHANGED <<disk, moved, sessions, edits, entry, edited, renamed>>

\* Mutant of Restore: the generation, the fifth file, is forgotten.
RestoreFour ==
    /\ pc = "restore"
    /\ \/ NoFault /\ Replace(Order[at], old[Order[at]]) /\ UNCHANGED asked
       \/ /\ Fault /\ asked' = Missing
          /\ \E c \in {file[Order[at]], Broken} : Replace(Order[at], c)
    /\ IF at < 4
       THEN /\ at' = at + 1 /\ UNCHANGED <<pc, rc, req, new, old, saw, norm, pass, certified>>
       ELSE End(rc)
    /\ KeptBut

\* commit_config_abort, from the EXIT trap or a signal: every file is copied
\* back, or removed where there is no backup; then the lock is released.
Restore ==
    /\ pc = "restore"
    /\ \/ NoFault /\ Replace(Order[at], old[Order[at]]) /\ UNCHANGED asked
       \/ /\ Fault /\ asked' = Missing
          /\ \E c \in {file[Order[at]], Broken} : Replace(Order[at], c)
    /\ IF at < 5
       THEN /\ at' = at + 1 /\ UNCHANGED <<pc, rc, req, new, old, saw, norm, pass, certified>>
       ELSE End(rc)
    /\ KeptBut

\* The same when the backups are gone: the copies fail, the removals do not.
Remove(files) ==
    /\ file' = [f \in File |-> IF f \in files THEN Missing ELSE file[f]]
    /\ moved' = moved \cup files
    /\ cert' = IF cert = Missing THEN Missing ELSE cert \cup files

Late ==
    /\ pc = "late" /\ Remove(NoBackup) /\ End(rc)
    /\ Kept /\ NoFault

\* HUP, INT or TERM: commit_config_signal.  A second one kills.
Signal ==
    /\ pc # "idle" /\ req.kind = "commit" /\ rc # 130 /\ Fault
    /\ rc' = 130 /\ at' = 1
    /\ Goto(IF pc \in {"release", "late"} THEN "late" ELSE "restore")
    /\ asked' = Missing
    /\ UNCHANGED <<disk, moved, req, new, old, saw, norm, pass, certified, tail, sessions, edits,
                   entry, edited, renamed>>

\* A signal after the release and before the traps are reset.
TailSignal ==
    /\ tail # Missing /\ FaultAt("tail")
    /\ Remove(tail) /\ tail' = Missing /\ edited' = TRUE /\ asked' = Missing
    /\ renamed' = {}
    /\ UNCHANGED <<base, tmp, pc, rc, holder, sessions, edits, entry>>

TailEnd ==
    /\ tail # Missing /\ tail' = Missing
    /\ UNCHANGED <<disk, moved, pc, rc, holder, spent, broke, history>>

-----------------------------------------------------------------------------
(* set_controls, toggle_mode, toggle_game_auto_pause and set_mode.         *)

\* set_controls: does the fingerprint match, and what is there before?
Mark ==
    /\ pc = "mark" /\ req.kind = "controls" /\ Goto("first")
    /\ certified' = Matches /\ moved' = {}
    /\ old' = [old EXCEPT !["state"] = file["state"], !["policy"] = file["policy"]]
    /\ Kept /\ NoFault /\ UNCHANGED <<file, cert, rc, at, req, new, saw, norm, pass>>

\* toggle_*: the same in two steps.
Match ==
    /\ pc = "match" /\ certified' = Matches
    /\ Goto(IF certified' THEN "mark" ELSE "first")
    /\ Kept /\ NoFault /\ UNCHANGED <<file, cert, moved, rc, at, req, new, old, saw, norm, pass>>

MarkTable ==
    /\ pc = "mark" /\ req.kind = "toggle" /\ moved' = {} /\ Goto("first")
    /\ Kept /\ NoFault /\ UNCHANGED <<file, cert, rc, holder>>

\* An invalid mode means whitelist, an invalid policy stock.
Valid(f, contents) ==
    IF contents \in Value THEN contents ELSE IF f = "state" THEN "disabled" ELSE "enabled"

Other(value) == IF value = "enabled" THEN "disabled" ELSE "enabled"

\* An empty argument of set_controls leaves its file alone.
Left(value) == req.kind = "controls" /\ value = Empty

\* The first write of a switch: the mode, or the file to toggle normalised.
FirstFile == IF req.kind = "toggle" THEN req.target ELSE "state"
FirstValue ==
    IF req.kind = "toggle" THEN Valid(req.target, file[req.target])
    ELSE IF Left(req.state) THEN file["state"] ELSE req.state

\* The second: the policy, the toggled value, or the mode of set_mode.
SecondFile ==
    CASE req.kind = "toggle" -> req.target
      [] req.kind = "setmode" -> "state"
      [] OTHER -> "policy"
SecondValue ==
    CASE req.kind = "toggle" -> Other(norm)
      [] req.kind = "setmode" -> req.state
      [] OTHER -> IF Left(req.policy) THEN file["policy"] ELSE req.policy

\* Where a failing write of a switch leads.
Otherwise == IF req.kind = "controls" THEN "unfirst"
             ELSE IF req.kind = "toggle" THEN "uncertify" ELSE "release"

WriteFirst ==
    /\ pc = "first"
    /\ \/ Put(FirstFile, FirstValue) /\ Goto("second") /\ NoFault /\ UNCHANGED rc
       \/ /\ (req.kind = "toggle" \/ ~Left(req.state)) /\ Fault
          /\ Goto(Otherwise) /\ rc' = 1 /\ UNCHANGED <<file, moved, cert>>
    /\ norm' = IF req.kind = "toggle" THEN FirstValue ELSE norm
    /\ Kept /\ UNCHANGED <<at, req, new, old, saw, pass, certified>>

\* Mutant of WriteSecond: a write that fails is passed over.
WriteSecondRegardless ==
    /\ pc = "second" /\ Goto(IF req.kind = "setmode" THEN "release" ELSE "recheck")
    /\ \/ Put(SecondFile, SecondValue) /\ NoFault
       \/ (req.kind = "controls" => ~Left(req.policy)) /\ Fault /\ UNCHANGED <<file, moved, cert>>
    /\ Kept /\ UNCHANGED <<rc, holder>>

WriteSecond ==
    /\ pc = "second"
    /\ \/ /\ Put(SecondFile, SecondValue) /\ NoFault /\ UNCHANGED rc
          /\ Goto(IF req.kind = "setmode" THEN "release" ELSE "recheck")
       \/ /\ (req.kind = "controls" => ~Left(req.policy)) /\ Fault
          /\ Goto(Otherwise) /\ rc' = 1 /\ UNCHANGED <<file, moved, cert>>
    /\ Kept /\ UNCHANGED holder

\* The rollback of set_controls.
UnwriteFirst ==
    /\ pc = "unfirst" /\ Goto("unsecond")
    /\ \/ Put("state", old["state"]) /\ NoFault
       \/ Fault /\ UNCHANGED <<file, moved, cert>>
    /\ Kept /\ UNCHANGED <<rc, holder>>

UnwriteSecond ==
    /\ pc = "unsecond" /\ Goto("uncertify")
    /\ \/ Put("policy", old["policy"]) /\ NoFault
       \/ Fault /\ UNCHANGED <<file, moved, cert>>
    /\ Kept /\ UNCHANGED <<rc, holder>>

\* Mutant of Recheck: the table's stat is not compared.
RecheckWithoutTable ==
    /\ pc = "recheck"
    /\ IF certified /\ (\A f \in File : file[f] # Missing)
       THEN IF req.kind = "controls" THEN Goto("certify") /\ moved' = {}
                                     ELSE Goto("stat") /\ UNCHANGED moved
       ELSE Goto("uncertify") /\ UNCHANGED moved
    /\ Kept /\ NoFault /\ UNCHANGED <<file, cert, rc, holder>>

\* Only the files of the table are compared; set_controls certifies the very
\* stat that it compares, a toggle takes another one.
Recheck ==
    /\ pc = "recheck"
    /\ IF certified /\ (moved \cap TableFile = {}) /\ (\A f \in File : file[f] # Missing)
       THEN IF req.kind = "controls" THEN Goto("certify") /\ moved' = {}
                                     ELSE Goto("stat") /\ UNCHANGED moved
       ELSE Goto("uncertify") /\ UNCHANGED moved
    /\ Kept /\ NoFault /\ UNCHANGED <<file, cert, rc, holder>>

-----------------------------------------------------------------------------
(* prepare_config_unlocked.                                                *)

\* exec 3< of a file that is not there ends the shell.
Readable == Missing \notin {file["pkgs"], file["states"]}

GenerateTo(label, instead) ==
    /\ \/ /\ Readable /\ tmp' = Runtime(file["pkgs"], file["states"])
          /\ Goto(label) /\ NoFault /\ UNCHANGED rc
       \/ ~Readable /\ Goto("release") /\ rc' = 1 /\ NoFault /\ UNCHANGED tmp
       \/ Readable /\ Fault /\ instead /\ UNCHANGED tmp
    /\ UNCHANGED <<file, base, cert, moved, holder, tail, sessions, edits, history>>

\* The fast path: no normalisation if the fingerprint matches.
Fast ==
    /\ pc = "fast"
    /\ IF Matches /\ file["state"] \in Value /\ file["policy"] \in Value
       THEN Goto("fastgen") /\ moved' = {}
       ELSE Goto("input") /\ UNCHANGED moved
    /\ Kept /\ NoFault /\ UNCHANGED <<file, cert, rc, holder>>

FastGenerate ==
    pc = "fastgen" /\ GenerateTo("fastconfirm", Goto("input") /\ UNCHANGED rc)

\* Mutant of FastConfirm: the second fingerprint is not compared.
FastConfirmAlways ==
    /\ pc = "fastconfirm"
    /\ \/ Goto("release") /\ NoFault /\ UNCHANGED rc
       \/ Fault /\ Goto("input") /\ UNCHANGED rc
    /\ Seen(pc' = "release") /\ UNCHANGED <<file, cert, moved, holder>>

\* Nothing was replaced while the files were read.
FastConfirm ==
    /\ pc = "fastconfirm"
    /\ \/ /\ Goto(IF moved = {} /\ Matches THEN "release" ELSE "input")
          /\ NoFault /\ UNCHANGED rc
       \/ moved = {} /\ Matches /\ Fault /\ Goto("input") /\ UNCHANGED rc
    /\ Seen(pc' = "release") /\ UNCHANGED <<file, cert, moved, holder>>

\* Mutant of Input: later passes compare with the signature of the first.
InputOnce ==
    /\ pc = "input" /\ saw' = IF pass = 1 THEN file ELSE saw
    /\ Goto("mode") /\ Kept /\ NoFault
    /\ UNCHANGED <<file, cert, moved, rc, at, req, new, old, norm, pass, certified>>

\* The full path: a signature, three normalisations, a signature.
Input ==
    /\ pc = "input" /\ saw' = file /\ Goto("mode")
    /\ Kept /\ NoFault
    /\ UNCHANGED <<file, cert, moved, rc, at, req, new, old, norm, pass, certified>>

\* One write of the normalisation, or the end of the attempt.
Normalise(label, f, contents, next) ==
    /\ pc = label
    /\ \/ Put(f, contents) /\ Goto(next) /\ NoFault /\ UNCHANGED rc
       \/ Fault /\ Goto("release") /\ rc' = 1 /\ UNCHANGED <<file, moved, cert>>
    /\ Kept /\ UNCHANGED holder

NormaliseMode   == Normalise("mode", "state", Valid("state", file["state"]), "policy")
NormalisePolicy == Normalise("policy", "policy", Valid("policy", file["policy"]), "read")

ReadTable ==
    /\ pc = "read" /\ Goto("pkgs")
    /\ norm' = [table |-> Normalized(file["pkgs"], file["states"], Generation, base),
                generation |-> Generation]
    /\ Kept /\ NoFault
    /\ UNCHANGED <<file, cert, moved, rc, at, req, new, old, saw, pass, certified>>

WritePkgs   == pc = "pkgs" /\ Normalise("pkgs", "pkgs", norm.table.pkgs, "states")
WriteStates == pc = "states" /\ Normalise("states", "states", norm.table.states, "base")

\* The baseline is made from packages.txt as it then is; the defaults have none.
WriteBase ==
    /\ pc = "base"
    /\ \/ /\ base' = IF norm.table.default \/ file["pkgs"] \in {Missing, Broken} THEN Missing
                     ELSE [pkgs |-> file["pkgs"], generation |-> norm.generation]
          /\ Goto("output") /\ NoFault /\ UNCHANGED rc
       \/ ~norm.table.default /\ Fault /\ Goto("release") /\ rc' = 1 /\ UNCHANGED base
    /\ UNCHANGED <<file, cert, tmp, moved, holder, tail, sessions, edits, history>>

\* Mutant of Again: one pass too many is counted.
AgainOnceMore ==
    IF pass <= Passes THEN pass' = pass + 1 /\ Goto("input") /\ UNCHANGED rc
                      ELSE pass' = pass /\ Goto("release") /\ rc' = 75

\* The next pass, or 75.
Again ==
    IF pass < Passes THEN pass' = pass + 1 /\ Goto("input") /\ UNCHANGED rc
                ELSE pass' = pass /\ Goto("release") /\ rc' = 75

Output ==
    /\ pc = "output"
    /\ IF file = saw THEN Goto("generate") /\ UNCHANGED <<pass, rc>> ELSE Again
    /\ Kept /\ NoFault /\ UNCHANGED <<file, cert, moved, at, req, new, old, saw, norm, certified>>

Generate ==
    pc = "generate" /\ GenerateTo("confirm", Goto("release") /\ rc' = 1)

\* record_revision, and the last signature.
Confirm ==
    /\ pc = "confirm"
    /\ \/ /\ NoFault
          /\ IF file = saw THEN Goto("stat") /\ UNCHANGED <<pass, rc>> ELSE Again
       \/ Fault /\ Goto("release") /\ rc' = 1 /\ UNCHANGED pass
    /\ Seen(pc' = "stat" /\ Readable)
    /\ UNCHANGED <<file, cert, moved, at, req, new, old, saw, norm, certified>>

-----------------------------------------------------------------------------
(* The environment.                                                        *)

\* The valid names that an edit puts into slots where they were not, once.
NewNames(pkgs) ==
    {i \in Slot : /\ pkgs[i] \in Name /\ Occurrences(pkgs, i) = 1
                  /\ pkgs[i] # file["pkgs"][i]}

\* The baseline is that of the table in the files.
InStep == base # Missing /\ base.pkgs = file["pkgs"] /\ base.generation = Generation

\* Labels at which an edit that brings back what the last signature saw hides
\* what happened since.
Comparing == {"pkgs", "states", "base", "output", "confirm"}

\* A file manager saves a file.
Edit ==
    /\ pc \in EditAt /\ edits < MaxEdits /\ edits' = edits + 1
    /\ \E f \in {"state", "policy", "pkgs", "states"} :
       \E c \in CASE f = "pkgs" -> EditedPkgs [] f = "states" -> EditedStates [] OTHER -> {Broken} :
          /\ c # file[f] /\ Replace(f, c)
          /\ Repeat \/ pc \notin Comparing \/ c # saw[f]
          /\ renamed' =
                IF /\ f = "pkgs" /\ pc = "idle" /\ c \in Pkgs /\ file["pkgs"] \in Pkgs
                   /\ renamed = {} /\ file["states"] \in States
                THEN {[slot |-> i, pkgs |-> c, inStep |-> InStep] : i \in NewNames(c)}
                ELSE {}
    /\ edited' = TRUE /\ asked' = Missing /\ UNCHANGED broke
    /\ UNCHANGED <<base, tmp, pc, rc, holder, tail, sessions, faults, entry>>

\* kill -9 of the holder.  A copy back may be cut short.
Kill ==
    /\ pc # "idle" /\ faults < MaxFaults /\ faults' = faults + 1
    /\ End(137)
    /\ \/ UNCHANGED <<file, moved, cert>>
       \/ pc = "restore" /\ Replace(Order[at], Broken)
    /\ asked' = Missing /\ renamed' = {} /\ UNCHANGED broke
    /\ UNCHANGED <<base, tmp, tail, sessions, edits, entry, edited>>

-----------------------------------------------------------------------------
\* After the installer: five files, and a baseline that is in step with them.
Init ==
    /\ \E t \in Table :
          /\ file = NewFiles("disabled", "enabled", t, 0)
          /\ base = [pkgs |-> t.pkgs, generation |-> 0]
    /\ cert = Missing /\ tmp = Missing
    /\ pc = "idle" /\ at = 1 /\ req = [kind |-> "prepare"]
    /\ new = Nowhere /\ old = Nowhere
    /\ moved = {} /\ saw = Nowhere /\ norm = Missing /\ pass = 1
    /\ certified = FALSE /\ rc = 1 /\ tail = Missing
    /\ sessions = 0 /\ edits = 0 /\ faults = 0
    /\ entry = file /\ edited = FALSE /\ broke = {} /\ asked = Missing /\ renamed = {}

CommitStep ==
    Backup \/ Move \/ Chmod \/ Compare \/ Cleanup \/ Restore \/ Late \/ TailEnd

Fingerprint == Stat \/ Certify \/ Uncertify

Switching ==
    \/ Mark \/ Match \/ MarkTable \/ WriteFirst \/ WriteSecond
    \/ UnwriteFirst \/ UnwriteSecond \/ Recheck

Prepare ==
    \/ Fast \/ FastGenerate \/ FastConfirm
    \/ Input \/ NormaliseMode \/ NormalisePolicy \/ ReadTable \/ WritePkgs \/ WriteStates
    \/ WriteBase \/ Output \/ Generate \/ Confirm

Next ==
    \/ Begin \/ Release \/ CommitStep \/ Fingerprint \/ Switching \/ Prepare
    \/ Signal \/ TailSignal \/ Edit \/ Kill

Spec == Init /\ [][Next]_vars

-----------------------------------------------------------------------------
Contents(f) ==
    {Missing, Broken} \cup CASE f = "pkgs" -> Pkgs [] f = "states" -> States
                             [] f = "generation" -> Nat [] OTHER -> Value

Files(contents) == DOMAIN contents = File /\ \A f \in File : contents[f] \in Contents(f)

TypeOK ==
    /\ Files(file) /\ base \in Baseline \cup {Missing}
    /\ cert = Missing \/ cert \subseteq File
    /\ tmp \in Pkgs \cup {Missing, Broken}
    /\ pc \in Label /\ at \in 1 .. 5 /\ pass \in 1 .. Passes
    /\ Files(new) /\ Files(old) /\ Files(saw)
    /\ moved \subseteq File /\ certified \in BOOLEAN
    /\ rc \in {0, 1, 74, 75, 130, 137}
    /\ tail = Missing \/ tail \subseteq File

Done(kind) == pc = "idle" /\ req.kind = kind /\ sessions > 0 /\ ~edited

\* A commit that reports success has installed its five files; one that says
\* that a write failed or that it was interrupted has left all five as they
\* were, if that happened while it had its backups.
BackedUp == {"move", "chmod", "compare", "stat", "certify", "uncertify", "cleanup"}

CommitAllOrNothing ==
    Done("commit") /\ broke \subseteq BackedUp =>
        /\ rc = 0 => file = new
        /\ rc \in {74, 130} => file = entry

\* The same for any single failing call.
FailureRestores == Done("commit") /\ rc = 74 /\ Cardinality(broke) = 1 => file = entry

\* While the saved fingerprint matches, the table needs no normalisation: it
\* would be written as it is, for the present baseline.
CertifiedIsNormal ==
    pc = "idle" /\ Matches =>
        Normalized(file["pkgs"], file["states"], Generation, base) =
            [pkgs |-> file["pkgs"], states |-> file["states"], default |-> FALSE]

\* A successful prepare leaves the runtime table of the files, and one the
\* patcher can take.  Without an editor prepare does succeed or refuse the table
\* within its passes: normalising twice is normalising once.
PreparedIsCurrent ==
    Done("prepare") =>
        /\ rc # 75
        /\ rc = 0 => /\ tmp = Runtime(file["pkgs"], file["states"])
                     /\ WellFormed(file["pkgs"], file["states"])

\* What the web UI has switched stays switched, through every prepare and every
\* other switch, until somebody else touches the table.
WebSwitchesKept ==
    asked # Missing /\ Done("prepare") /\ rc = 0 => tmp = Runtime(asked.pkgs, asked.states)

\* A valid name that a file manager has put into a slot is switched on by the
\* next prepare, unless the table as a whole was refused.
Accepted(names) ==
    Done("prepare") /\ rc = 0 =>
        \A r \in names : file["pkgs"] = r.pkgs => file["states"][r.slot] = On

ExternalNamesOn == Accepted(renamed)

\* The same where the baseline was that of the table before the edit.
ExternalNamesOnInStep == Accepted({r \in renamed : r.inStep})

-----------------------------------------------------------------------------
(* The promise of ConfigSession.                                           *)

\* What the next prepare makes of the files.
Means(files, baseline) ==
    LET table == Normalized(files["pkgs"], files["states"], GenOf(files), baseline)
    IN  [mode   |-> Valid("state", files["state"]),
         policy |-> Valid("policy", files["policy"]),
         pkgs   |-> Runtime(table.pkgs, table.states)]

Busy == pc # "idle"

\* A commit or a switch is seen when it ends.  The table that prepare writes
\* consists of two files.
View ==
    IF Busy /\ req.kind # "prepare" THEN Means(entry, base)
    ELSE IF pc = "states"
         THEN [Means(file, base) EXCEPT !.pkgs = Runtime(norm.table.pkgs, norm.table.states)]
         ELSE Means(file, base)

\* What a command makes of a configuration.
Asked(command, view) ==
    LET or(value, present) == IF value = Empty THEN present ELSE value IN
    CASE command.kind = "commit" ->
             [mode |-> command.mode, policy |-> command.policy,
              pkgs |-> Runtime(command.table.pkgs, command.table.states)]
      [] command.kind = "controls" ->
             [view EXCEPT !.mode = or(command.state, @), !.policy = or(command.policy, @)]
      [] command.kind = "toggle" ->
             IF command.target = "state" THEN [view EXCEPT !.mode = Other(@)]
                                         ELSE [view EXCEPT !.policy = Other(@)]
      [] command.kind = "setmode" -> [view EXCEPT !.mode = command.state]
      [] OTHER -> view

\* Who holds the lock, and what is known of its exit status.
Owner == IF Busy THEN req ELSE Missing
Told  == IF Busy /\ req.kind # "prepare" THEN 0 ELSE rc

Views == [mode : Value, policy : Value, pkgs : Pkgs]

Session == INSTANCE ConfigSession
    WITH View <- Views, Table <- Pkgs \cup {Missing, Broken}, Outcome <- Asked,
         Fallback <- Runtime(DefaultPkgs, DefaultStates), None <- Missing,
         view <- View, runtime <- tmp, session <- Owner, status <- Told, disturbed <- edited

\* Whatever a command does in how many steps, seen from outside it happens at
\* once, or fails and leaves the configuration, or changes only what it says.
ImplementsConfigSession == Session!Spec
=============================================================================
