-------------------------- MODULE ConfigSessionProofs --------------------------
(***************************************************************************)
(* ConfigCommit implements ConfigSession (ImplementsSession), for every    *)
(* set of commands and tables, any number of slots, and whatever fails.    *)
(*                                                                         *)
(* The invariants that it rests on, after those of ConfigCommitProofs:     *)
(* what a switch has made of the two controls so far (SwitchInv), that the *)
(* files of a failing commit are each the old or the new one (MixInv), and *)
(* that the table a prepare has in hand means what the files meant when it *)
(* read them, at every step between its writes (TableInv).                 *)
(***************************************************************************)
EXTENDS ConfigCommitProofs

-----------------------------------------------------------------------------
(* What every step but the first leaves to a command.                      *)

\* The configuration at the beginning, and that one has begun.
EntryInv == entry \in Disk /\ (Busy => sessions > 0) /\ edited \in BOOLEAN

\* The history variable edited is a Boolean.
LEMMA EditedTypes ==
    ASSUME [Next]_vars, edited \in BOOLEAN
    PROVE  edited' \in BOOLEAN
<1>1. CASE Begin \/ TailSignal \/ Edit
  BY <1>1 DEF Begin, TailSignal, Edit
<1>2. CASE FastConfirm \/ Confirm
  BY <1>2 DEF FastConfirm, Confirm, Seen
<1>3. CASE UNCHANGED edited
  BY <1>3
<1>4. CASE Release \/ Fingerprint \/ Signal \/ Kill \/ UNCHANGED vars
  BY <1>3, <1>4 DEF Release, Fingerprint, Stat, Certify, Uncertify, Signal, Kill, vars, history,
                    Kept, KeptBut
<1>5. CASE CommitStep
  BY <1>3, <1>5 DEF CommitStep, Backup, Move, Chmod, Compare, Cleanup, Restore, Late, TailEnd,
                    history, Kept, KeptBut
<1>6. CASE Switching
  BY <1>3, <1>6 DEF Switching, Mark, Match, MarkTable, WriteFirst, WriteSecond, UnwriteFirst,
                    UnwriteSecond, Recheck, Kept, KeptBut
<1>7. CASE Prepare
  BY <1>2, <1>3, <1>7
     DEF Prepare, Fast, FastGenerate, Input, NormaliseMode, NormalisePolicy, ReadTable,
         WritePkgs, WriteStates, WriteBase, Output, Generate, Normalise, GenerateTo, history,
         Kept, KeptBut
<1> QED BY <1>1, <1>4, <1>5, <1>6, <1>7 DEF Next

\* Only a beginning changes the command, its files and what it found; nothing
\* that is idle gets a status.
LEMMA SameCommand ==
    ASSUME [Next]_vars, ~Begin
    PROVE  /\ UNCHANGED <<req, new, entry, sessions>>
           /\ pc = "idle" => UNCHANGED <<pc, rc>>
<1>1. CASE Release \/ Fingerprint
  BY <1>1 DEF Release, Fingerprint, Stat, Certify, Uncertify, End, holder, Kept, KeptBut
<1>2. CASE CommitStep
  BY <1>2 DEF CommitStep, Backup, Move, Chmod, Compare, Cleanup, Restore, Late, TailEnd, End,
              holder, spent, history, Kept, KeptBut
<1>3. CASE Switching
  BY <1>3 DEF Switching, Mark, Match, MarkTable, WriteFirst, WriteSecond, UnwriteFirst,
              UnwriteSecond, Recheck, holder, Kept, KeptBut
<1>4. CASE Prepare
  BY <1>4 DEF Prepare, Fast, FastGenerate, FastConfirm, Input, NormaliseMode, NormalisePolicy,
              ReadTable, WritePkgs, WriteStates, WriteBase, Output, Generate, Confirm,
              Normalise, GenerateTo, Seen, holder, history, Kept, KeptBut
<1>5. CASE Signal \/ TailSignal \/ Edit \/ Kill
  BY <1>5 DEF Signal, TailSignal, Edit, Kill, End, holder
<1>6. CASE UNCHANGED vars
  BY <1>6 DEF vars, holder, spent, history
<1> QED BY <1>1, <1>2, <1>3, <1>4, <1>5, <1>6 DEF Next

\* The configuration at the beginning is one, whatever happens.
LEMMA EntryHolds == Spec => []EntryInv
<1>1. Types /\ Init => EntryInv
  BY DEF Init, EntryInv, Types, DiskTypes, Busy
<1>2. Types /\ EntryInv /\ [Next]_vars => EntryInv'
  <2>1. SUFFICES ASSUME Types, EntryInv, [Next]_vars PROVE EntryInv'
    OBVIOUS
  <2>2. CASE Begin
    BY <2>1, <2>2, EditedTypes DEF Begin, EntryInv, Types, DiskTypes, HolderTypes
  <2>3. CASE ~Begin
    BY <2>1, <2>3, SameCommand, EditedTypes DEF EntryInv, Busy
  <2> QED BY <2>2, <2>3
<1> QED BY <1>1, <1>2, TypesHold, PTL DEF Spec

-----------------------------------------------------------------------------
(* A switch.                                                               *)

SwitchLabel == {"idle", "match", "mark", "first", "second", "unfirst", "unsecond", "recheck",
                "stat", "certify", "uncertify", "release"}
Switcher    == {"controls", "toggle", "setmode"}

\* The controls of a configuration, and what a switch makes of them.
Mode(c)   == Valid("state", c["state"])
Policy(c) == Valid("policy", c["policy"])

ModeAsked(c, m) ==
    IF c.kind = "controls" THEN IF c.state = Empty THEN m ELSE c.state
    ELSE IF c.kind = "setmode" THEN c.state
    ELSE IF c.target = "state" THEN Other(m) ELSE m

PolicyAsked(c, p) ==
    IF c.kind = "controls" THEN IF c.policy = Empty THEN p ELSE c.policy
    ELSE IF c.kind = "setmode" THEN p
    ELSE IF c.target = "policy" THEN Other(p) ELSE p

\* Before its writes the files are as they were; each control has its old or its
\* new value, and after a success both have the new ones.
Switched ==
    /\ rc \in {0, 1}
    /\ pc \in {"unfirst", "unsecond"} => rc = 1 /\ req.kind = "controls"
    /\ \A f \in TableFile : file[f] = entry[f]
    /\ Mode(file) \in {Mode(entry), ModeAsked(req, Mode(entry))}
    /\ Policy(file) \in {Policy(entry), PolicyAsked(req, Policy(entry))}
    /\ pc \in {"match", "mark", "first"} => file = entry
    /\ pc = "match" => req.kind = "toggle"
    /\ req.kind = "controls" /\ pc \in {"first", "second", "unfirst", "unsecond"} =>
          old["state"] = entry["state"] /\ old["policy"] = entry["policy"]
    /\ pc = "second" =>
          /\ Policy(file) = Policy(entry)
          /\ req.kind # "toggle" => file["policy"] = entry["policy"]
          /\ req.kind = "controls" => Mode(file) = ModeAsked(req, Mode(entry))
          /\ req.kind = "toggle" =>
                Mode(file) = Mode(entry) /\ norm = Valid(req.target, entry[req.target])
    /\ pc \in {"recheck", "stat", "certify", "uncertify", "release"} /\ rc = 0 =>
          /\ Mode(file) = ModeAsked(req, Mode(entry))
          /\ Policy(file) = PolicyAsked(req, Policy(entry))

SwitchInv ==
    req.kind \in Switcher =>
        pc \in SwitchLabel /\ (Busy /\ ~edited => Switched)

\* A switch begins with the files that are there.
LEMMA SwitchBegins ==
    ASSUME Begin
    PROVE  SwitchInv'
<1>1. /\ UNCHANGED file /\ entry' = file /\ rc' = 0 /\ req' \in Command
      /\ pc' = First(req'.kind)
  BY DEF Begin, disk, Goto
<1>2. SUFFICES ASSUME req'.kind \in Switcher PROVE SwitchInv'
  BY DEF SwitchInv
<1>3. pc' \in {"mark", "match", "second"} /\ (req'.kind = "controls" => pc' = "mark")
      /\ (req'.kind = "toggle" <=> pc' = "match")
  BY <1>1, <1>2 DEF First, Switcher
<1>4. Switched'
  BY <1>1, <1>3 DEF Switched, Mode, Policy
<1> QED BY <1>3, <1>4 DEF SwitchInv, SwitchLabel

\* What it writes to a control.
LEMMA ControlPut ==
    ASSUME Types, NEW f \in {"state", "policy"}, NEW c, Put(f, c)
    PROVE  /\ file'[f] = c
           /\ f = "state" => file'["policy"] = file["policy"]
           /\ f = "policy" => file'["state"] = file["state"]
           /\ \A g \in TableFile : file'[g] = file[g]
<1>1. f \in File /\ \A g \in TableFile : g \in File \ {f}
  BY FileNames DEF TableFile
<1>2. file'[f] = c /\ \A g \in File \ {f} : file'[g] = file[g]
  BY <1>1, PutFacts
<1> QED BY <1>1, <1>2, FileNames

\* A value that was made valid stays as it is.
LEMMA ValidTwice ==
    ASSUME NEW f, NEW c
    PROVE  Valid(f, Valid(f, c)) = Valid(f, c) /\ Valid(f, c) \in Value
BY DEF Valid, Value

\* A toggled value is a valid one.
LEMMA OtherValid ==
    ASSUME NEW f, NEW c
    PROVE  Valid(f, Other(c)) = Other(c)
BY DEF Valid, Value, Other

\* A step of a switch gives a control its old or its new value.
LEMMA SwitchSteps ==
    ASSUME Types, SwitchInv, req.kind \in Switcher, Switching
    PROVE  SwitchInv'
<1>1. UNCHANGED <<req, entry, edited>> /\ pc' \in SwitchLabel /\ pc # "idle"
  BY DEF Switching, Mark, Match, MarkTable, WriteFirst, WriteSecond, UnwriteFirst, UnwriteSecond,
         Recheck, holder, Kept, KeptBut, Goto, Otherwise, SwitchLabel
<1>2. SUFFICES ASSUME ~edited PROVE Switched'
  BY <1>1 DEF SwitchInv
<1>3. Switched /\ req \in Command /\ IsFiles(file)
  BY <1>1, <1>2, CommandAssumption, DiskFacts
     DEF SwitchInv, Busy, Types, Place, DiskTypes, Switcher
<1>4. CASE Mark
  <2>1. /\ UNCHANGED <<file, rc, req, entry>> /\ pc = "mark" /\ pc' = "first"
        /\ req.kind = "controls"
    BY <1>4 DEF Mark, Goto, Kept, KeptBut
  <2>2. old'["state"] = file["state"] /\ old'["policy"] = file["policy"]
    <3>1. IsFiles(old) /\ old' = [old EXCEPT !["state"] = file["state"],
                                            !["policy"] = file["policy"]]
      BY <1>4, DiskFacts DEF Mark, Types, HolderTypes
    <3> QED BY <3>1, FileNames DEF IsFiles
  <2> QED BY <1>3, <2>1, <2>2 DEF Switched, Mode, Policy
<1>5. CASE Match \/ MarkTable
  <2>1. /\ UNCHANGED <<file, rc, req, entry>> /\ pc \in {"match", "mark"}
        /\ pc' \in {"mark", "first"} /\ req.kind # "controls"
    BY <1>3, <1>5 DEF Match, MarkTable, Goto, Kept, KeptBut, holder, Switched
  <2> QED BY <1>3, <2>1 DEF Switched, Mode, Policy
<1>6. CASE WriteFirst
  <2>1. /\ UNCHANGED <<req, entry, old>> /\ pc = "first" /\ file = entry
        /\ req.kind \in {"controls", "toggle"}
    BY <1>3, <1>6 DEF WriteFirst, Kept, KeptBut, Switched, Types, Place
  <2>2. CASE UNCHANGED file /\ pc' = Otherwise /\ rc' = 1
    BY <1>3, <2>1, <2>2 DEF Switched, Mode, Policy, Otherwise
  <2>3. CASE Put(FirstFile, FirstValue) /\ pc' = "second" /\ UNCHANGED rc
    <3>1. CASE req.kind = "controls"
      <4>1. /\ Put("state", FirstValue)
            /\ FirstValue = IF req.state = Empty THEN entry["state"] ELSE req.state
        BY <2>1, <2>3, <3>1 DEF FirstFile, FirstValue, Left
      <4>2. /\ file'["state"] = FirstValue /\ file'["policy"] = entry["policy"]
            /\ \A g \in TableFile : file'[g] = entry[g]
        BY <2>1, <4>1, ControlPut
      <4>3. req.state \in Value \cup {Empty}
        BY <1>3, <3>1, CommandFacts
      <4>4. Valid("state", FirstValue) = ModeAsked(req, Mode(entry))
        BY <3>1, <4>1, <4>3, ValidStays DEF ModeAsked, Mode
      <4> QED BY <1>3, <2>1, <2>3, <3>1, <4>2, <4>4 DEF Switched, Mode, Policy
    <3>2. CASE req.kind = "toggle"
      <4>1. /\ FirstFile = req.target /\ req.target \in {"state", "policy"}
            /\ FirstValue = Valid(req.target, entry[req.target]) /\ norm' = FirstValue
        BY <1>3, <1>6, <2>1, <3>2, CommandFacts DEF WriteFirst, FirstFile, FirstValue
      <4>2. /\ file'[req.target] = FirstValue
            /\ req.target = "state" => file'["policy"] = entry["policy"]
            /\ req.target = "policy" => file'["state"] = entry["state"]
            /\ \A g \in TableFile : file'[g] = entry[g]
        BY <2>1, <2>3, <4>1, ControlPut
      <4>3. Valid(req.target, FirstValue) = FirstValue
        BY <4>1, ValidTwice
      <4>4. Mode(file') = Mode(entry) /\ Policy(file') = Policy(entry)
        BY <4>1, <4>2, <4>3 DEF Mode, Policy
      <4> QED BY <1>3, <2>1, <2>3, <3>2, <4>1, <4>2, <4>4 DEF Switched
    <3> QED BY <2>1, <3>1, <3>2
  <2> QED BY <1>6, <2>2, <2>3 DEF WriteFirst, Goto
<1>7. CASE WriteSecond
  <2>1. /\ UNCHANGED <<req, entry, old>> /\ pc = "second"
    BY <1>7 DEF WriteSecond, Kept, KeptBut, holder
  <2>2. CASE UNCHANGED file /\ pc' = Otherwise /\ rc' = 1
    BY <1>3, <2>1, <2>2 DEF Switched, Mode, Policy, Otherwise
  <2>3. CASE Put(SecondFile, SecondValue) /\ pc' \in {"release", "recheck"} /\ UNCHANGED rc
    <3>1. CASE req.kind = "controls"
      <4>1. /\ Put("policy", SecondValue)
            /\ SecondValue = IF req.policy = Empty THEN entry["policy"] ELSE req.policy
        BY <1>3, <2>1, <2>3, <3>1 DEF SecondFile, SecondValue, Left, Switched
      <4>2. /\ file'["policy"] = SecondValue /\ file'["state"] = file["state"]
            /\ \A g \in TableFile : file'[g] = file[g]
        BY <4>1, ControlPut
      <4>3. req.policy \in Value \cup {Empty}
        BY <1>3, <3>1, CommandFacts
      <4>4. Valid("policy", SecondValue) = PolicyAsked(req, Policy(entry))
        BY <3>1, <4>1, <4>3, ValidStays DEF PolicyAsked, Policy
      <4> QED BY <1>3, <2>1, <2>3, <3>1, <4>2, <4>4 DEF Switched, Mode, Policy
    <3>2. CASE req.kind = "toggle"
      <4>1. /\ SecondFile = req.target /\ req.target \in {"state", "policy"}
            /\ SecondValue = Other(Valid(req.target, entry[req.target]))
        BY <1>3, <2>1, <3>2, CommandFacts DEF SecondFile, SecondValue, Switched
      <4>2. /\ file'[req.target] = SecondValue
            /\ req.target = "state" => file'["policy"] = file["policy"]
            /\ req.target = "policy" => file'["state"] = file["state"]
            /\ \A g \in TableFile : file'[g] = file[g]
        BY <2>3, <4>1, ControlPut
      <4>3. Valid(req.target, SecondValue) = SecondValue
        BY <4>1, OtherValid
      <4>4. Mode(file) = Mode(entry) /\ Policy(file) = Policy(entry)
        BY <1>3, <2>1, <3>2 DEF Switched
      <4>5. CASE req.target = "state"
        <5>1. Mode(file') = Other(Mode(entry)) /\ Policy(file') = Policy(entry)
          BY <4>1, <4>2, <4>3, <4>4, <4>5 DEF Mode, Policy
        <5> QED BY <1>3, <2>1, <2>3, <3>2, <4>2, <4>5, <5>1
                DEF Switched, ModeAsked, PolicyAsked
      <4>6. CASE req.target = "policy"
        <5>1. Policy(file') = Other(Policy(entry)) /\ Mode(file') = Mode(entry)
          BY <4>1, <4>2, <4>3, <4>4, <4>6 DEF Mode, Policy
        <5> QED BY <1>3, <2>1, <2>3, <3>2, <4>2, <4>6, <5>1
                DEF Switched, ModeAsked, PolicyAsked
      <4> QED BY <4>1, <4>5, <4>6
    <3>3. CASE req.kind = "setmode"
      <4>1. Put("state", req.state) /\ req.state \in Value
        BY <1>3, <2>3, <3>3, CommandFacts DEF SecondFile, SecondValue
      <4>2. /\ file'["state"] = req.state /\ file'["policy"] = file["policy"]
            /\ \A g \in TableFile : file'[g] = file[g]
        BY <4>1, ControlPut
      <4>3. Mode(file') = ModeAsked(req, Mode(entry)) /\ Policy(file') = Policy(entry)
        BY <1>3, <2>1, <3>3, <4>1, <4>2, ValidStays DEF Switched, Mode, Policy, ModeAsked
      <4> QED BY <1>3, <2>1, <2>3, <3>3, <4>2, <4>3 DEF Switched, PolicyAsked
    <3> QED BY <3>1, <3>2, <3>3 DEF Switcher
  <2> QED BY <1>7, <2>2, <2>3 DEF WriteSecond, Goto
<1>8. CASE UnwriteFirst
  <2>1. /\ UNCHANGED <<req, entry, old, rc>> /\ pc = "unfirst" /\ pc' = "unsecond"
        /\ UNCHANGED file \/ Put("state", old["state"])
    BY <1>8 DEF UnwriteFirst, Kept, KeptBut, holder, Goto
  <2>2. CASE UNCHANGED file
    BY <1>3, <2>1, <2>2 DEF Switched, Mode, Policy
  <2>3. CASE Put("state", old["state"])
    <3>1. /\ file'["state"] = old["state"] /\ file'["policy"] = file["policy"]
          /\ \A g \in TableFile : file'[g] = file[g]
      BY <2>3, ControlPut
    <3>2. req.kind = "controls" => Mode(file') = Mode(entry)
      BY <1>3, <2>1, <3>1 DEF Switched, Mode
    <3> QED BY <1>3, <2>1, <3>1, <3>2 DEF Switched, Mode, Policy
  <2> QED BY <2>1, <2>2, <2>3
<1>9. CASE UnwriteSecond
  <2>1. /\ UNCHANGED <<req, entry, old, rc>> /\ pc = "unsecond" /\ pc' = "uncertify"
        /\ UNCHANGED file \/ Put("policy", old["policy"])
    BY <1>9 DEF UnwriteSecond, Kept, KeptBut, holder, Goto
  <2>2. CASE UNCHANGED file
    BY <1>3, <2>1, <2>2 DEF Switched, Mode, Policy
  <2>3. CASE Put("policy", old["policy"])
    <3>1. /\ file'["policy"] = old["policy"] /\ file'["state"] = file["state"]
          /\ \A g \in TableFile : file'[g] = file[g]
      BY <2>3, ControlPut
    <3>2. req.kind = "controls" => Policy(file') = Policy(entry)
      BY <1>3, <2>1, <3>1 DEF Switched, Policy
    <3> QED BY <1>3, <2>1, <3>1, <3>2 DEF Switched, Mode, Policy
  <2> QED BY <2>1, <2>2, <2>3
<1>10. CASE Recheck
  <2>1. /\ UNCHANGED <<file, rc, req, entry>> /\ pc = "recheck"
        /\ pc' \in {"certify", "stat", "uncertify"}
    BY <1>10 DEF Recheck, Goto, Kept, KeptBut, holder
  <2> QED BY <1>3, <2>1 DEF Switched, Mode, Policy
<1> QED BY <1>4, <1>5, <1>6, <1>7, <1>8, <1>9, <1>10 DEF Switching

\* Its certificate and its end.
LEMMA SwitchEnds ==
    ASSUME SwitchInv, req.kind \in Switcher, Fingerprint \/ Release \/ Kill \/ TailEnd
    PROVE  SwitchInv'
<1>1. CASE Fingerprint
  <2>1. /\ UNCHANGED <<file, entry, req, rc, edited>> /\ pc \in {"stat", "certify", "uncertify"}
        /\ pc' \in {"certify", "uncertify", "release"}
    BY <1>1 DEF Fingerprint, Stat, Certify, Uncertify, Kept, KeptBut, holder, Goto, Finish,
                Switcher
  <2> QED BY <2>1 DEF SwitchInv, SwitchLabel, Switched, Mode, Policy, Busy
<1>2. CASE Release \/ Kill
  <2>1. pc' = "idle"
    BY <1>2 DEF Release, Kill, End, Goto, Switcher
  <2> QED BY <2>1 DEF SwitchInv, SwitchLabel, Busy
<1>3. CASE TailEnd
  <2>1. UNCHANGED <<file, entry, req, rc, edited, pc, norm, old>>
    BY <1>3 DEF TailEnd, disk, holder, history
  <2> QED BY <2>1 DEF SwitchInv, SwitchLabel, Switched, Mode, Policy, Busy
<1> QED BY <1>1, <1>2, <1>3

\* The invariant of a switch.
LEMMA SwitchHolds == Spec => []SwitchInv
<1>1. Init => SwitchInv
  BY DEF Init, SwitchInv, Switcher
<1>2. Types /\ SwitchInv /\ [Next]_vars => SwitchInv'
  <2>1. SUFFICES ASSUME Types, SwitchInv, [Next]_vars PROVE SwitchInv'
    OBVIOUS
  <2>2. CASE Begin
    BY <2>2, SwitchBegins
  <2>3. CASE ~Begin /\ req.kind \notin Switcher
    BY <2>1, <2>3, SameCommand DEF SwitchInv
  <2>4. CASE ~Begin /\ req.kind \in Switcher
    <3>1. pc \in SwitchLabel /\ UNCHANGED <<req, entry>>
      BY <2>1, <2>4, SameCommand DEF SwitchInv
    <3>2. CASE Switching
      BY <2>1, <2>4, <3>2, SwitchSteps
    <3>3. CASE Fingerprint \/ Release \/ Kill \/ TailEnd
      BY <2>1, <2>4, <3>3, SwitchEnds
    <3>4. CASE CommitStep /\ ~TailEnd
      <4>1. pc \in {"backup", "move", "chmod", "compare", "cleanup", "restore", "late"}
        BY <3>4 DEF CommitStep, Backup, Move, Chmod, Compare, Cleanup, Restore, Late
      <4> QED BY <3>1, <4>1 DEF SwitchLabel
    <3>5. CASE Prepare
      <4>1. pc \in {"fast", "fastgen", "fastconfirm", "input", "mode", "policy", "read",
                    "pkgs", "states", "base", "output", "generate", "confirm"}
        BY <3>5 DEF Prepare, Fast, FastGenerate, FastConfirm, Input, NormaliseMode,
                    NormalisePolicy, ReadTable, WritePkgs, WriteStates, WriteBase, Output,
                    Generate, Confirm, Normalise
      <4> QED BY <3>1, <4>1 DEF SwitchLabel
    <3>6. CASE Signal
      BY <2>4, <3>6 DEF Signal, Switcher
    <3>7. CASE Edit \/ TailSignal
      <4>1. UNCHANGED pc /\ edited'
        BY <3>7 DEF Edit, TailSignal
      <4> QED BY <3>1, <4>1 DEF SwitchInv
    <3>8. CASE UNCHANGED vars
      <4>1. UNCHANGED <<file, entry, req, rc, edited, pc, norm, old>>
        BY <3>8 DEF vars, disk, holder, history
      <4> QED BY <2>1, <4>1 DEF SwitchInv, SwitchLabel, Switched, Mode, Policy, Busy
    <3> QED BY <2>1, <2>4, <3>2, <3>3, <3>4, <3>5, <3>6, <3>7, <3>8 DEF Next, CommitStep
  <2> QED BY <2>2, <2>3, <2>4
<1> QED BY <1>1, <1>2, TypesHold, PTL DEF Spec

-----------------------------------------------------------------------------
(* A commit that fails.                                                    *)

\* Each control has its old or its new value, or its file is missing or broken.
MixInv ==
    req.kind = "commit" /\ Busy =>
        /\ new = NewFiles(req.mode, req.policy, req.table, new["generation"])
        /\ pc = "restore" => rc \in {74, 130}
        /\ pc = "late" => rc \in {75, 130}
        /\ ~edited => \A f \in {"state", "policy"} :
              /\ file[f] \in {entry[f], new[f], Missing, Broken}
              /\ old[f] \in {entry[f], Missing}

\* A commit begins with its five old files.
LEMMA MixBegins ==
    ASSUME Begin
    PROVE  MixInv'
<1>1. /\ UNCHANGED file /\ entry' = file /\ old' = Nowhere /\ pc' = First(req'.kind)
      /\ req'.kind = "commit" =>
            new' = NewFiles(req'.mode, req'.policy, req'.table, sessions')
  BY DEF Begin, disk, Goto
<1>2. SUFFICES ASSUME req'.kind = "commit" PROVE MixInv'
  BY DEF MixInv
<1>3. pc' = "backup"
  BY <1>1, <1>2 DEF First
<1>4. \A f \in {"state", "policy"} : old'[f] = Missing
  BY <1>1, FileNames DEF Nowhere
<1>5. new'["generation"] = sessions'
  BY <1>1, <1>2, FileNames DEF NewFiles
<1> QED BY <1>1, <1>2, <1>3, <1>4, <1>5 DEF MixInv

\* One of the files is replaced.
LEMMA MixReplaced ==
    ASSUME Types, MixInv, req.kind = "commit", Busy, ~edited, NEW f \in File, NEW c, Replace(f, c),
           f \in {"state", "policy"} => c \in {entry[f], new[f], Missing, Broken}
    PROVE  \A g \in {"state", "policy"} : file'[g] \in {entry[g], new[g], Missing, Broken}
<1>1. file'[f] = c /\ \A g \in File \ {f} : file'[g] = file[g]
  BY DiskFacts, Replaced DEF Types, DiskTypes
<1>2. \A g \in {"state", "policy"} : file[g] \in {entry[g], new[g], Missing, Broken}
  BY DEF MixInv
<1> QED BY <1>1, <1>2, FileNames

\* A step of a commit or of its abort leaves each control old, new or unusable.
LEMMA MixCommits ==
    ASSUME Types, Inductive, GenInv, MixInv, req.kind = "commit", Busy,
           CommitStep \/ Fingerprint
    PROVE  MixInv'
<1>1. CASE TailEnd
  BY <1>1 DEF TailEnd, disk, holder, history, MixInv, Busy
<1>2. UNCHANGED <<req, new, entry, edited>>
  <2>1. ~Begin
    BY DEF Begin, Busy
  <2>2. UNCHANGED edited
    BY DEF CommitStep, Fingerprint, Backup, Move, Chmod, Compare, Cleanup, Restore, Late, TailEnd,
           Stat, Certify, Uncertify, history, Kept, KeptBut
  <2> QED BY <2>1, <2>2, SameCommand DEF Next
<1>3. new = NewFiles(req.mode, req.policy, req.table, new["generation"])
  BY DEF MixInv
<1>4. CASE Backup
  <2>1. /\ UNCHANGED file /\ pc = "backup" /\ pc' \in {"backup", "move", "restore"}
        /\ pc' = "restore" => rc' = 74
        /\ old' \in {old, [old EXCEPT ![Order[at]] = file[Order[at]]]}
    BY <1>4 DEF Backup, KeptBut, NextFile, Fails, Goto
  <2>2. ASSUME ~edited
        PROVE  \A f \in {"state", "policy"} : old'[f] \in {entry[f], Missing}
    <3>1. broke \subseteq BackedUp
      BY <2>1, <2>2 DEF GenInv
    <3>2. file = entry
      BY <2>1, <2>2, <3>1 DEF Inductive, CommitInv, Sound, Progress
    <3>3. \A f \in File : old'[f] \in {old[f], file[f]}
      <4>1. Order[at] \in File /\ IsFiles(old)
        BY OrderIsFile DEF Types, Inductive, Shape
      <4> QED BY <2>1, <4>1 DEF IsFiles
    <3>4. \A f \in {"state", "policy"} : old[f] \in {entry[f], Missing}
      BY <2>2 DEF MixInv
    <3> QED BY <3>2, <3>3, <3>4, FileNames
  <2> QED BY <1>2, <1>3, <2>1, <2>2 DEF MixInv
<1>5. CASE Move
  <2>1. /\ UNCHANGED old /\ pc' \in {"move", "chmod", "restore"}
        /\ pc' = "restore" => rc' = 74
        /\ UNCHANGED file \/ Replace(Order[at], new[Order[at]])
    BY <1>5 DEF Move, NextFile, Fails, Goto
  <2>2. ~edited => \A f \in {"state", "policy"} : file'[f] \in {entry[f], new[f], Missing, Broken}
    BY <2>1, OrderIsFile, MixReplaced DEF MixInv, Types
  <2> QED BY <1>2, <1>3, <2>1, <2>2 DEF MixInv
<1>6. CASE Chmod \/ Compare \/ Cleanup \/ Fingerprint
  <2>1. /\ UNCHANGED <<file, old>>
        /\ \/ pc' = "restore" /\ rc' = 74
           \/ pc' \notin {"restore", "late"}
    BY <1>6 DEF Chmod, Compare, Cleanup, Fingerprint, Stat, Certify, Uncertify, Kept, KeptBut,
                holder, Fails, Goto, Finish
  <2> QED BY <1>2, <1>3, <2>1 DEF MixInv
<1>7. CASE Restore
  <2>1. CASE pc' = "idle"
    BY <2>1 DEF MixInv, Busy
  <2>2. CASE pc' # "idle"
    <3>1. UNCHANGED <<pc, rc, old>>
      BY <1>7, <2>2 DEF Restore, End, Goto
    <3>2. PICK c \in {old[Order[at]], file[Order[at]], Broken} : Replace(Order[at], c)
      BY <1>7 DEF Restore
    <3>3. ~edited => \A f \in {"state", "policy"} :
              file'[f] \in {entry[f], new[f], Missing, Broken}
      BY <3>2, OrderIsFile, MixReplaced DEF MixInv, Types
    <3> QED BY <1>2, <1>3, <1>7, <3>1, <3>3 DEF MixInv, Restore
  <2> QED BY <2>1, <2>2
<1>8. CASE Late
  BY <1>8 DEF Late, End, Goto, MixInv, Busy
<1> QED BY <1>1, <1>4, <1>5, <1>6, <1>7, <1>8 DEF CommitStep

\* The invariant of a commit that fails.
LEMMA MixHolds == Spec => []MixInv
<1>1. Init => MixInv
  BY DEF Init, MixInv
<1>2. Types /\ Inductive /\ Both /\ MixInv /\ [Next]_vars => MixInv'
  <2>1. SUFFICES ASSUME Types, Inductive, GenInv, MixInv, [Next]_vars PROVE MixInv'
    BY DEF Both
  <2>2. CASE Begin
    BY <2>2, MixBegins
  <2>3. CASE ~Begin /\ (req.kind # "commit" \/ ~Busy)
    BY <2>1, <2>3, SameCommand DEF MixInv, Busy
  <2>4. CASE ~Begin /\ req.kind = "commit" /\ Busy
    <3>1. UNCHANGED <<req, new, entry>>
      BY <2>1, <2>4, SameCommand
    <3>2. CASE CommitStep \/ Fingerprint
      BY <2>1, <2>4, <3>2, MixCommits
    <3>3. CASE Switching \/ Prepare
      BY <2>1, <2>4, <3>3, SwitchFacts, PrepareFacts
    <3>4. CASE Release
      <4>1. (UNCHANGED <<file, old, edited>> /\ pc' = "late" /\ rc' = 75) \/ pc' = "idle"
        BY <2>4, <3>4 DEF Release, End, Goto, holder, disk
      <4> QED BY <2>1, <2>4, <3>1, <4>1 DEF MixInv, Busy
    <3>5. CASE Signal
      <4>1. UNCHANGED <<file, old, edited>> /\ rc' = 130
        BY <3>5 DEF Signal, disk
      <4> QED BY <2>1, <2>4, <3>1, <4>1 DEF MixInv, Busy
    <3>6. CASE Kill
      BY <3>6 DEF Kill, End, Goto, MixInv, Busy
    <3>7. CASE Edit \/ TailSignal
      <4>1. UNCHANGED <<pc, rc>> /\ edited'
        BY <3>7 DEF Edit, TailSignal
      <4> QED BY <2>1, <2>4, <3>1, <4>1 DEF MixInv, Busy
    <3>8. CASE UNCHANGED vars
      <4>1. UNCHANGED <<file, entry, req, rc, edited, pc, new, old>>
        BY <3>8 DEF vars, disk, holder, history
      <4> QED BY <2>1, <4>1 DEF MixInv, Busy
    <3> QED BY <2>1, <2>4, <3>2, <3>3, <3>4, <3>5, <3>6, <3>7, <3>8 DEF Next
  <2> QED BY <2>2, <2>3, <2>4
<1> QED BY <1>1, <1>2, TypesHold, CommitHolds, BothHolds, PTL DEF Spec

-----------------------------------------------------------------------------
(* The table that a prepare works on means the same at every step.         *)

\* What the next normalisation would make of the table.
Meant(c, b) == Normalized(c["pkgs"], c["states"], GenOf(c), b)

\* What is written is what was meant, except the default table.
Worked ==
    /\ pc = "pkgs" => norm.table = Meant(file, base)
    /\ pc = "states" =>
          /\ Stable(norm.table.pkgs, norm.table.states, GenOf(file), base)
          /\ \/ norm.table = Meant(file, base)
             \/ norm.table.pkgs = DefaultPkgs /\ norm.table.states = DefaultStates
    /\ pc \in {"base", "output", "generate", "confirm", "stat", "certify", "uncertify"} =>
          Steady(file, base)
    /\ pc = "release" /\ rc = 0 => Steady(file, base)
    /\ pc \in {"fastgen", "fastconfirm"} => moved = {} /\ Steady(file, base)

TableInv ==
    req.kind = "prepare" =>
        /\ Busy /\ pc # "release" => rc = 0
        /\ pc = "release" => rc \in {0, 1, 75}
        /\ ~edited => Worked

\* The normalisation writes the table as it is or the defaults.
LEMMA NormalizedCases ==
    ASSUME NEW p, NEW s, NEW g, NEW b
    PROVE  LET n == Normalized(p, s, g, b)
           IN  \/ n.pkgs = p
               \/ n.pkgs = DefaultPkgs /\ n.states = DefaultStates
BY DEF Normalized

\* Reading and writing the table keeps what it means.
LEMMA TableWorks ==
    ASSUME Types, PrepInv, TableInv, req.kind = "prepare", ReadTable \/ WritePkgs \/ WriteStates
    PROVE  TableInv'
<1>1. /\ UNCHANGED <<req, edited, base>> /\ pc \in {"read", "pkgs", "states"} /\ rc = 0
      /\ file'["generation"] = file["generation"]
  <2>1. UNCHANGED <<req, edited, base>> /\ pc \in {"read", "pkgs", "states"}
    BY DEF ReadTable, WritePkgs, WriteStates, Normalise, Kept, KeptBut, holder
  <2>2. UNCHANGED file \/ \E f \in {"pkgs", "states"} : \E c : Put(f, c)
    BY DEF ReadTable, WritePkgs, WriteStates, Normalise
  <2> QED BY <2>1, <2>2, GenKept, FileNames DEF TableInv, Busy
<1>2. GenOf(file') = GenOf(file)
  BY <1>1 DEF GenOf
<1>3. CASE pc' = "release" /\ rc' = 1
  BY <1>3 DEF TableInv, Worked
<1>4. CASE ReadTable
  <2>1. /\ UNCHANGED <<file, rc>> /\ pc' = "pkgs"
        /\ norm' = [table |-> Meant(file, base), generation |-> Generation]
    BY <1>4 DEF ReadTable, Goto, Kept, KeptBut, Meant, Generation
  <2>2. norm'.table = Meant(file', base')
    BY <1>1, <2>1, <1>2 DEF Meant
  <2> QED BY <1>1, <2>1, <2>2 DEF TableInv, Worked
<1>5. CASE WritePkgs /\ pc' # "release"
  <2>1. /\ pc = "pkgs" /\ pc' = "states" /\ UNCHANGED <<norm, rc>> /\ Put("pkgs", norm.table.pkgs)
    BY <1>5 DEF WritePkgs, Normalise, Goto, holder
  <2>2. file'["pkgs"] = norm.table.pkgs /\ file'["states"] = file["states"]
    BY <2>1, PutFacts, FileNames
  <2>3. ASSUME ~edited
        PROVE  Worked'
    <3>1. norm.table = Meant(file, base)
      BY <1>1, <2>1, <2>3 DEF TableInv, Worked
    <3>2. /\ file["pkgs"] \in Pkgs \cup {Missing, Broken}
          /\ file["states"] \in States \cup {Missing, Broken}
      BY DiskFacts DEF Types, DiskTypes
    <3>3. Stable(norm.table.pkgs, norm.table.states, GenOf(file), base)
      BY <3>1, <3>2, NormalizedStable DEF Meant
    <3>4. \/ norm.table.pkgs = file["pkgs"]
          \/ norm.table.pkgs = DefaultPkgs /\ norm.table.states = DefaultStates
      BY <3>1, NormalizedCases DEF Meant
    <3>5. norm.table.pkgs = file["pkgs"] => Meant(file', base') = Meant(file, base)
      BY <1>1, <1>2, <2>2 DEF Meant
    <3>6. Stable(norm'.table.pkgs, norm'.table.states, GenOf(file'), base')
      BY <1>1, <1>2, <2>1, <3>3
    <3> QED BY <2>1, <3>1, <3>4, <3>5, <3>6 DEF Worked
  <2> QED BY <1>1, <2>1, <2>3 DEF TableInv
<1>6. CASE WriteStates /\ pc' # "release"
  <2>1. /\ pc = "states" /\ pc' = "base" /\ UNCHANGED rc /\ Put("states", norm.table.states)
    BY <1>6 DEF WriteStates, Normalise, Goto
  <2>2. file'["states"] = norm.table.states /\ file'["pkgs"] = file["pkgs"]
    BY <2>1, PutFacts, FileNames
  <2>3. ASSUME ~edited
        PROVE  Worked'
    <3>1. Stable(norm.table.pkgs, norm.table.states, GenOf(file), base)
      BY <1>1, <2>1, <2>3 DEF TableInv, Worked
    <3>2. file["pkgs"] = norm.table.pkgs
      BY <2>1, <2>3 DEF PrepInv, PassInv
    <3>3. Steady(file', base')
      BY <1>1, <1>2, <2>2, <3>1, <3>2 DEF Steady
    <3> QED BY <2>1, <3>3 DEF Worked
  <2> QED BY <1>1, <2>1, <2>3 DEF TableInv
<1> QED BY <1>3, <1>4, <1>5, <1>6 DEF WritePkgs, WriteStates, Normalise, Goto

\* The fast path finds a table that the normalisation would leave alone.
LEMMA FastWorks ==
    ASSUME Types, CertInv, AgreeInv, TableInv, req.kind = "prepare",
           Fast \/ FastGenerate \/ FastConfirm
    PROVE  TableInv'
<1>1. /\ UNCHANGED <<req, file, base>> /\ pc \in {"fast", "fastgen", "fastconfirm"} /\ rc = 0
  BY DEF Fast, FastGenerate, FastConfirm, GenerateTo, Seen, Kept, KeptBut, holder, TableInv, Busy
<1>2. CASE Fast
  <2>1. /\ UNCHANGED <<rc, edited>>
        /\ \/ pc' = "input"
           \/ pc' = "fastgen" /\ moved' = {} /\ Matches
    BY <1>2 DEF Fast, Goto, Kept, KeptBut
  <2>2. Matches => Steady(file', base')
    BY <1>1, MatchesSteady
  <2> QED BY <1>1, <2>1, <2>2 DEF TableInv, Worked, Busy
<1>3. CASE FastGenerate
  <2>1. /\ UNCHANGED <<edited, moved>> /\ pc = "fastgen"
        /\ \/ pc' \in {"input", "fastconfirm"} /\ UNCHANGED rc
           \/ pc' = "release" /\ rc' = 1
    BY <1>3 DEF FastGenerate, GenerateTo, Goto, history
  <2> QED BY <1>1, <2>1 DEF TableInv, Worked, Busy
<1>4. CASE FastConfirm
  <2>1. /\ UNCHANGED rc
        /\ \/ pc' = "input"
           \/ pc' = "release" /\ Matches
    BY <1>4 DEF FastConfirm, Goto
  <2>2. Matches => Steady(file', base')
    BY <1>1, MatchesSteady
  <2> QED BY <1>1, <2>1, <2>2 DEF TableInv, Worked, Busy
<1> QED BY <1>2, <1>3, <1>4

\* Where the last look has seen what is there, it means what it says.
LEMMA LookSteady ==
    ASSUME CertInv, AgreeInv, pc = "confirm", file = saw, Readable
    PROVE  Steady(file, base)
<1>1. <<file["pkgs"], file["states"]>> \in Proper
  BY DEF CertInv, Normal, Whole, Readable
<1>2. Unedited(file, base)
  BY DEF AgreeInv, Based, Unedited, Readable
<1> QED BY <1>1, <1>2, SteadyFacts

\* The remaining steps of a pass keep what the table means.
LEMMA RestWorks ==
    ASSUME Types, CertInv, AgreeInv, PrepInv, PrepInv', TableInv, req.kind = "prepare",
           Input \/ NormaliseMode \/ NormalisePolicy \/ WriteBase \/ Output \/ Generate \/ Confirm
    PROVE  TableInv'
<1>1. UNCHANGED req /\ rc = 0 /\ pc \notin {"release", "idle"}
  BY DEF Input, NormaliseMode, NormalisePolicy, Normalise, WriteBase, Output, Generate, Confirm,
         GenerateTo, holder, TableInv, Busy
<1>2. CASE Input \/ NormaliseMode \/ NormalisePolicy
  <2>1. \/ pc' \in {"mode", "policy", "read"} /\ UNCHANGED rc
        \/ pc' = "release" /\ rc' = 1
    BY <1>2 DEF Input, NormaliseMode, NormalisePolicy, Normalise, Goto
  <2> QED BY <1>1, <2>1 DEF TableInv, Worked
<1>3. CASE WriteBase
  <2>1. /\ UNCHANGED <<file, edited>> /\ pc = "base"
        /\ \/ pc' = "release" /\ rc' = 1
           \/ /\ pc' = "output" /\ UNCHANGED rc
              /\ base' \in {Missing, [pkgs |-> file["pkgs"], generation |-> norm.generation]}
    BY <1>3 DEF WriteBase, Goto, history
  <2>2. CASE pc' = "release" /\ rc' = 1
    BY <1>1, <2>2 DEF TableInv, Worked
  <2>3. CASE /\ pc' = "output" /\ UNCHANGED rc
             /\ base' \in {Missing, [pkgs |-> file["pkgs"], generation |-> norm.generation]}
    <3>1. Unedited(file, base')
      BY <2>3 DEF Unedited
    <3>2. ~edited => <<file["pkgs"], file["states"]>> \in Proper
      BY <1>1, <2>1 DEF PrepInv, PassInv, Types, Place
    <3>3. ~edited => Steady(file, base')
      BY <3>1, <3>2, SteadyFacts
    <3> QED BY <1>1, <2>1, <2>3, <3>3 DEF TableInv, Worked
  <2> QED BY <2>1, <2>2, <2>3
<1>4. CASE Output
  <2>1. /\ UNCHANGED <<file, base, edited>> /\ pc = "output"
        /\ \/ pc' \in {"generate", "input"} /\ UNCHANGED rc
           \/ pc' = "release" /\ rc' = 75
    BY <1>4 DEF Output, Again, Goto, Kept, KeptBut
  <2> QED BY <1>1, <2>1 DEF TableInv, Worked
<1>5. CASE Generate
  <2>1. /\ UNCHANGED <<file, base, edited>> /\ pc = "generate"
        /\ \/ pc' = "confirm" /\ UNCHANGED rc
           \/ pc' = "release" /\ rc' = 1
    BY <1>5 DEF Generate, GenerateTo, Goto, history
  <2> QED BY <1>1, <2>1 DEF TableInv, Worked
<1>6. CASE Confirm
  <2>1. /\ UNCHANGED <<file, base>> /\ pc = "confirm"
        /\ \/ pc' = "stat" /\ file = saw /\ UNCHANGED rc
           \/ pc' = "input" /\ UNCHANGED rc
           \/ pc' = "release" /\ rc' \in {1, 75}
        /\ ~edited' => ~edited \/ Readable
    BY <1>6 DEF Confirm, Again, Goto, Seen
  <2>2. pc' = "stat" /\ ~edited' => Steady(file, base)
    <3>1. ~edited => Steady(file, base)
      BY <1>1, <2>1 DEF TableInv, Worked
    <3>2. file = saw /\ Readable => Steady(file, base)
      BY <2>1, LookSteady
    <3> QED BY <2>1, <3>1, <3>2
  <2>3. pc' = "stat" /\ ~edited' => Steady(file', base')
    BY <2>1, <2>2
  <2> QED BY <1>1, <2>1, <2>3 DEF TableInv, Worked
<1> QED BY <1>2, <1>3, <1>4, <1>5, <1>6

\* So do the certificate and the end.
LEMMA EndWorks ==
    ASSUME TableInv, req.kind = "prepare", Fingerprint \/ Release \/ Kill
    PROVE  TableInv'
<1>1. CASE Fingerprint
  <2>1. /\ UNCHANGED <<req, file, base, edited, rc>> /\ pc \in {"stat", "certify", "uncertify"}
        /\ pc' \in {"certify", "uncertify", "release"}
    BY <1>1 DEF Fingerprint, Stat, Certify, Uncertify, Kept, KeptBut, holder, Goto, Finish
  <2> QED BY <2>1 DEF TableInv, Worked, Busy
<1>2. CASE Release \/ Kill
  <2>1. pc' = "idle"
    BY <1>2 DEF Release, Kill, End, Goto
  <2> QED BY <2>1 DEF TableInv, Worked, Busy
<1> QED BY <1>1, <1>2

\* The invariant of a prepare's table.
LEMMA TableHolds ==
    ASSUME ~Repeat, EditAt \cap {"stat", "mark"} = {}, Passes > 1
    PROVE  Spec => []TableInv
<1>1. Init => TableInv
  BY DEF Init, TableInv, Worked, Busy
<1>2. Types /\ CertInv /\ AgreeInv /\ PrepInv /\ PrepInv' /\ TableInv /\ [Next]_vars => TableInv'
  <2>1. SUFFICES ASSUME Types, CertInv, AgreeInv, PrepInv, PrepInv', TableInv, [Next]_vars
                 PROVE  TableInv'
    OBVIOUS
  <2>2. CASE Begin
    <3>1. req'.kind = "prepare" => pc' = "fast" /\ rc' = 0
      BY <2>2 DEF Begin, First, Goto
    <3> QED BY <3>1 DEF TableInv, Worked
  <2>3. CASE ~Begin /\ req.kind # "prepare"
    BY <2>1, <2>3, SameCommand DEF TableInv
  <2>4. CASE ~Begin /\ req.kind = "prepare"
    <3>1. UNCHANGED req /\ pc \in PrepareLabel
      BY <2>1, <2>4, SameCommand DEF PrepInv
    <3>2. CASE Prepare
      BY <2>1, <2>4, <3>2, FastWorks, TableWorks, RestWorks DEF Prepare
    <3>3. CASE Fingerprint \/ Release \/ Kill
      BY <2>1, <2>4, <3>3, EndWorks
    <3>4. CASE TailEnd \/ UNCHANGED vars
      <4>1. UNCHANGED <<file, base, norm, moved, req, rc, edited, pc>>
        BY <3>4 DEF TailEnd, vars, disk, holder, history
      <4> QED BY <2>1, <4>1 DEF TableInv, Worked, Meant, Steady, Busy
    <3>5. CASE CommitStep /\ ~TailEnd
      <4>1. pc \in {"backup", "move", "chmod", "compare", "cleanup", "restore", "late"}
        BY <3>5 DEF CommitStep, Backup, Move, Chmod, Compare, Cleanup, Restore, Late
      <4> QED BY <3>1, <4>1 DEF PrepareLabel
    <3>6. CASE Switching
      <4>1. pc \in {"mark", "match", "first", "second", "unfirst", "unsecond", "recheck"}
        BY <3>6 DEF Switching, Mark, Match, MarkTable, WriteFirst, WriteSecond, UnwriteFirst,
                    UnwriteSecond, Recheck
      <4> QED BY <3>1, <4>1 DEF PrepareLabel
    <3>7. CASE Signal
      BY <2>4, <3>7 DEF Signal
    <3>8. CASE Edit \/ TailSignal
      <4>1. UNCHANGED <<pc, rc>> /\ edited'
        BY <3>8 DEF Edit, TailSignal
      <4> QED BY <2>1, <3>1, <4>1 DEF TableInv, Busy
    <3> QED BY <2>1, <2>4, <3>2, <3>3, <3>4, <3>5, <3>6, <3>7, <3>8 DEF Next
  <2> QED BY <2>2, <2>3, <2>4
<1> QED BY <1>1, <1>2, TypesHold, CertHolds, AgreeHolds, PrepHolds, PTL DEF Spec

-----------------------------------------------------------------------------
(* What a command does to the configuration.                               *)

\* What files mean is a configuration.
LEMMA MeansTypes ==
    ASSUME NEW c \in Disk, NEW b
    PROVE  Means(c, b) \in Views
<1> DEFINE table == Meant(c, b)
<1>1. <<table.pkgs, table.states>> \in Proper
  BY DiskFacts, NormalizedFacts DEF Meant
<1>2. table.pkgs \in Pkgs /\ table.states \in [Slot -> {On, Off}]
  BY <1>1, ProperFacts
<1> HIDE DEF table
<1>3. table.states \in States
  BY <1>2 DEF States
<1>4. Runtime(table.pkgs, table.states) \in Pkgs
  <2>1. table.pkgs \notin {Missing, Broken} /\ table.states \notin {Missing, Broken}
    BY <1>2, <1>3, TableAssumption
  <2>2. Runtime(table.pkgs, table.states) = [i \in Slot |-> IF table.states[i] = On THEN table.pkgs[i] ELSE Empty]
    BY <2>1 DEF Runtime
  <2>3. \A i \in Slot : table.pkgs[i] \in Name \cup {Empty, Junk}
    BY <1>2 DEF Pkgs
  <2> QED BY <2>2, <2>3 DEF Pkgs
<1>5. /\ Valid("state", c["state"]) \in Value /\ Valid("policy", c["policy"]) \in Value
  BY DEF Valid, Value
<1>6. Means(c, b) = [mode |-> Valid("state", c["state"]), policy |-> Valid("policy", c["policy"]),
                     pkgs |-> Runtime(table.pkgs, table.states)]
  BY DEF Means, table, Meant
<1> QED BY <1>4, <1>5, <1>6 DEF Views

\* The parts of it.
LEMMA MeansFacts ==
    ASSUME NEW c, NEW b
    PROVE  /\ Means(c, b) = [mode |-> Mode(c), policy |-> Policy(c),
                             pkgs |-> Runtime(Meant(c, b).pkgs, Meant(c, b).states)]
           /\ Means(c, b).mode = Mode(c) /\ Means(c, b).policy = Policy(c)
           /\ Means(c, b).pkgs = Runtime(Meant(c, b).pkgs, Meant(c, b).states)
BY DEF Means, Mode, Policy, Meant

\* Files that the normalisation would leave alone mean what they say.
LEMMA SteadyMeans ==
    ASSUME NEW c, NEW b, Steady(c, b)
    PROVE  /\ Means(c, b).pkgs = Runtime(c["pkgs"], c["states"])
           /\ Means(c, b) = [mode |-> Mode(c), policy |-> Policy(c),
                             pkgs |-> Runtime(c["pkgs"], c["states"])]
BY MeansFacts DEF Steady, Stable, Meant

\* The configuration that is seen is one, and the exit status.
Seeming == View \in Views /\ Told \in Session!Status

\* What is seen is a configuration and an exit status.
LEMMA ViewTypes ==
    ASSUME Types, EntryInv
    PROVE  Seeming
<1>1. file \in Disk /\ entry \in Disk
  BY DEF Types, DiskTypes, EntryInv
<1>2. Means(file, base) \in Views /\ Means(entry, base) \in Views
  BY <1>1, MeansTypes
<1>3. pc = "states" => Runtime(norm.table.pkgs, norm.table.states) \in Pkgs
  <2>1. SUFFICES ASSUME pc = "states"
                 PROVE  Runtime(norm.table.pkgs, norm.table.states) \in Pkgs
    OBVIOUS
  <2>2. norm.table.pkgs \in Pkgs /\ norm.table.states \in [Slot -> {On, Off}]
    BY <2>1, ProperFacts DEF Types, Place
  <2>3. norm.table.states \in States
    BY <2>2 DEF States
  <2>4. norm.table.pkgs \notin {Missing, Broken} /\ norm.table.states \notin {Missing, Broken}
    BY <2>2, <2>3, TableAssumption
  <2>5. Runtime(norm.table.pkgs, norm.table.states) # Broken
    BY <2>2, <2>3, <2>4, RuntimeTypes, TableAssumption DEF Runtime, Pkgs
  <2> QED BY <2>2, <2>3, <2>5, RuntimeTypes
<1>4. View \in Views
  BY <1>2, <1>3 DEF View, Views
<1>5. Told \in Session!Status
  BY DEF Told, Session!Status, Types, HolderTypes
<1> QED BY <1>4, <1>5 DEF Seeming

-----------------------------------------------------------------------------
(* The steps of ConfigSession.                                             *)

Visible == <<View, tmp, Owner, Told, edited>>
Simulated == [Session!Next]_Visible

\* A command is not the value that stands for none.
LEMMA OwnerFacts ==
    ASSUME Types
    PROVE  (Busy => Owner = req /\ Owner # Missing) /\ (~Busy => Owner = Missing)
<1>1. req \in Commands
  <2>1. [kind |-> "prepare"] \in Commands
    BY DEF Commands
  <2> QED BY <2>1, CommandAssumption DEF Types, Place
<1> QED BY <1>1, MissingAssumption DEF Owner

\* After a foreign write nothing is promised.
LEMMA DisturbStep ==
    ASSUME Types, Types', Seeming', [Next]_vars, ~Begin, edited'
    PROVE  Simulated
<1>1. View' \in Views /\ Told' \in Session!Status
  BY DEF Seeming
<1>2. tmp' \in Pkgs \cup {Missing, Broken}
  BY DEF Types, DiskTypes
<1>3. /\ UNCHANGED req
      /\ pc = "idle" => UNCHANGED <<pc, rc>>
  BY SameCommand
<1>4. CASE Busy
  <2>1. Owner # Missing /\ Owner' \in {Owner, Missing}
    BY <1>3, <1>4, OwnerFacts DEF Owner
  <2>2. Session!Disturb
    BY <1>1, <1>2, <2>1 DEF Session!Disturb
  <2> QED BY <2>2 DEF Session!Next, Simulated
<1>5. CASE ~Busy
  <2>1. UNCHANGED <<Owner, Told>>
    BY <1>3, <1>5 DEF Owner, Told, Busy
  <2>2. Session!Disturb
    BY <1>1, <1>2, <2>1 DEF Session!Disturb
  <2> QED BY <2>2 DEF Session!Next, Simulated
<1> QED BY <1>4, <1>5

\* A command that begins changes nothing that is seen.
LEMMA BeginStep ==
    ASSUME Types, Begin
    PROVE  Simulated
<1>1. /\ pc = "idle" /\ UNCHANGED <<file, base, tmp>> /\ entry' = file /\ edited' = FALSE
      /\ rc' = 0 /\ req' \in Command /\ pc' = First(req'.kind)
  BY DEF Begin, disk, Goto
<1>2. pc' \notin {"idle", "states"}
  BY <1>1 DEF First
<1>3. Owner = Missing /\ Owner' = req' /\ Told' = 0
  BY <1>1, <1>2 DEF Owner, Told, Busy
<1>4. View = Means(file, base)
  BY <1>1 DEF View, Busy
<1>5. View' = Means(file', base')
  BY <1>1, <1>2 DEF View, Busy
<1>6. View' = View
  BY <1>1, <1>4, <1>5
<1>7. Session!Open
  BY <1>1, <1>3, <1>6 DEF Session!Open
<1> QED BY <1>7 DEF Session!Next, Simulated

\* Nothing is seen of what a commit or a switch does before it ends.
LEMMA QuietStep ==
    ASSUME Busy, Busy', req.kind # "prepare", UNCHANGED <<req, entry, base, tmp, edited>>
    PROVE  Simulated
<1>1. UNCHANGED <<Owner, Told>>
  BY DEF Owner, Told
<1>2. View = Means(entry, base) /\ View' = Means(entry', base')
  BY DEF View
<1>3. UNCHANGED Visible
  BY <1>1, <1>2 DEF Visible
<1> QED BY <1>3 DEF Simulated

\* A step that fails as ConfigSession allows.
LEMMA FailStep ==
    ASSUME Types, Seeming', Busy, ~edited, UNCHANGED <<edited, tmp>>, Told = 0,
           Owner' \in {Owner, Missing}, Session!MayLeave(View'),
           Told' \in IF req.kind = "commit" THEN {74, 75, 130, 137} ELSE {1, 137}
    PROVE  Simulated
<1>1. Owner = req /\ Owner # Missing
  BY OwnerFacts
<1>2. Session!Alone
  BY <1>1 DEF Session!Alone
<1>3. Session!Fail
  BY <1>1, <1>2 DEF Session!Fail, Seeming
<1> QED BY <1>3 DEF Session!Next, Simulated

\* Who fails may leave the configuration alone.
LEMMA SameMayLeave ==
    ASSUME View' = View
    PROVE  Session!MayLeave(View')
BY DEF Session!MayLeave

\* A step that succeeds with the whole of what was asked.
LEMMA SucceedStep ==
    ASSUME Types, Busy, ~edited, Told = 0, Owner' = Missing, UNCHANGED <<edited, tmp, Told>>,
           View' = Asked(req, View), req.kind = "prepare" => tmp = View.pkgs
    PROVE  Simulated
<1>1. Owner = req /\ Owner # Missing
  BY OwnerFacts
<1>2. Session!Succeed
  BY <1>1 DEF Session!Succeed, Session!Alone
<1> QED BY <1>2 DEF Session!Next, Simulated

\* Who has failed leaves without another change.
LEMMA LeaveStep ==
    ASSUME Types, Busy, ~edited, Told # 0, Owner' = Missing, UNCHANGED <<edited, tmp, View>>,
           Told' \in {Told, 137}
    PROVE  Simulated
<1>1. Owner # Missing
  BY OwnerFacts
<1>2. Session!Leave
  BY <1>1 DEF Session!Leave, Session!Alone
<1> QED BY <1>2 DEF Session!Next, Simulated

\* What a command asks for.
LEMMA AskedFacts ==
    ASSUME NEW c \in Command
    PROVE  /\ \A v : c.kind = "commit" =>
                 Asked(c, v) = [mode |-> c.mode, policy |-> c.policy,
                                pkgs |-> Runtime(c.table.pkgs, c.table.states)]
           /\ \A v : c.kind = "prepare" => Asked(c, v) = v
           /\ \A m, p, k : c.kind \in Switcher =>
                 Asked(c, [mode |-> m, policy |-> p, pkgs |-> k]) =
                     [mode |-> ModeAsked(c, m), policy |-> PolicyAsked(c, p), pkgs |-> k]
<1>1. /\ c.kind = "toggle" => c.target \in {"state", "policy"}
  BY CommandFacts
<1>2. ASSUME NEW m, NEW p, NEW k, c.kind \in Switcher
      PROVE  Asked(c, [mode |-> m, policy |-> p, pkgs |-> k]) =
                 [mode |-> ModeAsked(c, m), policy |-> PolicyAsked(c, p), pkgs |-> k]
  <2>1. CASE c.kind = "controls"
    BY <2>1 DEF Asked, ModeAsked, PolicyAsked
  <2>2. CASE c.kind = "toggle" /\ c.target = "state"
    BY <2>2 DEF Asked, ModeAsked, PolicyAsked
  <2>3. CASE c.kind = "toggle" /\ c.target = "policy"
    BY <2>3 DEF Asked, ModeAsked, PolicyAsked
  <2>4. CASE c.kind = "setmode"
    BY <2>4 DEF Asked, ModeAsked, PolicyAsked
  <2> QED BY <1>1, <1>2, <2>1, <2>2, <2>3, <2>4 DEF Switcher
<1> QED BY <1>2 DEF Asked

-----------------------------------------------------------------------------
(* Commits and switches.                                                   *)

\* How they end.
LEMMA Ending ==
    ASSUME Types, Busy, ~Busy', req.kind # "prepare", UNCHANGED <<entry, base>>
    PROVE  /\ Owner' = Missing /\ Told = 0 /\ Told' = rc'
           /\ View = Means(entry, base) /\ View' = Means(file', base)
<1>1. pc' = "idle"
  BY DEF Busy
<1>2. View = Means(entry, base)
  BY DEF View
<1>3. View' = Means(file', base')
  BY <1>1 DEF View, Busy
<1>4. Owner' = Missing /\ Told = 0 /\ Told' = rc'
  BY <1>1 DEF Owner, Told, Busy
<1> QED BY <1>2, <1>3, <1>4

\* A commit that ends with status 0 is seen as what it was to install.
LEMMA CommitSucceeds ==
    ASSUME Types, Inductive, GenInv, MixInv, req.kind = "commit", pc = "release", ~edited,
           pc' = "idle", rc' = rc, UNCHANGED <<file, base, entry, edited, tmp>>
    PROVE  Simulated
<1>1. req \in Command /\ Busy /\ ~Busy'
  BY DEF Types, Place, Busy
<1>2. file = new /\ rc = 0
  BY DEF GenInv, Inductive, CommitInv, Sound, Progress
<1>3. /\ new["state"] = req.mode /\ new["policy"] = req.policy
      /\ new["pkgs"] = req.table.pkgs /\ new["states"] = req.table.states
  BY <1>1, FileNames DEF MixInv, NewFiles
<1>4. Steady(new, base)
  BY CommitAgrees, SteadyFacts DEF GenInv
<1>5. Mode(new) = req.mode /\ Policy(new) = req.policy
  BY <1>1, <1>3, CommandFacts, ValidStays DEF Mode, Policy
<1>6. Means(new, base) = [mode |-> req.mode, policy |-> req.policy,
                          pkgs |-> Runtime(req.table.pkgs, req.table.states)]
  BY <1>3, <1>4, <1>5, SteadyMeans
<1>7. /\ Owner' = Missing /\ Told = 0 /\ Told' = rc'
      /\ View' = Means(file', base)
  BY <1>1, Ending
<1>8. View' = Asked(req, View)
  BY <1>1, <1>2, <1>6, <1>7, AskedFacts
<1> QED BY <1>1, <1>2, <1>7, <1>8, SucceedStep

\* A commit that fails leaves each control old, new or, where its file is
\* missing or broken, the default.
LEMMA CommitFails ==
    ASSUME Types, Seeming', MixInv, req.kind = "commit", Busy, ~Busy', ~edited,
           UNCHANGED <<base, entry, edited, tmp>>, rc' \in {74, 75, 130, 137},
           \A f \in {"state", "policy"} : file'[f] \in {entry[f], new[f], Missing, Broken}
    PROVE  Simulated
<1>1. req \in Command /\ Owner = req
  BY OwnerFacts DEF Types, Place
<1>2. /\ Owner' = Missing /\ Told = 0 /\ Told' = rc'
      /\ View = Means(entry, base) /\ View' = Means(file', base)
  BY Ending
<1>3. new["state"] = req.mode /\ new["policy"] = req.policy
  BY FileNames DEF MixInv, NewFiles
<1>4. Asked(req, View).mode = req.mode /\ Asked(req, View).policy = req.policy
  BY <1>1, AskedFacts
<1>5. View.mode = Mode(entry) /\ View.policy = Policy(entry)
      /\ View'.mode = Mode(file') /\ View'.policy = Policy(file')
  BY <1>2, MeansFacts
<1>6. Valid("state", req.mode) = req.mode /\ Valid("policy", req.policy) = req.policy
  BY <1>1, CommandFacts, ValidStays
<1>7. /\ Valid("state", Missing) = "disabled" /\ Valid("state", Broken) = "disabled"
      /\ Valid("policy", Missing) = "enabled" /\ Valid("policy", Broken) = "enabled"
  BY MissingAssumption DEF Valid
<1>8. Mode(file') \in {Mode(entry), req.mode, "disabled"}
  BY <1>3, <1>6, <1>7 DEF Mode
<1>9. Policy(file') \in {Policy(entry), req.policy, "enabled"}
  BY <1>3, <1>6, <1>7 DEF Policy
<1>10. Session!MayLeave(View')
  BY <1>1, <1>4, <1>5, <1>8, <1>9 DEF Session!MayLeave
<1> QED BY <1>2, <1>10, FailStep

\* Every step of a commit.
LEMMA CommitSimulates ==
    ASSUME Types, Types', Seeming', Inductive, GenInv, MixInv, EntryInv, req.kind = "commit", Busy,
           ~edited, ~edited', [Next]_vars
    PROVE  Simulated
<1>1. UNCHANGED <<req, new, entry, edited>>
  <2>1. ~Begin
    BY DEF Begin, Busy
  <2>2. UNCHANGED <<req, new, entry>>
    BY <2>1, SameCommand
  <2>3. UNCHANGED edited
    <3>1. edited \in BOOLEAN /\ edited' \in BOOLEAN
      BY EditedTypes DEF EntryInv
    <3> QED BY <3>1
  <2> QED BY <2>2, <2>3
<1>2. UNCHANGED <<base, tmp>>
  <2>1. CASE CommitStep \/ Fingerprint
    BY <2>1 DEF CommitStep, Fingerprint, Backup, Move, Chmod, Compare, Cleanup, Restore, Late,
                TailEnd, Stat, Certify, Uncertify, disk, Kept, KeptBut
  <2>2. CASE Switching \/ Prepare
    BY <2>2, SwitchFacts, PrepareFacts
  <2>3. CASE Release \/ Signal \/ Kill \/ UNCHANGED vars
    BY <2>3 DEF Release, Signal, Kill, vars, disk
  <2>4. CASE Begin \/ Edit \/ TailSignal
    BY <2>4 DEF Begin, Busy, Edit, TailSignal
  <2> QED BY <2>1, <2>2, <2>3, <2>4 DEF Next
<1>3. CASE Busy'
  BY <1>1, <1>2, <1>3, QuietStep
<1>4. CASE ~Busy'
  <2>1. \/ Release /\ rc' = rc
        \/ (Restore \/ Late) /\ rc' = rc
        \/ Kill /\ rc' = 137
    <3>1. pc' = "idle" /\ pc # "idle"
      BY <1>4 DEF Busy
    <3>2. CASE Release
      BY <3>1, <3>2 DEF Release, Goto, End
    <3>3. CASE CommitStep
      <4>1. CASE Backup \/ Move
        BY <3>1, <4>1 DEF Backup, Move, NextFile, Fails, Goto
      <4>2. CASE Chmod \/ Compare \/ Cleanup \/ TailEnd
        BY <3>1, <4>2 DEF Chmod, Compare, Cleanup, TailEnd, Fails, Goto
      <4>3. CASE Restore \/ Late
        BY <3>1, <4>3 DEF Restore, Late, End
      <4> QED BY <3>3, <4>1, <4>2, <4>3 DEF CommitStep
    <3>4. CASE Fingerprint
      BY <3>1, <3>4 DEF Fingerprint, Stat, Certify, Uncertify, Finish, Goto
    <3>5. CASE Switching \/ Prepare
      BY <3>5, SwitchFacts, PrepareFacts
    <3>6. CASE Signal
      BY <3>1, <3>6 DEF Signal, Goto
    <3>7. CASE Kill
      BY <3>7 DEF Kill, End
    <3>8. CASE Begin \/ Edit \/ TailSignal \/ UNCHANGED vars
      BY <3>1, <3>8 DEF Begin, Edit, TailSignal, vars
    <3> QED BY <3>2, <3>3, <3>4, <3>5, <3>6, <3>7, <3>8 DEF Next
  <2>2. CASE Release /\ rc' = rc
    <3>1. pc = "release" /\ pc' = "idle" /\ UNCHANGED file
      BY <1>4, <2>2 DEF Release, disk, Busy
    <3> QED BY <1>1, <1>2, <2>2, <3>1, CommitSucceeds
  <2>3. CASE (Restore \/ Late) /\ rc' = rc
    <3>1. rc \in {74, 75, 130}
      BY <2>3 DEF Restore, Late, MixInv
    <3>2. \A f \in {"state", "policy"} : file'[f] \in {entry[f], new[f], Missing, Broken}
      <4>1. CASE Restore
        <5>1. PICK c \in {old[Order[at]], file[Order[at]], Broken} : Replace(Order[at], c)
          BY <4>1 DEF Restore
        <5> QED BY <5>1, OrderIsFile, MixReplaced DEF MixInv, Types
      <4>2. CASE Late
        <5>1. \A f \in File : file'[f] \in {file[f], Missing}
          BY <4>2, RemoveTracks DEF Late, NoBackup
        <5> QED BY <5>1, FileNames DEF MixInv
      <4> QED BY <2>3, <4>1, <4>2
    <3> QED BY <1>1, <1>2, <1>4, <2>3, <3>1, <3>2, CommitFails
  <2>4. CASE Kill /\ rc' = 137
    <3>1. \A f \in {"state", "policy"} : file'[f] \in {entry[f], new[f], Missing, Broken}
      <4>1. UNCHANGED file \/ Replace(Order[at], Broken)
        BY <2>4 DEF Kill
      <4> QED BY <4>1, OrderIsFile, MixReplaced DEF MixInv, Types
    <3> QED BY <1>1, <1>2, <1>4, <2>4, <3>1, CommitFails
  <2> QED BY <2>1, <2>2, <2>3, <2>4
<1> QED BY <1>3, <1>4

\* A switch that ends has its new value or says that it has failed.
LEMMA SwitchConcludes ==
    ASSUME Types, Types', Seeming', SwitchInv, req.kind \in Switcher, Busy, ~Busy', ~edited,
           UNCHANGED <<file, base, entry, edited, tmp>>,
           \/ pc = "release" /\ rc' \in {rc, 1}
           \/ rc' = 137
    PROVE  Simulated
<1>1. req \in Command /\ Owner = req /\ req.kind \notin {"commit", "prepare"}
  BY OwnerFacts DEF Types, Place, Switcher
<1>2. Switched
  BY DEF SwitchInv
<1>3. /\ Owner' = Missing /\ Told = 0 /\ Told' = rc'
      /\ View = Means(entry, base) /\ View' = Means(file, base)
  BY <1>1, Ending
<1>4. Meant(file, base) = Meant(entry, base)
  BY <1>2 DEF Meant, GenOf, Switched, TableFile
<1> DEFINE k == Runtime(Meant(entry, base).pkgs, Meant(entry, base).states)
<1>5. /\ View = [mode |-> Mode(entry), policy |-> Policy(entry), pkgs |-> k]
      /\ View' = [mode |-> Mode(file), policy |-> Policy(file), pkgs |-> k]
  BY <1>3, <1>4, MeansFacts
<1> HIDE DEF k
<1>6. Asked(req, View) = [mode |-> ModeAsked(req, Mode(entry)),
                          policy |-> PolicyAsked(req, Policy(entry)), pkgs |-> k]
  BY <1>1, <1>5, AskedFacts
<1>7. CASE pc = "release" /\ rc = 0 /\ rc' = 0
  <2>1. View' = Asked(req, View)
    BY <1>2, <1>5, <1>6, <1>7 DEF Switched
  <2> QED BY <1>1, <1>3, <1>7, <2>1, SucceedStep
<1>8. CASE rc' \in {1, 137}
  <2>1. Session!MayLeave(View')
    BY <1>1, <1>2, <1>5, <1>6 DEF Session!MayLeave, Switched
  <2> QED BY <1>1, <1>3, <1>8, <2>1, FailStep
<1>9. rc \in {0, 1}
  BY <1>2 DEF Switched
<1> QED BY <1>7, <1>8, <1>9

\* Every step of a switch.
LEMMA SwitchSimulates ==
    ASSUME Types, Types', Seeming', SwitchInv, EntryInv, req.kind \in Switcher, Busy,
           ~edited, ~edited', [Next]_vars
    PROVE  Simulated
<1>1. UNCHANGED <<req, entry, edited>> /\ pc \in SwitchLabel \ {"idle"}
  <2>1. ~Begin
    BY DEF Begin, Busy
  <2>2. UNCHANGED <<req, entry>>
    BY <2>1, SameCommand
  <2>3. edited \in BOOLEAN /\ edited' \in BOOLEAN
    BY EditedTypes DEF EntryInv
  <2>4. UNCHANGED edited
    BY <2>3
  <2> QED BY <2>2, <2>4 DEF SwitchInv, Busy
<1>2. CASE Switching \/ Fingerprint \/ TailEnd \/ UNCHANGED vars
  <2>1. UNCHANGED <<base, tmp>>
    BY <1>2 DEF Switching, Mark, Match, MarkTable, WriteFirst, WriteSecond, UnwriteFirst,
                UnwriteSecond, Recheck, Fingerprint, Stat, Certify, Uncertify, TailEnd, vars, disk,
                Kept, KeptBut
  <2>2. Busy'
    <3>1. CASE Switching
      BY <3>1 DEF Switching, Mark, Match, MarkTable, WriteFirst, WriteSecond, UnwriteFirst,
                  UnwriteSecond, Recheck, Goto, Otherwise, Busy
    <3>2. CASE Fingerprint
      BY <3>2 DEF Fingerprint, Stat, Certify, Uncertify, Finish, Goto, Busy
    <3>3. CASE TailEnd \/ UNCHANGED vars
      BY <3>3 DEF TailEnd, vars, Busy
    <3> QED BY <1>2, <3>1, <3>2, <3>3
  <2> QED BY <1>1, <2>1, <2>2, QuietStep DEF Switcher
<1>3. CASE Release \/ Kill
  <2>1. /\ UNCHANGED <<file, base, tmp>> /\ ~Busy'
        /\ \/ pc = "release" /\ rc' \in {rc, 1}
           \/ rc' = 137
    <3>1. CASE Release
      BY <3>1 DEF Release, End, Goto, disk, Busy, Switcher
    <3>2. CASE Kill
      BY <1>1, <3>2 DEF Kill, End, Goto, Busy, SwitchLabel
    <3> QED BY <1>3, <3>1, <3>2
  <2> QED BY <1>1, <2>1, SwitchConcludes
<1>4. CASE CommitStep /\ ~TailEnd
  <2>1. pc \in {"backup", "move", "chmod", "compare", "cleanup", "restore", "late"}
    BY <1>4 DEF CommitStep, Backup, Move, Chmod, Compare, Cleanup, Restore, Late
  <2> QED BY <1>1, <2>1 DEF SwitchLabel
<1>5. CASE Prepare
  <2>1. pc \in {"fast", "fastgen", "fastconfirm", "input", "mode", "policy", "read",
                "pkgs", "states", "base", "output", "generate", "confirm"}
    BY <1>5 DEF Prepare, Fast, FastGenerate, FastConfirm, Input, NormaliseMode,
                NormalisePolicy, ReadTable, WritePkgs, WriteStates, WriteBase, Output,
                Generate, Confirm, Normalise
  <2> QED BY <1>1, <2>1 DEF SwitchLabel
<1>6. CASE Begin \/ Signal \/ Edit \/ TailSignal
  BY <1>6 DEF Begin, Busy, Signal, Switcher, Edit, TailSignal
<1> QED BY <1>2, <1>3, <1>4, <1>5, <1>6 DEF Next, CommitStep

-----------------------------------------------------------------------------
(* Prepare.                                                                *)

\* The view while a prepare is at work, or nobody.
LEMMA PrepareView ==
    ASSUME ~Busy \/ req.kind = "prepare"
    PROVE  /\ pc # "states" => View = Means(file, base)
           /\ pc = "states" =>
                 View = [Means(file, base) EXCEPT !.pkgs = Runtime(norm.table.pkgs, norm.table.states)]
BY DEF View, Busy

\* A step that keeps what prepare has told.
LEMMA KeepStep ==
    ASSUME Busy, Busy', req.kind = "prepare", UNCHANGED <<req, tmp, edited, rc, View>>
    PROVE  Simulated
<1>1. UNCHANGED <<Owner, Told>>
  BY DEF Owner, Told
<1>2. UNCHANGED Visible
  BY <1>1 DEF Visible
<1> QED BY <1>2 DEF Simulated

\* One that fails.
LEMMA GiveUp ==
    ASSUME Types, Seeming', Busy, req.kind = "prepare", rc = 0, rc' \in {1, 137}, ~edited,
           UNCHANGED <<req, tmp, edited>>, Session!MayLeave(View')
    PROVE  Simulated
<1>1. Told = 0 /\ Told' \in {1, 137} /\ Owner' \in {Owner, Missing}
  BY DEF Told, Owner
<1> QED BY <1>1, FailStep

\* And one that writes the patcher's file.
LEMMA PublishStep ==
    ASSUME Types, Busy, Busy', req.kind = "prepare", ~edited, UNCHANGED <<req, edited, rc, View>>,
           tmp' = View.pkgs
    PROVE  Simulated
<1>1. UNCHANGED <<Owner, Told>> /\ Owner = req /\ Owner # Missing
  BY OwnerFacts DEF Owner, Told
<1>2. Session!Publish
  BY <1>1 DEF Session!Publish, Session!Alone
<1> QED BY <1>2 DEF Session!Next, Simulated

\* A last look after a foreign write ends the disturbance.
LEMMA SettleStep ==
    ASSUME Types, Busy, Busy', req.kind = "prepare", edited, edited' = FALSE,
           UNCHANGED <<req, tmp, rc, View>>, tmp = View.pkgs
    PROVE  Simulated
<1>1. UNCHANGED <<Owner, Told>> /\ Owner = req /\ Owner # Missing
  BY OwnerFacts DEF Owner, Told
<1>2. Session!Settle
  BY <1>1 DEF Session!Settle
<1> QED BY <1>2 DEF Session!Next, Simulated

\* The view before and after a step that is not about the two files of the table.
LEMMA SameView ==
    ASSUME req.kind = "prepare", UNCHANGED req, pc # "states", pc' # "states"
    PROVE  View = Means(file, base) /\ View' = Means(file', base')
<1>1. View = Means(file, base)
  BY DEF View
<1>2. View' = Means(file', base')
  BY DEF View
<1> QED BY <1>1, <1>2

\* The steps that change neither files nor baseline.
LEMMA QuietPrepare ==
    ASSUME Types, Seeming', Busy, Busy', req.kind = "prepare", ~edited,
           UNCHANGED <<req, file, base, tmp, edited>>, pc # "states", pc' # "states",
           \/ rc' = rc
           \/ rc = 0 /\ rc' = 1
    PROVE  Simulated
<1>1. View' = View
  BY SameView
<1>2. CASE rc' = rc
  BY <1>1, <1>2, KeepStep
<1>3. CASE rc = 0 /\ rc' = 1
  BY <1>1, <1>3, SameMayLeave, GiveUp
<1> QED BY <1>2, <1>3

\* The fast path of a prepare.
LEMMA FastSimulates ==
    ASSUME Types, Seeming', TableInv, req.kind = "prepare", ~edited, ~edited', edited' = edited,
           UNCHANGED req, Fast \/ FastGenerate \/ FastConfirm
    PROVE  Simulated
<1>1. /\ pc \in {"fast", "fastgen", "fastconfirm"} /\ Busy /\ rc = 0 /\ UNCHANGED <<file, base>>
      /\ pc' \in {"fastgen", "fastconfirm", "input", "release"} /\ Busy'
  BY DEF Fast, FastGenerate, FastConfirm, GenerateTo, Kept, KeptBut, Seen, Goto, Busy, TableInv
<1>2. CASE Fast \/ FastConfirm
  <2>1. UNCHANGED <<tmp, rc>>
    BY <1>2 DEF Fast, FastConfirm, Kept, KeptBut, Seen
  <2> QED BY <1>1, <2>1, QuietPrepare
<1>3. CASE FastGenerate
  <2>1. \/ UNCHANGED tmp /\ rc' \in {rc, 1}
        \/ UNCHANGED rc /\ tmp' = Runtime(file["pkgs"], file["states"])
    BY <1>3 DEF FastGenerate, GenerateTo
  <2>2. CASE UNCHANGED tmp /\ rc' \in {rc, 1}
    BY <1>1, <2>2, QuietPrepare
  <2>3. CASE UNCHANGED rc /\ tmp' = Runtime(file["pkgs"], file["states"])
    <3>1. Steady(file, base)
      BY <1>3 DEF FastGenerate, TableInv, Worked
    <3>2. View' = View /\ View = Means(file, base)
      BY <1>1, SameView
    <3> QED BY <1>1, <2>3, <3>1, <3>2, SteadyMeans, PublishStep
  <2> QED BY <2>1, <2>2, <2>3
<1> QED BY <1>2, <1>3

\* Normalising mode and policy changes nothing that is seen.
LEMMA ControlsSimulate ==
    ASSUME Types, Seeming', TableInv, req.kind = "prepare", ~edited, edited' = edited,
           UNCHANGED req, Input \/ NormaliseMode \/ NormalisePolicy
    PROVE  Simulated
<1>1. /\ Busy /\ rc = 0 /\ UNCHANGED <<base, tmp>> /\ pc \in {"input", "mode", "policy"}
      /\ pc' \in {"mode", "policy", "read", "release"} /\ Busy'
  BY DEF Input, NormaliseMode, NormalisePolicy, Normalise, Kept, KeptBut, Goto, Busy, TableInv
<1>2. CASE Input
  BY <1>1, <1>2, QuietPrepare DEF Input
<1>3. CASE NormaliseMode \/ NormalisePolicy
  <2>1. PICK f \in {"state", "policy"} : \E label, next : Normalise(label, f, Valid(f, file[f]), next)
    BY <1>3 DEF NormaliseMode, NormalisePolicy
  <2>2. \/ UNCHANGED file /\ rc' = 1
        \/ UNCHANGED rc /\ Put(f, Valid(f, file[f]))
    BY <2>1 DEF Normalise
  <2>3. CASE UNCHANGED file /\ rc' = 1
    BY <1>1, <2>3, QuietPrepare
  <2>4. CASE UNCHANGED rc /\ Put(f, Valid(f, file[f]))
    <3>1. /\ file'[f] = Valid(f, file[f])
          /\ f = "state" => file'["policy"] = file["policy"]
          /\ f = "policy" => file'["state"] = file["state"]
          /\ \A g \in TableFile : file'[g] = file[g]
      BY <2>4, ControlPut
    <3>2. Mode(file') = Mode(file) /\ Policy(file') = Policy(file)
      BY <3>1, ValidTwice DEF Mode, Policy
    <3>3. Meant(file', base) = Meant(file, base)
      BY <3>1 DEF Meant, GenOf, TableFile
    <3>4. Means(file', base) = Means(file, base)
      BY <3>2, <3>3, MeansFacts
    <3>5. View' = View
      BY <1>1, <3>4, SameView
    <3> QED BY <1>1, <2>4, <3>5, KeepStep
  <2> QED BY <2>2, <2>3, <2>4
<1> QED BY <1>2, <1>3

\* What is left if the names were written and the switches were not.
LEMMA HalfWritten ==
    ASSUME Types, Worked, Busy, req.kind = "prepare", pc = "states", UNCHANGED <<req, file, base>>,
           pc' # "states"
    PROVE  Session!MayLeave(View')
<1>1. Owner = req
  BY OwnerFacts
<1>2. View = [Means(file, base) EXCEPT !.pkgs = Runtime(norm.table.pkgs, norm.table.states)]
  BY PrepareView
<1>3. View' = Means(file, base)
  BY DEF View
<1>4. /\ View = [mode |-> Mode(file), policy |-> Policy(file),
                 pkgs |-> Runtime(norm.table.pkgs, norm.table.states)]
      /\ View' = [mode |-> Mode(file), policy |-> Policy(file),
                  pkgs |-> Runtime(Meant(file, base).pkgs, Meant(file, base).states)]
  BY <1>2, <1>3, MeansFacts
<1>5. \/ norm.table = Meant(file, base)
      \/ norm.table.pkgs = DefaultPkgs /\ norm.table.states = DefaultStates
  BY DEF Worked
<1>6. View'.pkgs = View.pkgs \/ View.pkgs = Runtime(DefaultPkgs, DefaultStates)
  BY <1>4, <1>5
<1> QED BY <1>1, <1>4, <1>6 DEF Session!MayLeave

\* Neither does writing the table, except where the default table is cut short.
LEMMA TableSimulates ==
    ASSUME Types, Types', Seeming', TableInv, TableInv', PrepInv, req.kind = "prepare", ~edited,
           edited' = edited, UNCHANGED req, ReadTable \/ WritePkgs \/ WriteStates \/ WriteBase
    PROVE  Simulated
<1>1. /\ Busy /\ rc = 0 /\ UNCHANGED tmp /\ pc \in {"read", "pkgs", "states", "base"}
      /\ pc' \in {"pkgs", "states", "base", "output", "release"} /\ Busy' /\ Worked
  BY DEF ReadTable, WritePkgs, WriteStates, WriteBase, Normalise, Kept, KeptBut, Goto, Busy,
         TableInv
<1>2. CASE ReadTable
  BY <1>1, <1>2, QuietPrepare DEF ReadTable, Goto, Kept, KeptBut
<1>3. CASE WritePkgs
  <2>1. /\ pc = "pkgs" /\ UNCHANGED <<base, norm>>
        /\ \/ pc' = "release" /\ UNCHANGED file /\ rc' = 1
           \/ pc' = "states" /\ UNCHANGED rc /\ Put("pkgs", norm.table.pkgs)
    BY <1>3 DEF WritePkgs, Normalise, Goto, Kept, KeptBut, holder
  <2>2. CASE pc' = "release" /\ UNCHANGED file /\ rc' = 1
    BY <1>1, <2>1, <2>2, QuietPrepare
  <2>3. CASE pc' = "states" /\ UNCHANGED rc /\ Put("pkgs", norm.table.pkgs)
    <3>1. file'["state"] = file["state"] /\ file'["policy"] = file["policy"]
      BY <2>3, PutFacts, FileNames
    <3>2. norm.table = Meant(file, base)
      BY <1>1, <2>1 DEF Worked
    <3>3. View = [mode |-> Mode(file), policy |-> Policy(file),
                  pkgs |-> Runtime(norm.table.pkgs, norm.table.states)]
      BY <2>1, <3>2, PrepareView, MeansFacts
    <3>4. View' = [Means(file', base') EXCEPT !.pkgs = Runtime(norm'.table.pkgs, norm'.table.states)]
      BY <2>3 DEF View
    <3>5. View' = [mode |-> Mode(file'), policy |-> Policy(file'),
                   pkgs |-> Runtime(norm.table.pkgs, norm.table.states)]
      BY <2>1, <3>4, MeansFacts
    <3>6. View' = View
      BY <3>1, <3>3, <3>5 DEF Mode, Policy
    <3> QED BY <1>1, <2>3, <3>6, KeepStep
  <2> QED BY <2>1, <2>2, <2>3
<1>4. CASE WriteStates
  <2>1. /\ pc = "states" /\ UNCHANGED <<base, norm>>
        /\ \/ pc' = "release" /\ UNCHANGED file /\ rc' = 1
           \/ pc' = "base" /\ UNCHANGED rc /\ Put("states", norm.table.states)
    BY <1>4 DEF WriteStates, Normalise, Goto, Kept, KeptBut, holder
  <2>2. CASE pc' = "release" /\ UNCHANGED file /\ rc' = 1
    <3>1. Session!MayLeave(View')
      BY <1>1, <2>1, <2>2, HalfWritten
    <3> QED BY <1>1, <2>2, <3>1, GiveUp
  <2>3. CASE pc' = "base" /\ UNCHANGED rc /\ Put("states", norm.table.states)
    <3>1. /\ file'["state"] = file["state"] /\ file'["policy"] = file["policy"]
          /\ file'["pkgs"] = file["pkgs"] /\ file'["states"] = norm.table.states
      BY <2>3, PutFacts, FileNames
    <3>2. file["pkgs"] = norm.table.pkgs
      BY <2>1 DEF PrepInv, PassInv
    <3>3. Steady(file', base')
      BY <2>3 DEF TableInv, Worked
    <3>4. View' = Means(file', base')
      BY <2>3 DEF View
    <3>5. View' = [mode |-> Mode(file'), policy |-> Policy(file'),
                   pkgs |-> Runtime(norm.table.pkgs, norm.table.states)]
      BY <3>1, <3>2, <3>3, <3>4, SteadyMeans
    <3>6. View = [mode |-> Mode(file), policy |-> Policy(file),
                  pkgs |-> Runtime(norm.table.pkgs, norm.table.states)]
      BY <2>1, PrepareView, MeansFacts
    <3>7. View' = View
      BY <3>1, <3>5, <3>6 DEF Mode, Policy
    <3> QED BY <1>1, <2>3, <3>7, KeepStep
  <2> QED BY <2>1, <2>2, <2>3
<1>5. CASE WriteBase
  <2>1. /\ pc = "base" /\ UNCHANGED file
        /\ \/ pc' = "release" /\ UNCHANGED base /\ rc' = 1
           \/ pc' = "output" /\ UNCHANGED rc
    BY <1>5 DEF WriteBase, Goto
  <2>2. CASE pc' = "release" /\ UNCHANGED base /\ rc' = 1
    BY <1>1, <2>1, <2>2, QuietPrepare
  <2>3. CASE pc' = "output" /\ UNCHANGED rc
    <3>1. Steady(file, base)
      BY <1>1, <2>1 DEF Worked
    <3>2. Steady(file', base')
      BY <2>3 DEF TableInv, Worked
    <3>3. Means(file', base') = Means(file, base)
      BY <2>1, <3>1, <3>2, SteadyMeans
    <3>4. View' = View
      BY <2>1, <2>3, <3>3, SameView
    <3> QED BY <1>1, <2>3, <3>4, KeepStep
  <2> QED BY <2>1, <2>2, <2>3
<1> QED BY <1>2, <1>3, <1>4, <1>5

\* The rest of a pass publishes what is seen.
LEMMA ResultSimulates ==
    ASSUME Types, Seeming', TableInv, PrepInv', req.kind = "prepare", ~edited, ~edited',
           edited' = edited, UNCHANGED req, Output \/ Generate \/ Confirm \/ Fingerprint \/ TailEnd,
           Busy
    PROVE  Simulated
<1>1. UNCHANGED <<file, base>>
  BY DEF Output, Generate, GenerateTo, Confirm, Seen, Fingerprint, Stat, Certify, Uncertify,
         TailEnd, disk, Kept, KeptBut
<1>2. CASE Output
  <2>1. UNCHANGED tmp /\ pc = "output" /\ rc' # 75
    BY <1>2 DEF Output, Kept, KeptBut, PrepInv, PassInv
  <2>2. pc' \in {"generate", "input"} /\ UNCHANGED rc
    BY <1>2, <2>1 DEF Output, Again, Goto
  <2> QED BY <1>1, <2>1, <2>2, QuietPrepare DEF Busy
<1>3. CASE Generate
  <2>1. /\ pc = "generate" /\ rc = 0
        /\ \/ UNCHANGED tmp /\ rc' = 1 /\ pc' = "release"
           \/ UNCHANGED rc /\ tmp' = Runtime(file["pkgs"], file["states"]) /\ pc' = "confirm"
    BY <1>3 DEF Generate, GenerateTo, Goto, TableInv
  <2>2. CASE UNCHANGED tmp /\ rc' = 1 /\ pc' = "release"
    BY <1>1, <2>1, <2>2, QuietPrepare DEF Busy
  <2>3. CASE UNCHANGED rc /\ tmp' = Runtime(file["pkgs"], file["states"]) /\ pc' = "confirm"
    <3>1. Steady(file, base)
      BY <2>1 DEF TableInv, Worked
    <3>2. View' = View /\ View = Means(file, base)
      BY <1>1, <2>1, <2>3, SameView
    <3> QED BY <2>1, <2>3, <3>1, <3>2, SteadyMeans, PublishStep DEF Busy
  <2> QED BY <2>1, <2>2, <2>3
<1>4. CASE Confirm
  <2>1. UNCHANGED tmp /\ pc = "confirm" /\ rc = 0 /\ rc' # 75
    BY <1>4 DEF Confirm, Seen, PrepInv, PassInv, TableInv, Busy
  <2>2. \/ pc' \in {"stat", "input"} /\ UNCHANGED rc
        \/ pc' = "release" /\ rc' = 1
    BY <1>4, <2>1 DEF Confirm, Again, Goto
  <2> QED BY <1>1, <2>1, <2>2, QuietPrepare DEF Busy
<1>5. CASE Fingerprint
  <2>1. UNCHANGED <<tmp, rc>> /\ pc # "states" /\ pc' \notin {"states", "idle"}
    BY <1>5 DEF Fingerprint, Stat, Certify, Uncertify, Finish, Goto, Kept, KeptBut
  <2> QED BY <1>1, <2>1, QuietPrepare DEF Busy
<1>6. CASE TailEnd
  <2>1. UNCHANGED <<tmp, rc, pc, norm>>
    BY <1>6 DEF TailEnd, disk, holder
  <2>2. View' = View
    <3>1. CASE pc # "states"
      BY <1>1, <2>1, <3>1, SameView
    <3>2. CASE pc = "states"
      <4>1. View = [Means(file, base) EXCEPT !.pkgs = Runtime(norm.table.pkgs, norm.table.states)]
        BY <3>2 DEF View
      <4>2. View' = [Means(file', base') EXCEPT !.pkgs = Runtime(norm'.table.pkgs, norm'.table.states)]
        BY <2>1, <3>2 DEF View
      <4> QED BY <1>1, <2>1, <4>1, <4>2
    <3> QED BY <3>1, <3>2
  <2> QED BY <2>1, <2>2, KeepStep DEF Busy
<1> QED BY <1>2, <1>3, <1>4, <1>5, <1>6

\* A prepare that ends.
LEMMA PrepareEnds ==
    ASSUME Types, Seeming', TableInv, PrepInv, EntryInv, req.kind = "prepare", ~edited,
           edited' = edited, UNCHANGED req, Busy, Release \/ Kill
    PROVE  Simulated
<1>1. /\ UNCHANGED <<file, base, tmp>> /\ pc' = "idle" /\ pc \in PrepareLabel /\ Worked
      /\ ~Busy' /\ Owner' = Missing /\ Told' = rc' /\ Told = rc /\ Owner = req
  <2>1. pc \in PrepareLabel
    BY DEF PrepInv
  <2>2. UNCHANGED <<file, base, tmp>> /\ pc' = "idle"
    BY <2>1 DEF Release, Kill, End, Goto, disk, PrepareLabel
  <2> QED BY <2>1, <2>2 DEF Busy, Owner, Told, TableInv
<1>2. View' = Means(file, base)
  <2>1. View' = Means(file', base')
    BY <1>1 DEF View, Busy
  <2> QED BY <1>1, <2>1
<1>3. pc # "states" => View' = View
  BY <1>2, PrepareView
<1>4. CASE pc = "release" /\ rc # 0 /\ rc' \in {rc, 137}
  BY <1>1, <1>3, <1>4, LeaveStep
<1>5. CASE rc = 0 /\ rc' \in {1, 137}
  <2>1. Session!MayLeave(View')
    BY <1>1, <1>3, SameMayLeave, HalfWritten
  <2> QED BY <1>1, <1>5, <2>1, GiveUp
<1>6. CASE pc = "release" /\ rc = 0 /\ rc' = 0
  <2>1. Steady(file, base)
    BY <1>1, <1>6 DEF Worked
  <2>2. tmp = Runtime(file["pkgs"], file["states"])
    BY <1>6 DEF PrepInv, PassInv, Current, EntryInv, Busy
  <2>3. View = Means(file, base) /\ View' = View
    BY <1>3, <1>6, PrepareView
  <2>4. tmp = View.pkgs
    BY <2>1, <2>2, <2>3, SteadyMeans
  <2>5. Asked(req, View) = View
    BY DEF Asked
  <2> QED BY <1>1, <1>6, <2>3, <2>4, <2>5, SucceedStep
<1>7. \/ pc = "release" /\ rc # 0 /\ rc' \in {rc, 137}
      \/ rc = 0 /\ rc' \in {1, 137}
      \/ pc = "release" /\ rc = 0 /\ rc' = 0
  <2>1. CASE Release
    BY <2>1 DEF Release, End, Goto
  <2>2. CASE Kill
    BY <2>2 DEF Kill, End, TableInv
  <2> QED BY <2>1, <2>2
<1> QED BY <1>4, <1>5, <1>6, <1>7

\* One that has looked again.
LEMMA LookSimulates ==
    ASSUME Types, CertInv, AgreeInv, PrepInv, req.kind = "prepare", edited, edited' = FALSE,
           UNCHANGED req, FastConfirm \/ Confirm
    PROVE  Simulated
<1>1. UNCHANGED <<file, base, tmp>> /\ Looked
  BY DEF FastConfirm, Confirm, Seen, PrepInv
<1>2. CASE FastConfirm
  <2>1. pc = "fastconfirm" /\ pc' = "release" /\ moved = {} /\ Matches /\ UNCHANGED rc
    BY <1>2 DEF FastConfirm, Seen, Goto
  <2>2. Steady(file, base)
    BY <2>1, MatchesSteady
  <2>3. tmp = Runtime(file["pkgs"], file["states"])
    BY <1>1, <2>1 DEF Looked, Certifies
  <2>4. View = Means(file, base) /\ View' = View
    BY <1>1, <2>1, SameView
  <2> QED BY <1>1, <2>1, <2>2, <2>3, <2>4, SteadyMeans, SettleStep DEF Busy
<1>3. CASE Confirm
  <2>1. pc = "confirm" /\ pc' = "stat" /\ Readable
    BY <1>3 DEF Confirm, Seen
  <2>2. file = saw /\ UNCHANGED rc
    BY <1>3, <2>1 DEF Confirm, Again, Goto
  <2>3. Steady(file, base)
    BY <2>1, <2>2, LookSteady
  <2>4. tmp = Runtime(file["pkgs"], file["states"])
    BY <1>1, <2>1, <2>2 DEF Looked
  <2>5. View = Means(file, base) /\ View' = View
    BY <1>1, <2>1, SameView
  <2> QED BY <1>1, <2>1, <2>2, <2>3, <2>4, <2>5, SteadyMeans, SettleStep DEF Busy
<1> QED BY <1>2, <1>3

\* Every step of a prepare.
LEMMA PrepareSimulates ==
    ASSUME Types, Types', Seeming', TableInv, TableInv', PrepInv, PrepInv', EntryInv,
           req.kind = "prepare", Busy, ~edited, ~edited', [Next]_vars
    PROVE  Simulated
<1>1. UNCHANGED <<req, edited>> /\ pc \in PrepareLabel \ {"idle"}
  <2>1. ~Begin
    BY DEF Begin, Busy
  <2>2. UNCHANGED req
    BY <2>1, SameCommand
  <2>3. edited \in BOOLEAN /\ edited' \in BOOLEAN
    BY EditedTypes DEF EntryInv
  <2>4. UNCHANGED edited
    BY <2>3
  <2> QED BY <2>2, <2>4 DEF PrepInv, Busy
<1>2. CASE Prepare
  BY <1>1, <1>2, FastSimulates, ControlsSimulate, TableSimulates, ResultSimulates DEF Prepare
<1>3. CASE Fingerprint \/ TailEnd
  BY <1>1, <1>3, ResultSimulates
<1>4. CASE Release \/ Kill
  BY <1>1, <1>4, PrepareEnds
<1>5. CASE CommitStep /\ ~TailEnd
  <2>1. pc \in {"backup", "move", "chmod", "compare", "cleanup", "restore", "late"}
    BY <1>5 DEF CommitStep, Backup, Move, Chmod, Compare, Cleanup, Restore, Late
  <2> QED BY <1>1, <2>1 DEF PrepareLabel
<1>6. CASE Switching
  <2>1. pc \in {"mark", "match", "first", "second", "unfirst", "unsecond", "recheck"}
    BY <1>6 DEF Switching, Mark, Match, MarkTable, WriteFirst, WriteSecond, UnwriteFirst,
                UnwriteSecond, Recheck
  <2> QED BY <1>1, <2>1 DEF PrepareLabel
<1>7. CASE Begin \/ Signal \/ Edit \/ TailSignal
  BY <1>7 DEF Begin, Busy, Signal, Edit, TailSignal
<1>8. CASE UNCHANGED vars
  <2>1. UNCHANGED <<file, base, tmp, entry, req, rc, edited, pc, norm>>
    BY <1>8 DEF vars, disk, holder, history
  <2>2. CASE pc # "states"
    BY <1>1, <2>1, <2>2, QuietPrepare DEF Busy
  <2>3. CASE pc = "states"
    <3>1. View = [Means(file, base) EXCEPT !.pkgs = Runtime(norm.table.pkgs, norm.table.states)]
      BY <2>3 DEF View
    <3>2. View' = [Means(file', base') EXCEPT !.pkgs = Runtime(norm'.table.pkgs, norm'.table.states)]
      BY <2>1, <2>3 DEF View
    <3>3. View' = View
      BY <2>1, <3>1, <3>2
    <3> QED BY <1>1, <2>1, <3>3, KeepStep DEF Busy
  <2> QED BY <2>2, <2>3
<1> QED BY <1>2, <1>3, <1>4, <1>5, <1>6, <1>7, <1>8 DEF Next, CommitStep

-----------------------------------------------------------------------------
(* The refinement.                                                         *)

\* The initial states.
LEMMA SessionInit ==
    ASSUME Types, EntryInv, Init
    PROVE  Session!Init
<1>1. Seeming
  BY ViewTypes
<1>2. ~Busy /\ Owner = Missing /\ Told = 1
  BY DEF Init, Busy, Owner, Told
<1>3. tmp \in Pkgs \cup {Missing, Broken} /\ edited = FALSE
  BY DEF Init
<1> QED BY <1>1, <1>2, <1>3 DEF Session!Init, Seeming

\* Only a last look settles an edit.
LEMMA OnlyALook ==
    ASSUME [Next]_vars, ~Begin
    PROVE  edited' = TRUE \/ UNCHANGED edited \/ FastConfirm \/ Confirm
<1>1. CASE TailSignal \/ Edit
  BY <1>1 DEF TailSignal, Edit
<1>2. CASE Release \/ Fingerprint \/ Signal \/ Kill \/ UNCHANGED vars
  BY <1>2 DEF Release, Fingerprint, Stat, Certify, Uncertify, Signal, Kill, vars, history,
              Kept, KeptBut
<1>3. CASE CommitStep
  BY <1>3 DEF CommitStep, Backup, Move, Chmod, Compare, Cleanup, Restore, Late, TailEnd,
              history, Kept, KeptBut
<1>4. CASE Switching
  BY <1>4 DEF Switching, Mark, Match, MarkTable, WriteFirst, WriteSecond, UnwriteFirst,
              UnwriteSecond, Recheck, Kept, KeptBut
<1>5. CASE Prepare
  BY <1>5
     DEF Prepare, Fast, FastGenerate, Input, NormaliseMode, NormalisePolicy, ReadTable,
         WritePkgs, WriteStates, WriteBase, Output, Generate, Normalise, GenerateTo, history,
         Kept, KeptBut
<1> QED BY <1>1, <1>2, <1>3, <1>4, <1>5 DEF Next

\* While nobody holds the lock only the editor writes.
LEMMA IdleKeeps ==
    ASSUME [Next]_vars, ~Begin, pc = "idle", edited' # TRUE
    PROVE  UNCHANGED <<file, base, tmp, entry, edited>>
<1>1. CASE Release \/ Fingerprint \/ Signal \/ Kill
  BY <1>1 DEF Release, Fingerprint, Stat, Certify, Uncertify, Signal, Kill
<1>2. CASE CommitStep
  BY <1>2 DEF CommitStep, Backup, Move, Chmod, Compare, Cleanup, Restore, Late, TailEnd, disk,
              history
<1>3. CASE Switching
  BY <1>3 DEF Switching, Mark, Match, MarkTable, WriteFirst, WriteSecond, UnwriteFirst,
              UnwriteSecond, Recheck
<1>4. CASE Prepare
  BY <1>4 DEF Prepare, Fast, FastGenerate, FastConfirm, Input, NormaliseMode, NormalisePolicy,
              ReadTable, WritePkgs, WriteStates, WriteBase, Output, Generate, Confirm, Normalise
<1>5. CASE TailSignal \/ Edit
  BY <1>5 DEF TailSignal, Edit
<1>6. CASE UNCHANGED vars
  BY <1>6 DEF vars, disk, history
<1> QED BY <1>1, <1>2, <1>3, <1>4, <1>5, <1>6 DEF Next

\* Every step is one of ConfigSession or changes nothing that is seen.
LEMMA SessionStep ==
    ASSUME Types, Types', Inductive, GenInv, CertInv, AgreeInv, PrepInv, PrepInv', TableInv, TableInv',
           MixInv, SwitchInv, EntryInv, EntryInv', Seeming', [Next]_vars
    PROVE  Simulated
<1>1. CASE Begin
  BY <1>1, BeginStep
<1>2. CASE ~Begin /\ edited'
  BY <1>2, DisturbStep
<1>3. CASE ~Begin /\ ~edited' /\ edited
  <2>1. edited' = FALSE
    BY <1>3 DEF EntryInv
  <2>2. FastConfirm \/ Confirm
    BY <1>3, <2>1, OnlyALook
  <2>3. UNCHANGED req
    BY <1>3, SameCommand
  <2>4. pc \in {"fastconfirm", "confirm"}
    BY <2>2 DEF FastConfirm, Confirm
  <2>5. req.kind = "prepare"
    <3>1. req.kind \in Switcher \cup {"commit", "prepare"}
      BY CommandFacts DEF Types, Place, Switcher
    <3>2. req.kind # "commit"
      BY <2>4 DEF Inductive, Shape, CommitLabel
    <3>3. req.kind \notin Switcher
      BY <2>4 DEF SwitchInv, SwitchLabel, Busy
    <3> QED BY <3>1, <3>2, <3>3
  <2> QED BY <1>3, <2>1, <2>2, <2>3, <2>5, LookSimulates
<1>4. CASE ~Begin /\ ~edited' /\ ~edited /\ Busy
  <2>1. req.kind \in Switcher \cup {"commit", "prepare"}
    BY CommandFacts DEF Types, Place, Switcher
  <2> QED BY <1>4, <2>1, CommitSimulates, SwitchSimulates, PrepareSimulates
<1>5. CASE ~Begin /\ ~edited' /\ ~edited /\ ~Busy
  <2>1. UNCHANGED <<file, base, tmp, entry, edited>>
    <3>1. edited' # TRUE
      BY <1>5
    <3>2. pc = "idle"
      BY <1>5 DEF Busy
    <3> QED BY <1>5, <3>1, <3>2, IdleKeeps
  <2>2. UNCHANGED <<pc, rc, req>>
    BY <1>5, SameCommand DEF Busy
  <2>3. UNCHANGED Visible
    BY <1>5, <2>1, <2>2 DEF Visible, View, Owner, Told, Busy
  <2> QED BY <2>3 DEF Simulated
<1> QED BY <1>1, <1>2, <1>3, <1>4, <1>5

\* A commit, a switch or a prepare, seen from outside, happens in one step or
\* fails as its exit status says, whatever call fails, whichever signal arrives
\* and wherever it is killed; and however often a file manager writes, the
\* promise is kept again for all that prepare did after its last look.
THEOREM ImplementsSession ==
    ASSUME ~Repeat, EditAt \cap {"stat", "mark"} = {}, Passes > 1
    PROVE  Spec => ImplementsConfigSession
<1>1. Types /\ EntryInv /\ Init => Session!Init
  BY SessionInit
<1>2. Types /\ EntryInv => Seeming
  BY ViewTypes
<1>3. /\ Types /\ Types' /\ Inductive /\ Both /\ CertInv /\ AgreeInv /\ PrepInv /\ PrepInv'
      /\ TableInv /\ TableInv' /\ MixInv /\ SwitchInv /\ EntryInv /\ EntryInv' /\ Seeming'
      /\ [Next]_vars
      => [Session!Next]_<<View, tmp, Owner, Told, edited>>
  BY SessionStep DEF Both, Simulated, Visible
<1> QED
  BY <1>1, <1>2, <1>3, TypesHold, CommitHolds, BothHolds, CertHolds, AgreeHolds, PrepHolds,
     TableHolds, MixHolds, SwitchHolds, EntryHolds, PTL
     DEF Spec, ImplementsConfigSession, Session!Spec
=============================================================================
