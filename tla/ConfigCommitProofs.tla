------------------------- MODULE ConfigCommitProofs -------------------------
(***************************************************************************)
(* Proofs about ConfigCommit, for every table size, every set of commands  *)
(* and edits, any moment of an edit, and any number of faults and kills.   *)
(***************************************************************************)
EXTENDS ConfigCommit, FiniteSetTheorems, TLAPS

-----------------------------------------------------------------------------
(* The five files in their order.                                          *)

\* The order lists every file once.
LEMMA OrderFacts ==
    /\ \A i \in 1 .. 5 : Order[i] \in File
    /\ \A i, j \in 1 .. 5 : Order[i] = Order[j] => i = j
    /\ \A f \in File : \E i \in 1 .. 5 : f = Order[i]
<1>1. /\ Order[1] = "state" /\ Order[2] = "policy" /\ Order[3] = "pkgs"
      /\ Order[4] = "states" /\ Order[5] = "generation"
  BY DEF Order
<1>2. \A i \in 1 .. 5 : i = 1 \/ i = 2 \/ i = 3 \/ i = 4 \/ i = 5
  OBVIOUS
<1> QED BY <1>1, <1>2 DEF File

\* Contents for the five files.
IsFiles(contents) == contents = [f \in File |-> contents[f]]

\* Two that agree along the order are the same.
LEMMA SameFiles ==
    ASSUME NEW c, NEW d, IsFiles(c), IsFiles(d),
           \A i \in 1 .. 5 : c[Order[i]] = d[Order[i]]
    PROVE  c = d
<1>1. \A f \in File : c[f] = d[f]
  BY OrderFacts
<1> QED BY <1>1 DEF IsFiles

\* A replacement keeps the files and changes the one.
LEMMA Replaced ==
    ASSUME NEW f \in File, NEW c, IsFiles(file), Replace(f, c)
    PROVE  IsFiles(file') /\ file'[f] = c /\ \A g \in File \ {f} : file'[g] = file[g]
BY DEF Replace, IsFiles

-----------------------------------------------------------------------------
(* Where a commit is, and that files are files.                            *)

CommitLabel == {"idle", "backup", "move", "chmod", "compare", "stat", "certify", "uncertify",
                "cleanup", "release", "restore", "late"}

Shape ==
    /\ IsFiles(file) /\ IsFiles(entry) /\ IsFiles(old) /\ IsFiles(new)
    /\ at \in 1 .. 5
    /\ req.kind = "commit" => pc \in CommitLabel

\* A commit that nobody interferes with and whose faults, if any, came after
\* the backups.
Sound == req.kind = "commit" /\ ~edited /\ broke \subseteq BackedUp

\* How far it is.
Progress ==
    /\ pc = "backup" =>
          /\ rc = 0 /\ file = entry
          /\ \A i \in 1 .. 5 : i < at => old[Order[i]] = entry[Order[i]]
    /\ pc = "move" =>
          /\ rc = 0 /\ old = entry
          /\ \A i \in 1 .. 5 : i < at => file[Order[i]] = new[Order[i]]
    /\ pc \in {"chmod", "compare", "stat", "certify", "uncertify", "cleanup"} =>
          rc = 0 /\ old = entry /\ file = new
    /\ pc = "release" => rc = 0 /\ file = new
    /\ pc = "restore" =>
          /\ rc \in {74, 130} /\ old = entry
          /\ \A i \in 1 .. 5 : i < at => file[Order[i]] = entry[Order[i]]
    /\ pc # "late"
    /\ pc = "idle" /\ sessions > 0 =>
          /\ rc = 0 => file = new
          /\ rc \in {74, 130} => file = entry

CommitInv == Sound => Progress
Inductive == Shape /\ CommitInv

-----------------------------------------------------------------------------
(* Steps that are not a commit's.                                          *)

\* A write by whichever command keeps the files.
LEMMA Written ==
    ASSUME NEW f, NEW c, IsFiles(file), Put(f, c)
    PROVE  IsFiles(file')
BY DEF Put, Replace, IsFiles

\* Other commands may do what they like as long as the files are files.
LEMMA OtherCommands ==
    ASSUME Inductive, req.kind # "commit", UNCHANGED <<req, new, entry>>,
           IsFiles(file'), IsFiles(old'), at' \in 1 .. 5
    PROVE  Inductive'
BY DEF Inductive, Shape, CommitInv, Sound, IsFiles

\* At a label that no commit knows another command runs.
LEMMA Elsewhere ==
    ASSUME Inductive, pc \notin CommitLabel
    PROVE  req.kind # "commit"
BY DEF Inductive, Shape

LEMMA FileNames == /\ "state" \in File /\ "policy" \in File /\ "pkgs" \in File
                   /\ "states" \in File /\ "generation" \in File
BY DEF File

\* The fast switches.
LEMMA SwitchingKeeps ==
    ASSUME Inductive, Switching
    PROVE  Inductive'
<1>1. IsFiles(file) /\ IsFiles(old) /\ at \in 1 .. 5
  BY DEF Inductive, Shape
<1>2. CASE Mark
  <2>1. req.kind # "commit" /\ UNCHANGED <<req, new, entry, file, at>>
    BY <1>2 DEF Mark, Kept, KeptBut
  <2>2. IsFiles(old')
    BY <1>1, <1>2 DEF Mark, IsFiles
  <2> QED BY <1>1, <2>1, <2>2, OtherCommands DEF IsFiles
<1>3. CASE Match \/ MarkTable \/ Recheck
  <2>1. pc \notin CommitLabel \/ req.kind # "commit"
    BY <1>3 DEF Match, MarkTable, Recheck, CommitLabel
  <2>2. UNCHANGED <<req, new, entry, file, at, old>>
    BY <1>3 DEF Match, MarkTable, Recheck, Kept, KeptBut, holder
  <2> QED BY <1>1, <2>1, <2>2, OtherCommands, Elsewhere DEF IsFiles
<1>4. CASE WriteFirst \/ WriteSecond \/ UnwriteFirst \/ UnwriteSecond
  <2>1. pc \notin CommitLabel
    BY <1>4 DEF WriteFirst, WriteSecond, UnwriteFirst, UnwriteSecond, CommitLabel
  <2>2. UNCHANGED <<req, new, entry, at, old>>
    BY <1>4 DEF WriteFirst, WriteSecond, UnwriteFirst, UnwriteSecond, Kept, KeptBut, holder
  <2>3. UNCHANGED file \/ \E f, c : Put(f, c)
    BY <1>4 DEF WriteFirst, WriteSecond, UnwriteFirst, UnwriteSecond
  <2>4. IsFiles(file')
    BY <1>1, <2>3, Written DEF IsFiles
  <2> QED BY <1>1, <2>1, <2>2, <2>4, OtherCommands, Elsewhere DEF IsFiles
<1> QED BY <1>2, <1>3, <1>4 DEF Switching

\* prepare_config_unlocked.
LEMMA PrepareKeeps ==
    ASSUME Inductive, Prepare
    PROVE  Inductive'
<1>1. IsFiles(file) /\ IsFiles(old) /\ at \in 1 .. 5
  BY DEF Inductive, Shape
<1>2. CASE NormaliseMode \/ NormalisePolicy \/ WritePkgs \/ WriteStates
  <2>1. PICK label, f, c, next : /\ label \in {"mode", "policy", "pkgs", "states"}
                                 /\ Normalise(label, f, c, next)
    BY <1>2 DEF NormaliseMode, NormalisePolicy, WritePkgs, WriteStates
  <2>2. pc \notin CommitLabel /\ UNCHANGED <<req, new, entry, at, old>>
    BY <2>1 DEF Normalise, Kept, KeptBut, holder, CommitLabel
  <2>3. UNCHANGED file \/ Put(f, c)
    BY <2>1 DEF Normalise
  <2>4. IsFiles(file')
    BY <1>1, <2>3, Written DEF IsFiles
  <2> QED BY <1>1, <2>2, <2>4, OtherCommands, Elsewhere DEF IsFiles
<1>3. CASE Fast \/ FastConfirm \/ Input \/ ReadTable \/ WriteBase \/ Output \/ Confirm
  <2>1. pc \notin CommitLabel
    BY <1>3 DEF Fast, FastConfirm, Input, ReadTable, WriteBase, Output, Confirm, CommitLabel
  <2>2. UNCHANGED <<req, new, entry, file, at, old>>
    BY <1>3 DEF Fast, FastConfirm, Input, ReadTable, WriteBase, Output, Confirm,
                Kept, KeptBut, Seen, holder, history
  <2> QED BY <1>1, <2>1, <2>2, OtherCommands, Elsewhere DEF IsFiles
<1>4. CASE FastGenerate \/ Generate
  <2>1. pc \notin CommitLabel
    BY <1>4 DEF FastGenerate, Generate, CommitLabel
  <2>2. UNCHANGED <<req, new, entry, file, at, old>>
    BY <1>4 DEF FastGenerate, Generate, GenerateTo, holder, history
  <2> QED BY <1>1, <2>1, <2>2, OtherCommands, Elsewhere DEF IsFiles
<1> QED BY <1>2, <1>3, <1>4 DEF Prepare

-----------------------------------------------------------------------------
(* The steps of a commit.                                                  *)

\* Once a commit is not sound any more, only the shape is left to show.
LEMMA Unsound ==
    ASSUME Shape', ~Sound'
    PROVE  Inductive'
BY DEF Inductive, CommitInv

\* The step to the next file, or to the next label.
LEMMA NextFileFacts ==
    ASSUME NEW label \in CommitLabel, pc \in CommitLabel, at \in 1 .. 5, NextFile(label)
    PROVE  /\ at' \in 1 .. 5 /\ pc' \in CommitLabel
           /\ at < 5 => at' = at + 1 /\ pc' = pc
           /\ at = 5 => at' = 1 /\ pc' = label
BY DEF NextFile, Goto

LEMMA BackupKeeps ==
    ASSUME Inductive, Backup
    PROVE  Inductive'
<1>1. Shape /\ pc = "backup" /\ UNCHANGED <<req, new, entry, edited, file, sessions>>
  BY DEF Inductive, Backup, KeptBut
<1>2. CASE /\ old' = [old EXCEPT ![Order[at]] = file[Order[at]]]
           /\ NextFile("move") /\ NoFault /\ UNCHANGED <<rc, asked>>
  <2>1. /\ at' \in 1 .. 5 /\ pc' \in CommitLabel
        /\ at < 5 => at' = at + 1 /\ pc' = pc
        /\ at = 5 => at' = 1 /\ pc' = "move"
    BY <1>1, <1>2, NextFileFacts DEF Shape, CommitLabel
  <2>2. /\ IsFiles(old') /\ old'[Order[at]] = file[Order[at]]
        /\ \A f \in File \ {Order[at]} : old'[f] = old[f]
    BY <1>1, <1>2, OrderFacts DEF Shape, IsFiles
  <2>3. Shape'
    BY <1>1, <2>1, <2>2 DEF Shape, IsFiles
  <2>4. ASSUME Sound'
        PROVE  Progress'
    <3>1. Sound
      BY <1>1, <1>2, <2>4 DEF Sound, NoFault
    <3>2. /\ rc = 0 /\ file = entry
          /\ \A i \in 1 .. 5 : i < at => old[Order[i]] = entry[Order[i]]
      BY <1>1, <3>1 DEF Inductive, CommitInv, Progress
    <3>3. \A i \in 1 .. 5 : i <= at => old'[Order[i]] = entry[Order[i]]
      BY <1>1, <2>2, <3>2, OrderFacts DEF Shape
    <3>4. CASE at < 5
      BY <1>1, <1>2, <2>1, <3>2, <3>3, <3>4 DEF Progress, Shape
    <3>5. CASE at = 5
      <4>1. old' = entry
        BY <1>1, <2>2, <3>3, <3>5, SameFiles DEF Shape
      <4> QED BY <1>1, <1>2, <2>1, <3>2, <3>5, <4>1 DEF Progress
    <3> QED BY <1>1, <3>4, <3>5 DEF Shape
  <2> QED BY <2>3, <2>4 DEF Inductive, CommitInv
<1>3. CASE /\ file[Order[at]] # Missing /\ Fault /\ Fails(74) /\ asked' = Missing
           /\ UNCHANGED old
  <2>1. Shape'
    BY <1>1, <1>3 DEF Shape, Fails, Goto, CommitLabel, IsFiles
  <2>2. ~Sound'
    BY <1>1, <1>3 DEF Sound, Fault, FaultAt, BackedUp
  <2> QED BY <2>1, <2>2, Unsound
<1> QED BY <1>2, <1>3 DEF Backup

\* A failing step after the backups leads to the restoration.
LEMMA Turning ==
    ASSUME Inductive, Sound, pc \in {"move", "chmod", "compare", "stat", "certify", "uncertify",
                                     "cleanup"},
           UNCHANGED <<old, entry>>, at' = 1, pc' = "restore", rc' \in {74, 130}
    PROVE  Progress'
BY DEF Inductive, CommitInv, Progress

LEMMA MoveKeeps ==
    ASSUME Inductive, Move
    PROVE  Inductive'
<1>1. /\ Shape /\ pc = "move"
      /\ UNCHANGED <<req, new, entry, edited, old, sessions>>
  BY DEF Inductive, Move, Kept, KeptBut
<1>2. CASE /\ Replace(Order[at], new[Order[at]])
           /\ NextFile("chmod") /\ NoFault /\ UNCHANGED rc
  <2>1. /\ at' \in 1 .. 5 /\ pc' \in CommitLabel
        /\ at < 5 => at' = at + 1 /\ pc' = pc
        /\ at = 5 => at' = 1 /\ pc' = "chmod"
    BY <1>1, <1>2, NextFileFacts DEF Shape, CommitLabel
  <2>2. /\ IsFiles(file') /\ file'[Order[at]] = new[Order[at]]
        /\ \A f \in File \ {Order[at]} : file'[f] = file[f]
    BY <1>1, <1>2, OrderFacts, Replaced DEF Shape
  <2>3. Shape'
    BY <1>1, <2>1, <2>2 DEF Shape, IsFiles
  <2>4. ASSUME Sound'
        PROVE  Progress'
    <3>1. Sound
      BY <1>1, <1>2, <2>4 DEF Sound, NoFault
    <3>2. /\ rc = 0 /\ old = entry
          /\ \A i \in 1 .. 5 : i < at => file[Order[i]] = new[Order[i]]
      BY <1>1, <3>1 DEF Inductive, CommitInv, Progress
    <3>3. \A i \in 1 .. 5 : i <= at => file'[Order[i]] = new[Order[i]]
      BY <1>1, <2>2, <3>2, OrderFacts DEF Shape
    <3>4. CASE at < 5
      BY <1>1, <1>2, <2>1, <3>2, <3>3, <3>4 DEF Progress, Shape
    <3>5. CASE at = 5
      <4>1. file' = new
        BY <1>1, <2>2, <3>3, <3>5, SameFiles DEF Shape
      <4> QED BY <1>1, <1>2, <2>1, <3>2, <3>5, <4>1 DEF Progress
    <3> QED BY <1>1, <3>4, <3>5 DEF Shape
  <2> QED BY <2>3, <2>4 DEF Inductive, CommitInv
<1>3. CASE Fault /\ Fails(74) /\ UNCHANGED <<file, cert, moved>>
  <2>1. Shape'
    BY <1>1, <1>3 DEF Shape, Fails, Goto, CommitLabel, IsFiles
  <2>2. Sound' => Sound
    BY <1>1, <1>3 DEF Sound, Fault, FaultAt
  <2>3. Sound' => Progress'
    BY <1>1, <1>3, <2>2, Turning DEF Fails, Goto
  <2> QED BY <2>1, <2>3 DEF Inductive, CommitInv
<1> QED BY <1>2, <1>3 DEF Move

\* The steps between the last rename and the release.
LEMMA FinishingKeeps ==
    ASSUME Inductive, Chmod \/ Compare \/ Stat \/ Certify \/ Uncertify \/ Cleanup
    PROVE  Inductive'
<1>1. /\ Shape /\ UNCHANGED <<req, new, entry, edited, old, sessions, file>>
      /\ pc \in {"chmod", "compare", "stat", "certify", "uncertify", "cleanup"}
  BY DEF Inductive, Chmod, Compare, Stat, Certify, Uncertify, Cleanup, Kept, KeptBut, holder
<1>2. at' \in 1 .. 5
  BY <1>1 DEF Chmod, Compare, Stat, Certify, Uncertify, Cleanup, Fails, holder, Shape
<1>3. CASE req.kind # "commit"
  BY <1>1, <1>2, <1>3, OtherCommands DEF Shape, IsFiles
<1>4. CASE req.kind = "commit"
  <2>1. \/ /\ pc' \in {"compare", "stat", "certify", "uncertify", "cleanup", "release"}
           /\ UNCHANGED rc
        \/ pc' = "restore" /\ rc' = 74 /\ at' = 1
    BY <1>4 DEF Chmod, Compare, Stat, Certify, Uncertify, Cleanup, Finish, Goto, Fails, holder
  <2>2. Shape'
    BY <1>1, <1>2, <2>1 DEF Shape, CommitLabel, IsFiles
  <2>3. ASSUME Sound'
        PROVE  Progress'
    <3>1. Sound
      BY <1>1, <2>3 DEF Sound, Chmod, Compare, Stat, Certify, Uncertify, Cleanup, NoFault,
                        Fault, FaultAt
    <3>2. rc = 0 /\ old = entry /\ file = new
      BY <1>1, <3>1 DEF Inductive, CommitInv, Progress
    <3>3. CASE pc' = "restore" /\ rc' = 74 /\ at' = 1
      BY <1>1, <3>1, <3>3, Turning
    <3>4. CASE /\ pc' \in {"compare", "stat", "certify", "uncertify", "cleanup", "release"}
               /\ UNCHANGED rc
      BY <1>1, <3>2, <3>4 DEF Progress
    <3> QED BY <2>1, <3>3, <3>4
  <2> QED BY <2>2, <2>3 DEF Inductive, CommitInv
<1> QED BY <1>3, <1>4

\* What the end of a command leaves of it.
LEMMA EndFacts ==
    ASSUME NEW status, End(status)
    PROVE  /\ pc' = "idle" /\ rc' = status /\ at' = 1 /\ IsFiles(old')
           /\ UNCHANGED <<req, new>>
BY DEF End, Goto, Nowhere, IsFiles

LEMMA ReleaseKeeps ==
    ASSUME Inductive, Release
    PROVE  Inductive'
<1>1. /\ Shape /\ pc = "release" /\ UNCHANGED <<file, entry, edited, sessions>>
  BY DEF Inductive, Release, disk
<1>2. CASE NoFault /\ End(rc)
  <2>1. /\ pc' = "idle" /\ rc' = rc /\ at' = 1 /\ IsFiles(old')
        /\ UNCHANGED <<req, new>>
    BY <1>2, EndFacts
  <2>2. Shape'
    BY <1>1, <2>1 DEF Shape, CommitLabel, IsFiles
  <2>3. Sound' => Sound
    BY <1>1, <1>2, <2>1 DEF Sound, NoFault
  <2>4. Sound => rc = 0 /\ file = new
    BY <1>1 DEF Inductive, CommitInv, Progress
  <2>5. Sound => Progress'
    BY <1>1, <2>1, <2>4 DEF Progress
  <2> QED BY <2>2, <2>3, <2>5 DEF Inductive, CommitInv
<1>3. CASE Fault /\ ((UNCHANGED holder /\ Goto("late")) \/ End(IF rc = 0 THEN 1 ELSE rc))
  <2>1. ~Sound'
    BY <1>1, <1>3 DEF Sound, Fault, FaultAt, BackedUp
  <2>2. CASE UNCHANGED holder /\ Goto("late")
    <3>1. Shape'
      BY <1>1, <2>2 DEF Shape, holder, Goto, CommitLabel, IsFiles, Release
    <3> QED BY <2>1, <3>1, Unsound
  <2>3. CASE End(IF rc = 0 THEN 1 ELSE rc)
    <3>1. pc' = "idle" /\ at' = 1 /\ IsFiles(old') /\ UNCHANGED <<req, new>>
      BY <2>3, EndFacts
    <3>2. Shape'
      BY <1>1, <3>1 DEF Shape, CommitLabel, IsFiles
    <3> QED BY <2>1, <3>2, Unsound
  <2> QED BY <1>3, <2>2, <2>3
<1> QED BY <1>2, <1>3 DEF Release

LEMMA RestoreKeeps ==
    ASSUME Inductive, Restore
    PROVE  Inductive'
<1>1. Shape /\ pc = "restore" /\ UNCHANGED <<entry, edited, sessions>>
  BY DEF Inductive, Restore, KeptBut
<1>2. PICK c : Replace(Order[at], c) /\ (c = old[Order[at]] \/ Fault)
  BY DEF Restore
<1>3. /\ IsFiles(file') /\ file'[Order[at]] = c
      /\ \A f \in File \ {Order[at]} : file'[f] = file[f]
  BY <1>1, <1>2, OrderFacts, Replaced DEF Shape
<1>4. \/ at < 5 /\ at' = at + 1 /\ UNCHANGED <<pc, rc, req, new, old>>
      \/ at = 5 /\ End(rc)
  BY <1>1 DEF Restore, Shape
<1>5. Shape'
  <2>1. CASE at < 5 /\ at' = at + 1 /\ UNCHANGED <<pc, rc, req, new, old>>
    BY <1>1, <1>3, <2>1 DEF Shape, IsFiles
  <2>2. CASE at = 5 /\ End(rc)
    BY <1>1, <1>3, <2>2, EndFacts DEF Shape, CommitLabel, IsFiles
  <2> QED BY <1>4, <2>1, <2>2
<1>6. ASSUME Sound'
      PROVE  Progress'
  <2>1. NoFault /\ Sound /\ c = old[Order[at]]
    <3>1. ~Fault
      BY <1>1, <1>6 DEF Sound, Fault, FaultAt, BackedUp
    <3>2. NoFault
      BY <3>1 DEF Restore
    <3>3. UNCHANGED req
      BY <1>4, EndFacts
    <3> QED BY <1>1, <1>2, <1>6, <3>1, <3>2, <3>3 DEF Sound, NoFault
  <2>2. /\ rc \in {74, 130} /\ old = entry
        /\ \A i \in 1 .. 5 : i < at => file[Order[i]] = entry[Order[i]]
    BY <1>1, <2>1 DEF Inductive, CommitInv, Progress
  <2>3. \A i \in 1 .. 5 : i <= at => file'[Order[i]] = entry[Order[i]]
    BY <1>1, <1>3, <2>1, <2>2, OrderFacts DEF Shape
  <2>4. CASE at < 5 /\ at' = at + 1 /\ UNCHANGED <<pc, rc, req, new, old>>
    BY <1>1, <2>2, <2>3, <2>4 DEF Progress, Shape
  <2>5. CASE at = 5 /\ End(rc)
    <3>1. file' = entry
      BY <1>1, <1>3, <2>3, <2>5, SameFiles DEF Shape
    <3> QED BY <1>1, <2>2, <2>5, <3>1, EndFacts DEF Progress
  <2> QED BY <1>4, <2>4, <2>5
<1> QED BY <1>5, <1>6 DEF Inductive, CommitInv

LEMMA LateKeeps ==
    ASSUME Inductive, Late
    PROVE  Inductive'
<1>1. Shape /\ pc = "late" /\ UNCHANGED <<entry, edited, broke>>
  BY DEF Inductive, Late, Kept, KeptBut, NoFault
<1>2. IsFiles(file')
  BY DEF Late, Remove, IsFiles
<1>3. pc' = "idle" /\ at' = 1 /\ IsFiles(old') /\ UNCHANGED <<req, new>>
  BY EndFacts DEF Late
<1>4. Shape'
  BY <1>1, <1>2, <1>3 DEF Shape, CommitLabel, IsFiles
<1>5. ~Sound
  BY <1>1 DEF Inductive, CommitInv, Progress
<1>6. ~Sound'
  BY <1>1, <1>3, <1>5 DEF Sound
<1> QED BY <1>4, <1>6, Unsound

LEMMA TailEndKeeps ==
    ASSUME Inductive, TailEnd
    PROVE  Inductive'
BY DEF Inductive, Shape, CommitInv, Sound, Progress, TailEnd, disk, holder, spent, history, IsFiles

-----------------------------------------------------------------------------
(* Signals, kills, editors and the next command.                           *)

LEMMA SignalKeeps ==
    ASSUME Inductive, Signal
    PROVE  Inductive'
<1>1. /\ Shape /\ pc # "idle" /\ req.kind = "commit" /\ Fault
      /\ UNCHANGED <<req, new, entry, edited, old, sessions, file>>
      /\ at' = 1 /\ rc' = 130
      /\ pc' = IF pc \in {"release", "late"} THEN "late" ELSE "restore"
  BY DEF Inductive, Signal, disk, Goto
<1>2. Shape'
  BY <1>1 DEF Shape, CommitLabel, IsFiles
<1>3. CASE pc \in BackedUp
  <2>1. Sound' => Sound
    BY <1>1 DEF Sound, Fault, FaultAt
  <2>2. Sound => Progress'
    BY <1>1, <1>3, Turning DEF BackedUp
  <2> QED BY <1>2, <2>1, <2>2 DEF Inductive, CommitInv
<1>4. CASE pc \notin BackedUp
  <2>1. ~Sound'
    BY <1>1, <1>4 DEF Sound, Fault, FaultAt
  <2> QED BY <1>2, <2>1, Unsound
<1> QED BY <1>3, <1>4

LEMMA TailSignalKeeps ==
    ASSUME Inductive, TailSignal
    PROVE  Inductive'
<1>1. Shape'
  BY DEF Inductive, TailSignal, Shape, Remove, holder, IsFiles
<1>2. ~Sound'
  BY DEF TailSignal, Sound
<1> QED BY <1>1, <1>2, Unsound

LEMMA EditKeeps ==
    ASSUME Inductive, Edit
    PROVE  Inductive'
<1>1. PICK f, c : Replace(f, c)
  BY DEF Edit
<1>2. Shape'
  BY <1>1 DEF Inductive, Edit, Shape, Replace, holder, IsFiles
<1>3. ~Sound'
  BY DEF Edit, Sound
<1> QED BY <1>2, <1>3, Unsound

LEMMA KillKeeps ==
    ASSUME Inductive, Kill
    PROVE  Inductive'
<1>1. Shape /\ UNCHANGED <<entry, edited, broke, sessions>> /\ End(137)
  BY DEF Inductive, Kill
<1>2. UNCHANGED file \/ \E f, c : Replace(f, c)
  BY DEF Kill
<1>3. IsFiles(file')
  BY <1>1, <1>2 DEF Shape, Replace, IsFiles
<1>4. pc' = "idle" /\ rc' = 137 /\ at' = 1 /\ IsFiles(old') /\ UNCHANGED <<req, new>>
  BY <1>1, EndFacts
<1>5. Shape'
  BY <1>1, <1>3, <1>4 DEF Shape, CommitLabel, IsFiles
<1>6. Progress'
  BY <1>4 DEF Progress
<1> QED BY <1>5, <1>6 DEF Inductive, CommitInv

LEMMA BeginKeeps ==
    ASSUME Inductive, Begin
    PROVE  Inductive'
<1>1. /\ Shape /\ UNCHANGED file /\ entry' = file /\ at' = 1 /\ rc' = 0
      /\ old' = Nowhere /\ pc' = First(req'.kind)
  BY DEF Inductive, Begin, disk, Goto
<1>2. IsFiles(new')
  BY DEF Begin, NewFiles, Nowhere, IsFiles
<1>3. req'.kind = "commit" => pc' = "backup"
  BY <1>1 DEF First
<1>4. Shape'
  BY <1>1, <1>2, <1>3 DEF Shape, CommitLabel, Nowhere, IsFiles
<1>5. Sound' => Progress'
  BY <1>1, <1>3 DEF Sound, Progress
<1> QED BY <1>4, <1>5 DEF Inductive, CommitInv

-----------------------------------------------------------------------------
\* The invariant behind CommitIsWhole.
LEMMA CommitHolds == Spec => []Inductive
<1>1. Init => Inductive
  BY DEF Init, Inductive, Shape, CommitInv, Sound, NewFiles, Nowhere, IsFiles
<1>2. Inductive /\ [Next]_vars => Inductive'
  <2>1. SUFFICES ASSUME Inductive, [Next]_vars
                 PROVE  Inductive'
    OBVIOUS
  <2>2. CASE UNCHANGED vars
    BY <2>1, <2>2 DEF Inductive, Shape, CommitInv, Sound, Progress, IsFiles, vars, disk,
                      holder, spent, history
  <2>3. CASE Begin
    BY <2>1, <2>3, BeginKeeps
  <2>4. CASE Release
    BY <2>1, <2>4, ReleaseKeeps
  <2>5. CASE CommitStep
    BY <2>1, <2>5, BackupKeeps, MoveKeeps, FinishingKeeps, RestoreKeeps, LateKeeps,
       TailEndKeeps DEF CommitStep
  <2>6. CASE Fingerprint
    BY <2>1, <2>6, FinishingKeeps DEF Fingerprint
  <2>7. CASE Switching \/ Prepare
    BY <2>1, <2>7, SwitchingKeeps, PrepareKeeps
  <2>8. CASE Signal \/ TailSignal \/ Edit \/ Kill
    BY <2>1, <2>8, SignalKeeps, TailSignalKeeps, EditKeeps, KillKeeps
  <2> QED BY <2>1, <2>2, <2>3, <2>4, <2>5, <2>6, <2>7, <2>8 DEF Next
<1> QED BY <1>1, <1>2, PTL DEF Spec

\* A commit that reports success has installed its five files, and one that
\* fails or is interrupted after its backups, while nobody edits, has brought
\* all five back.
THEOREM CommitIsWhole == Spec => []CommitAllOrNothing
<1>1. Inductive => CommitAllOrNothing
  BY DEF Inductive, CommitInv, Sound, Progress, CommitAllOrNothing, Done
<1> QED BY <1>1, CommitHolds, PTL

-----------------------------------------------------------------------------
(* Types.                                                                  *)

\* The contents of the five files, as a set.
Content == UNION {Contents(f) : f \in File}
Disk    == {c \in [File -> Content] : \A f \in File : c[f] \in Contents(f)}
Marks   == (SUBSET File) \cup {Missing}

\* What a file may hold.
LEMMA ContentsFacts ==
    /\ \A f \in File : Missing \in Contents(f) /\ Broken \in Contents(f)
    /\ Value \subseteq Contents("state") /\ Value \subseteq Contents("policy")
    /\ Contents("pkgs") = {Missing, Broken} \cup Pkgs
    /\ Contents("states") = {Missing, Broken} \cup States
    /\ Contents("generation") = {Missing, Broken} \cup Nat
BY DEF Contents

\* The five files, one by one.
LEMMA DiskFacts ==
    ASSUME NEW c \in Disk
    PROVE  /\ \A f \in File : c[f] \in Contents(f)
           /\ IsFiles(c)
           /\ c["pkgs"] \in {Missing, Broken} \cup Pkgs
           /\ c["states"] \in {Missing, Broken} \cup States
           /\ c["generation"] \in {Missing, Broken} \cup Nat
<1>1. c \in [File -> Content] /\ \A f \in File : c[f] \in Contents(f)
  BY DEF Disk
<1>2. IsFiles(c)
  BY <1>1 DEF IsFiles
<1> QED BY <1>1, <1>2, ContentsFacts, FileNames

\* Fitting contents of the five files.
LEMMA DiskOf ==
    ASSUME NEW c, IsFiles(c), \A f \in File : c[f] \in Contents(f)
    PROVE  c \in Disk
<1>1. \A f \in File : c[f] \in Content
  BY DEF Content
<1>2. c \in [File -> Content]
  BY <1>1 DEF IsFiles
<1> QED BY <1>2 DEF Disk

\* One of them is replaced.
LEMMA DiskButOne ==
    ASSUME NEW c \in Disk, NEW f \in File, NEW v \in Contents(f)
    PROVE  [c EXCEPT ![f] = v] \in Disk
<1> DEFINE d == [c EXCEPT ![f] = v]
<1>1. IsFiles(c) /\ \A g \in File : c[g] \in Contents(g)
  BY DiskFacts
<1>2. d = [g \in File |-> IF g = f THEN v ELSE c[g]]
  BY <1>1 DEF IsFiles
<1>3. IsFiles(d) /\ \A g \in File : d[g] \in Contents(g)
  BY <1>1, <1>2 DEF IsFiles
<1> HIDE DEF d
<1>4. d \in Disk
  BY <1>3, DiskOf
<1> QED BY <1>4 DEF d

LEMMA NowhereFits == Nowhere \in Disk
<1>1. IsFiles(Nowhere) /\ \A f \in File : Nowhere[f] = Missing
  BY DEF Nowhere, IsFiles
<1> QED BY <1>1, DiskOf, ContentsFacts

LEMMA NewFit ==
    ASSUME NEW m \in Value, NEW p \in Value, NEW t \in Table, NEW g \in Nat
    PROVE  NewFiles(m, p, t, g) \in Disk
<1> DEFINE d == NewFiles(m, p, t, g)
<1>1. /\ IsFiles(d) /\ d["state"] = m /\ d["policy"] = p /\ d["pkgs"] = t.pkgs
      /\ d["states"] = t.states /\ d["generation"] = g
  BY FileNames DEF NewFiles, IsFiles
<1>2. t.pkgs \in [Slot -> Name \cup {Empty}] /\ t.states \in [Slot -> {On, Off}]
  BY CommandAssumption
<1>3. t.pkgs \in Pkgs /\ t.states \in States
  BY <1>2 DEF Pkgs, States
<1> HIDE DEF d
<1>4. \A f \in File : d[f] \in Contents(f)
  BY <1>1, <1>3, ContentsFacts DEF File
<1>5. d \in Disk
  BY <1>1, <1>4, DiskOf
<1> QED BY <1>5 DEF d

\* The arguments of the commands.
LEMMA CommandFacts ==
    ASSUME NEW c \in Command
    PROVE  /\ c.kind \in {"commit", "controls", "toggle", "setmode", "prepare"}
           /\ c.kind = "commit" => c.mode \in Value /\ c.policy \in Value /\ c.table \in Table
           /\ c.kind = "controls" =>
                 c.state \in Value \cup {Empty} /\ c.policy \in Value \cup {Empty}
           /\ c.kind = "toggle" => c.target \in {"state", "policy"}
           /\ c.kind = "setmode" => c.state \in Value
<1>1. c \in Commands
  BY CommandAssumption
<1> QED BY <1>1 DEF Commands

-----------------------------------------------------------------------------
(* What the normalisation makes of a table.                                *)

Proper == {t \in Pkgs \X [Slot -> {On, Off}] : WellFormed(t[1], t[2])}

LEMMA ProperFacts ==
    ASSUME NEW pkgs, NEW states
    PROVE  <<pkgs, states>> \in Proper <=>
               pkgs \in Pkgs /\ states \in [Slot -> {On, Off}] /\ WellFormed(pkgs, states)
BY DEF Proper

\* The switches that it computes.
LEMMA SwitchTypes ==
    ASSUME NEW pkgs \in Pkgs, NEW states \in States \cup {Missing}, NEW generation, NEW b
    PROVE  Switches(pkgs, states, generation, b) \in [Slot -> {On, Off}]
<1>1. \A i \in Slot : states # Missing => states[i] \in {On, Off, Absent}
  BY DEF States
<1>2. \A i \in Slot : Switch(pkgs, states, generation, b, i) \in {On, Off}
  BY <1>1 DEF Switch
<1> QED BY <1>2 DEF Switches

\* It writes a table that the patcher can take, whatever it has read.
LEMMA NormalizedFacts ==
    ASSUME NEW pkgs \in Pkgs \cup {Missing, Broken},
           NEW states \in States \cup {Missing, Broken}, NEW generation, NEW b
    PROVE  LET n == Normalized(pkgs, states, generation, b)
           IN  /\ n.default \in BOOLEAN
               /\ <<n.pkgs, n.states>> \in Proper
<1> DEFINE defaults == [pkgs |-> DefaultPkgs, states |-> DefaultStates, default |-> TRUE]
           on == Switches(pkgs, states, generation, b)
           kept == [pkgs |-> pkgs, states |-> on, default |-> FALSE]
<1>1. defaults.default \in BOOLEAN /\ <<defaults.pkgs, defaults.states>> \in Proper
  BY TableAssumption, DefaultsAssumption, ProperFacts
<1>2. CASE /\ pkgs \in Pkgs /\ states \in States \cup {Missing} /\ WellFormed(pkgs, on)
           /\ Normalized(pkgs, states, generation, b) = kept
  BY <1>2, SwitchTypes, ProperFacts
<1>3. \/ Normalized(pkgs, states, generation, b) = defaults
      \/ /\ pkgs \notin {Missing, Broken} /\ states # Broken /\ WellFormed(pkgs, on)
         /\ Normalized(pkgs, states, generation, b) = kept
  BY DEF Normalized
<1> QED BY <1>1, <1>2, <1>3

LEMMA RuntimeTypes ==
    ASSUME NEW pkgs \in Pkgs \cup {Missing, Broken},
           NEW states \in States \cup {Missing, Broken}
    PROVE  Runtime(pkgs, states) \in Pkgs \cup {Broken}
<1>1. CASE pkgs \in {Missing, Broken} \/ states \in {Missing, Broken}
  BY <1>1 DEF Runtime
<1>2. CASE ~(pkgs \in {Missing, Broken} \/ states \in {Missing, Broken})
  <2>1. Runtime(pkgs, states) = [i \in Slot |-> IF states[i] = On THEN pkgs[i] ELSE Empty]
    BY <1>2 DEF Runtime
  <2>2. \A i \in Slot : pkgs[i] \in Name \cup {Empty, Junk}
    BY <1>2 DEF Pkgs
  <2> QED BY <2>1, <2>2 DEF Pkgs
<1> QED BY <1>1, <1>2

-----------------------------------------------------------------------------
(* The type invariant, with what the labels say about the command.         *)

DiskTypes ==
    /\ file \in Disk /\ base \in Baseline \cup {Missing} /\ cert \in Marks
    /\ tmp \in Pkgs \cup {Missing, Broken}
    /\ moved \subseteq File /\ tail \in Marks

HolderTypes ==
    /\ pc \in Label /\ at \in 1 .. 5 /\ pass \in 1 .. Passes
    /\ new \in Disk /\ old \in Disk /\ saw \in Disk /\ certified \in BOOLEAN
    /\ rc \in {0, 1, 74, 75, 130, 137}
    /\ sessions \in Nat

\* Where a switch is at work, and what is known of the table read.
Place ==
    /\ req \in Command \cup {[kind |-> "prepare"]}
    /\ pc \in {"match", "mark", "first", "unfirst", "unsecond"} =>
          req.kind \in {"controls", "toggle"}
    /\ pc = "second" => req.kind \in {"controls", "toggle", "setmode"}
    /\ pc \in {"pkgs", "states", "base", "output"} =>
          /\ norm.table.default \in BOOLEAN /\ <<norm.table.pkgs, norm.table.states>> \in Proper
          /\ norm.generation \in Nat

Types == DiskTypes /\ HolderTypes /\ Place

\* A file is replaced, or several are removed.
LEMMA ReplaceTypes ==
    ASSUME NEW f \in File, NEW c \in Contents(f), file \in Disk, cert \in Marks,
           moved \subseteq File, Replace(f, c) \/ Put(f, c)
    PROVE  file' \in Disk /\ cert' \in Marks /\ moved' \subseteq File
<1>1. CASE Replace(f, c)
  BY <1>1, DiskButOne DEF Replace, Marks
<1>2. CASE UNCHANGED <<file, moved, cert>>
  BY <1>2
<1> QED BY <1>1, <1>2 DEF Put

LEMMA RemoveTypes ==
    ASSUME NEW files \in SUBSET File, file \in Disk, cert \in Marks,
           moved \subseteq File, Remove(files)
    PROVE  file' \in Disk /\ cert' \in Marks /\ moved' \subseteq File
<1> DEFINE d == [f \in File |-> IF f \in files THEN Missing ELSE file[f]]
<1>1. IsFiles(d) /\ \A f \in File : d[f] \in Contents(f)
  BY DiskFacts, ContentsFacts DEF IsFiles
<1> HIDE DEF d
<1>2. d \in Disk
  BY <1>1, DiskOf
<1>3. file' = d /\ cert' \in Marks /\ moved' \subseteq File
  BY DEF Remove, d, Marks
<1> QED BY <1>2, <1>3

\* The lock is released.
LEMMA EndTypes ==
    ASSUME HolderTypes, Place, NEW status \in {0, 1, 74, 75, 130, 137}, End(status),
           UNCHANGED sessions
    PROVE  HolderTypes' /\ Place'
<1>1. /\ pc' = "idle" /\ rc' = status /\ at' = 1 /\ old' = Nowhere /\ saw' = Nowhere
      /\ pass' = 1 /\ certified' = FALSE /\ UNCHANGED <<req, new>>
  BY DEF End, Goto
<1>2. 1 \in 1 .. Passes /\ 1 \in 1 .. 5
  BY BoundsAssumption
<1>3. HolderTypes'
  BY <1>1, <1>2, NowhereFits DEF HolderTypes, Label
<1> QED BY <1>1, <1>3 DEF Place

LEMMA OrderIsFile == ASSUME HolderTypes PROVE Order[at] \in File
BY OrderFacts DEF HolderTypes

\* The steps of a commit.
LEMMA CommitTypes ==
    ASSUME Types, Backup \/ Move \/ Chmod \/ Compare \/ Cleanup \/ TailEnd
    PROVE  Types'
<1> USE DEF Types
<1>1. CASE Backup
  <2>1. DiskTypes'
    BY <1>1 DEF DiskTypes, Backup, KeptBut
  <2>2. old' \in Disk
    <3>1. file[Order[at]] \in Contents(Order[at])
      BY OrderIsFile, DiskFacts DEF DiskTypes
    <3> QED BY <1>1, <3>1, OrderIsFile, DiskButOne DEF Backup, HolderTypes
  <2>3. HolderTypes' /\ pc' \in {"backup", "move", "restore"} /\ UNCHANGED req
    BY <1>1, <2>2 DEF HolderTypes, Backup, KeptBut, NextFile, Goto, Fails, Label
  <2> QED BY <2>1, <2>3 DEF Place
<1>2. CASE Move
  <2>1. new[Order[at]] \in Contents(Order[at])
    BY OrderIsFile, DiskFacts DEF HolderTypes
  <2>2. DiskTypes'
    BY <1>2, <2>1, OrderIsFile, ReplaceTypes DEF DiskTypes, Move, Kept, KeptBut
  <2>3. HolderTypes' /\ pc' \in {"move", "chmod", "restore"} /\ UNCHANGED req
    BY <1>2 DEF HolderTypes, Move, Kept, KeptBut, NextFile, Goto, Fails, Label
  <2> QED BY <2>2, <2>3 DEF Place
<1>3. CASE Chmod \/ Compare \/ Cleanup
  <2>1. DiskTypes'
    BY <1>3 DEF DiskTypes, Chmod, Compare, Cleanup, Kept, KeptBut
  <2>2. /\ HolderTypes' /\ UNCHANGED req
        /\ pc' \in {"compare", "restore", "stat", "uncertify", "release"}
    BY <1>3 DEF HolderTypes, Chmod, Compare, Cleanup, Kept, KeptBut, Goto, Fails, Label, holder
  <2> QED BY <2>1, <2>2 DEF Place
<1>4. CASE TailEnd
  <2>1. tail' \in Marks /\ UNCHANGED <<file, base, cert, tmp, moved>>
    BY <1>4 DEF TailEnd, disk, Marks
  <2>2. UNCHANGED <<pc, rc, at, req, new, old, saw, norm, pass, certified, sessions>>
    BY <1>4 DEF TailEnd, holder, spent
  <2> QED BY <2>1, <2>2 DEF DiskTypes, HolderTypes, Place
<1> QED BY <1>1, <1>2, <1>3, <1>4

\* Its abort, its release, and a signal or a kill.
LEMMA EndingTypes ==
    ASSUME Types, Release \/ Restore \/ Late \/ Signal \/ TailSignal \/ Kill
    PROVE  Types'
<1> USE DEF Types
<1>1. NoBackup \in SUBSET File
  BY DEF NoBackup
<1>2. CASE Release
  <2>1. DiskTypes'
    BY <1>1, <1>2 DEF DiskTypes, Release, disk, Marks
  <2>2. CASE pc' = "late"
    <3>1. rc' = 75 /\ UNCHANGED <<holder, sessions>>
      BY <1>2, <2>2 DEF Release, End, Goto
    <3> QED BY <2>1, <2>2, <3>1 DEF HolderTypes, Place, holder, Label
  <2>3. CASE pc' # "late"
    <3>1. \E status \in {0, 1, 74, 75, 130, 137} : End(status)
      BY <1>2, <2>3 DEF Release, Goto, HolderTypes
    <3>2. UNCHANGED sessions
      BY <1>2 DEF Release
    <3> QED BY <2>1, <3>1, <3>2, EndTypes
  <2> QED BY <2>2, <2>3
<1>3. CASE Restore
  <2>1. \E c \in Contents(Order[at]) : Replace(Order[at], c)
    BY <1>3, OrderIsFile, DiskFacts, ContentsFacts DEF Restore, DiskTypes, HolderTypes
  <2>2. DiskTypes'
    BY <1>3, <2>1, OrderIsFile, ReplaceTypes DEF DiskTypes, Restore, KeptBut
  <2>3. CASE at < 5
    <3>1. /\ at' = at + 1
          /\ UNCHANGED <<pc, rc, req, new, old, saw, norm, pass, certified, sessions>>
      BY <1>3, <2>3 DEF Restore, KeptBut
    <3> QED BY <2>2, <2>3, <3>1 DEF HolderTypes, Place
  <2>4. CASE ~(at < 5)
    <3>1. End(rc) /\ UNCHANGED sessions
      BY <1>3, <2>4 DEF Restore, KeptBut
    <3> QED BY <2>2, <3>1, EndTypes DEF HolderTypes
  <2> QED BY <2>3, <2>4
<1>4. CASE Late
  <2>1. DiskTypes'
    BY <1>1, <1>4, RemoveTypes DEF DiskTypes, Late, Kept, KeptBut
  <2>2. End(rc) /\ UNCHANGED sessions
    BY <1>4 DEF Late, Kept, KeptBut
  <2> QED BY <2>1, <2>2, EndTypes DEF HolderTypes
<1>5. CASE Signal
  <2>1. DiskTypes'
    BY <1>5 DEF DiskTypes, Signal, disk
  <2>2. /\ rc' = 130 /\ at' = 1 /\ pc' \in {"late", "restore"}
        /\ UNCHANGED <<req, new, old, saw, pass, certified, sessions>>
    BY <1>5 DEF Signal, Goto
  <2> QED BY <2>1, <2>2 DEF HolderTypes, Place, Label
<1>6. CASE TailSignal
  <2>1. tail \in SUBSET File /\ tail' = Missing /\ Remove(tail) /\ UNCHANGED <<base, tmp>>
    BY <1>6 DEF TailSignal, DiskTypes, Marks
  <2>2. file' \in Disk /\ cert' \in Marks /\ moved' \subseteq File
    BY <2>1, RemoveTypes DEF DiskTypes
  <2>3. DiskTypes'
    BY <2>1, <2>2 DEF DiskTypes, Marks
  <2> QED BY <1>6, <2>3 DEF TailSignal, holder, HolderTypes, Place
<1>7. CASE Kill
  <2>1. Broken \in Contents(Order[at])
    BY OrderIsFile, ContentsFacts
  <2>2. DiskTypes'
    BY <1>7, <2>1, OrderIsFile, ReplaceTypes DEF DiskTypes, Kill
  <2>3. End(137) /\ UNCHANGED sessions
    BY <1>7 DEF Kill
  <2> QED BY <2>2, <2>3, EndTypes
<1> QED BY <1>2, <1>3, <1>4, <1>5, <1>6, <1>7

\* The certificate.
LEMMA FingerprintTypes ==
    ASSUME Types, Fingerprint
    PROVE  Types'
<1>1. UNCHANGED <<file, base, tmp, tail>> /\ moved' \in {moved, {}}
      /\ cert' \in {cert, moved, Missing}
  BY DEF Fingerprint, Stat, Certify, Uncertify, Kept, KeptBut
<1>2. cert' \in Marks /\ moved' \subseteq File
  BY <1>1 DEF Types, DiskTypes, Marks
<1>3. DiskTypes'
  BY <1>1, <1>2 DEF Types, DiskTypes
<1>4. UNCHANGED <<rc, holder, sessions>>
  BY DEF Fingerprint, Stat, Certify, Uncertify, Kept, KeptBut
<1>5. pc' \in {"certify", "uncertify", "cleanup", "release"}
  BY DEF Fingerprint, Stat, Certify, Uncertify, Goto, Finish
<1> QED BY <1>3, <1>4, <1>5 DEF Types, HolderTypes, Place, holder, Label

\* Values are contents of the two switches.
LEMMA ValidFits ==
    ASSUME NEW f \in {"state", "policy"}, NEW c
    PROVE  Valid(f, c) \in Value /\ Valid(f, c) \in Contents(f)
<1>1. Valid(f, c) \in Value
  BY DEF Valid, Value
<1> QED BY <1>1, ContentsFacts

\* What a switch writes fits where it is written.
LEMMA FirstFits ==
    ASSUME Types, pc = "first"
    PROVE  FirstFile \in File /\ FirstValue \in Contents(FirstFile)
<1>1. req.kind \in {"controls", "toggle"} /\ req \in Command \cup {[kind |-> "prepare"]}
  BY DEF Types, Place
<1>2. req \in Command
  BY <1>1
<1>3. CASE req.kind = "toggle"
  BY <1>2, <1>3, CommandFacts, ValidFits, FileNames DEF FirstFile, FirstValue
<1>4. CASE req.kind = "controls"
  <2>1. file["state"] \in Contents("state")
    BY DiskFacts, FileNames DEF Types, DiskTypes
  <2>2. req.state \in Value \/ Left(req.state)
    BY <1>2, <1>4, CommandFacts DEF Left
  <2>3. FirstFile = "state" /\ FirstValue \in {file["state"], req.state}
        /\ (Left(req.state) => FirstValue = file["state"])
    BY <1>4 DEF FirstFile, FirstValue
  <2> QED BY <2>1, <2>2, <2>3, ContentsFacts, FileNames
<1> QED BY <1>1, <1>3, <1>4

\* The same for its second write.
LEMMA SecondFits ==
    ASSUME Types, pc = "second"
    PROVE  SecondFile \in File /\ SecondValue \in Contents(SecondFile)
<1>1. /\ req.kind \in {"controls", "toggle", "setmode"}
      /\ req \in Command \cup {[kind |-> "prepare"]}
  BY DEF Types, Place
<1>2. req \in Command
  BY <1>1
<1>3. CASE req.kind = "toggle"
  <2>1. Other(norm) \in Value
    BY DEF Other, Value
  <2>2. SecondFile = req.target /\ SecondValue = Other(norm)
    BY <1>3 DEF SecondFile, SecondValue
  <2> QED BY <1>2, <1>3, <2>1, <2>2, CommandFacts, ContentsFacts, FileNames
<1>4. CASE req.kind = "setmode"
  <2>1. SecondFile = "state" /\ SecondValue = req.state
    BY <1>4 DEF SecondFile, SecondValue
  <2> QED BY <1>2, <1>4, <2>1, CommandFacts, ContentsFacts, FileNames
<1>5. CASE req.kind = "controls"
  <2>1. file["policy"] \in Contents("policy")
    BY DiskFacts, FileNames DEF Types, DiskTypes
  <2>2. req.policy \in Value \/ Left(req.policy)
    BY <1>2, <1>5, CommandFacts DEF Left
  <2>3. SecondFile = "policy" /\ SecondValue \in {file["policy"], req.policy}
        /\ (Left(req.policy) => SecondValue = file["policy"])
    BY <1>5 DEF SecondFile, SecondValue
  <2> QED BY <2>1, <2>2, <2>3, ContentsFacts, FileNames
<1> QED BY <1>1, <1>3, <1>4, <1>5

LEMMA SwitchingTypes ==
    ASSUME Types, Switching
    PROVE  Types'
<1> USE DEF Types
<1>1. CASE Mark
  <2>1. old' \in Disk
    <3>1. file["state"] \in Contents("state") /\ file["policy"] \in Contents("policy")
      BY DiskFacts, FileNames DEF DiskTypes
    <3>2. [old EXCEPT !["state"] = file["state"]] \in Disk
      BY <3>1, DiskButOne, FileNames DEF HolderTypes
    <3>3. old' = [[old EXCEPT !["state"] = file["state"]] EXCEPT !["policy"] = file["policy"]]
      BY <1>1 DEF Mark
    <3> QED BY <3>1, <3>2, <3>3, DiskButOne, FileNames
  <2>2. certified' \in BOOLEAN /\ pc' = "first" /\ req.kind = "controls"
        /\ UNCHANGED <<rc, at, req, new, saw, pass, sessions>>
    BY <1>1 DEF Mark, Matches, Goto, Kept, KeptBut
  <2>3. DiskTypes'
    BY <1>1 DEF DiskTypes, Mark, Kept, KeptBut
  <2> QED BY <2>1, <2>2, <2>3 DEF HolderTypes, Place, Label
<1>2. CASE Match
  <2>1. certified' \in BOOLEAN /\ pc' \in {"mark", "first"}
        /\ UNCHANGED <<rc, at, req, new, old, saw, pass, sessions>>
    BY <1>2 DEF Match, Matches, Goto, Kept, KeptBut
  <2>2. req.kind \in {"controls", "toggle"}
    BY <1>2 DEF Match, Place
  <2>3. DiskTypes'
    BY <1>2 DEF DiskTypes, Match, Kept, KeptBut
  <2> QED BY <2>1, <2>2, <2>3 DEF HolderTypes, Place, Label
<1>3. CASE MarkTable \/ Recheck
  <2>1. /\ pc' \in {"first", "certify", "stat", "uncertify"}
        /\ pc' = "first" => req.kind = "toggle"
        /\ UNCHANGED <<rc, holder, sessions>>
    BY <1>3 DEF MarkTable, Recheck, Goto, Kept, KeptBut
  <2>2. DiskTypes'
    BY <1>3 DEF DiskTypes, MarkTable, Recheck, Kept, KeptBut
  <2> QED BY <2>1, <2>2 DEF HolderTypes, Place, Label, holder
<1>4. CASE WriteFirst
  <2>1. /\ pc' \in {"second", "unfirst", "uncertify", "release"} /\ rc' \in {rc, 1}
        /\ pc' = "unfirst" => req.kind = "controls"
        /\ UNCHANGED <<at, req, new, old, saw, pass, certified, sessions>>
    BY <1>4 DEF WriteFirst, Goto, Kept, KeptBut, Otherwise
  <2>2. pc = "first" /\ (Put(FirstFile, FirstValue) \/ UNCHANGED <<file, moved, cert>>)
    BY <1>4 DEF WriteFirst
  <2>3. file' \in Disk /\ cert' \in Marks /\ moved' \subseteq File
    BY <2>2, FirstFits, ReplaceTypes DEF DiskTypes
  <2>4. DiskTypes'
    BY <1>4, <2>3 DEF DiskTypes, WriteFirst, Kept, KeptBut
  <2>5. req.kind \in {"controls", "toggle"}
    BY <2>2 DEF Place
  <2> QED BY <2>1, <2>4, <2>5 DEF HolderTypes, Place, Label
<1>5. CASE WriteSecond
  <2>1. /\ pc' \in {"release", "recheck", "unfirst", "uncertify"} /\ rc' \in {rc, 1}
        /\ pc' = "unfirst" => req.kind = "controls"
        /\ UNCHANGED <<holder, sessions>>
    BY <1>5 DEF WriteSecond, Goto, Kept, KeptBut, Otherwise
  <2>2. pc = "second" /\ (Put(SecondFile, SecondValue) \/ UNCHANGED <<file, moved, cert>>)
    BY <1>5 DEF WriteSecond
  <2>3. file' \in Disk /\ cert' \in Marks /\ moved' \subseteq File
    BY <2>2, SecondFits, ReplaceTypes DEF DiskTypes
  <2>4. DiskTypes'
    BY <1>5, <2>3 DEF DiskTypes, WriteSecond, Kept, KeptBut
  <2> QED BY <2>1, <2>4 DEF HolderTypes, Place, Label, holder
<1>6. CASE UnwriteFirst \/ UnwriteSecond
  <2>1. pc' \in {"unsecond", "uncertify"} /\ UNCHANGED <<rc, holder, sessions>>
        /\ (pc' = "unsecond" => pc = "unfirst")
    BY <1>6 DEF UnwriteFirst, UnwriteSecond, Goto, Kept, KeptBut
  <2>2. \/ Put("state", old["state"]) \/ Put("policy", old["policy"])
        \/ UNCHANGED <<file, moved, cert>>
    BY <1>6 DEF UnwriteFirst, UnwriteSecond
  <2>3. old["state"] \in Contents("state") /\ old["policy"] \in Contents("policy")
    BY DiskFacts, FileNames DEF HolderTypes
  <2>4. file' \in Disk /\ cert' \in Marks /\ moved' \subseteq File
    BY <2>2, <2>3, ReplaceTypes, FileNames DEF DiskTypes
  <2>5. DiskTypes'
    BY <1>6, <2>4 DEF DiskTypes, UnwriteFirst, UnwriteSecond, Kept, KeptBut
  <2> QED BY <2>1, <2>5 DEF HolderTypes, Place, Label, holder
<1> QED BY <1>1, <1>2, <1>3, <1>4, <1>5, <1>6 DEF Switching

\* What generate_runtime_config leaves.
LEMMA GenerateTypes ==
    ASSUME Types, FastGenerate \/ Generate
    PROVE  Types'
<1>1. Runtime(file["pkgs"], file["states"]) \in Pkgs \cup {Broken}
  BY RuntimeTypes, DiskFacts DEF Types, DiskTypes
<1>2. /\ tmp' \in {tmp, Runtime(file["pkgs"], file["states"])} /\ rc' \in {rc, 1}
      /\ pc' \in {"fastconfirm", "confirm", "release", "input"}
      /\ UNCHANGED <<file, base, cert, moved, holder, tail, sessions>>
  BY DEF FastGenerate, Generate, GenerateTo, Goto
<1>3. DiskTypes'
  BY <1>1, <1>2 DEF Types, DiskTypes
<1> QED BY <1>2, <1>3 DEF Types, HolderTypes, Place, Label, holder

LEMMA AgainTypes ==
    ASSUME HolderTypes, Again
    PROVE  pass' \in 1 .. Passes /\ rc' \in {rc, 75} /\ pc' \in {"input", "release"}
<1>1. pass \in 1 .. Passes /\ Passes \in Nat
  BY BoundsAssumption DEF HolderTypes
<1> QED BY <1>1 DEF Again, Goto

\* The table that normalize_package_config makes is proper.
LEMMA ReadTypes ==
    ASSUME Types, ReadTable
    PROVE  Types'
<1>1. /\ pc' = "pkgs" /\ UNCHANGED <<file, cert, moved, base, tmp, tail>>
      /\ UNCHANGED <<rc, at, req, new, old, saw, pass, certified, sessions>>
  BY DEF ReadTable, Goto, Kept, KeptBut
<1>2. Generation \in Nat
  BY DEF Generation, GenOf
<1> DEFINE n == Normalized(file["pkgs"], file["states"], Generation, base)
<1>3. n.default \in BOOLEAN /\ <<n.pkgs, n.states>> \in Proper
  BY NormalizedFacts, DiskFacts DEF Types, DiskTypes
<1> HIDE DEF n
<1>4. norm' = [table |-> n, generation |-> Generation]
  BY DEF ReadTable, n
<1>5. PICK m, g : norm' = [table |-> m, generation |-> g] /\ g \in Nat
                  /\ m.default \in BOOLEAN /\ <<m.pkgs, m.states>> \in Proper
  BY <1>2, <1>3, <1>4
<1>6. norm'.table = m /\ norm'.generation = g
  BY <1>5
<1>7. /\ norm'.table.default \in BOOLEAN /\ <<norm'.table.pkgs, norm'.table.states>> \in Proper
      /\ norm'.generation \in Nat
  BY <1>5, <1>6
<1>8. Place'
  BY <1>1, <1>7 DEF Types, Place
<1> QED BY <1>1, <1>8 DEF Types, DiskTypes, HolderTypes, Label

\* prepare_config_unlocked.
LEMMA PrepareTypes ==
    ASSUME Types, Prepare
    PROVE  Types'
<1> USE DEF Types
<1>1. CASE Fast \/ FastConfirm
  <2>1. /\ pc' \in {"fastgen", "input", "release"} /\ moved' \in {moved, {}}
        /\ UNCHANGED <<file, cert, rc, holder, base, tmp, tail, sessions>>
    BY <1>1 DEF Fast, FastConfirm, Goto, Kept, KeptBut, Seen
  <2>2. DiskTypes'
    BY <2>1 DEF DiskTypes
  <2> QED BY <2>1, <2>2 DEF HolderTypes, Place, Label, holder
<1>2. CASE Input
  <2>1. /\ pc' = "mode" /\ saw' = file
        /\ UNCHANGED <<file, cert, moved, base, tmp, tail>>
        /\ UNCHANGED <<rc, at, req, new, old, pass, certified, sessions>>
    BY <1>2 DEF Input, Goto, Kept, KeptBut
  <2> QED BY <2>1 DEF DiskTypes, HolderTypes, Place, Label
<1>3. CASE NormaliseMode \/ NormalisePolicy \/ WritePkgs \/ WriteStates
  <2>1. PICK label, f, c, next :
             /\ Normalise(label, f, c, next) /\ f \in File /\ c \in Contents(f)
             /\ next \in {"policy", "read", "states", "base"}
             /\ next \in {"states", "base"} => pc \in {"pkgs", "states"}
    <3>1. CASE NormaliseMode
      <4>1. Normalise("mode", "state", Valid("state", file["state"]), "policy")
        BY <3>1 DEF NormaliseMode
      <4> QED BY <4>1, ValidFits, FileNames
    <3>2. CASE NormalisePolicy
      <4>1. Normalise("policy", "policy", Valid("policy", file["policy"]), "read")
        BY <3>2 DEF NormalisePolicy
      <4> QED BY <4>1, ValidFits, FileNames
    <3>3. CASE WritePkgs
      <4>1. pc = "pkgs" /\ Normalise("pkgs", "pkgs", norm.table.pkgs, "states")
        BY <3>3 DEF WritePkgs
      <4>2. norm.table.pkgs \in Pkgs
        BY <4>1, ProperFacts DEF Place
      <4> QED BY <4>1, <4>2, ContentsFacts, FileNames
    <3>4. CASE WriteStates
      <4>1. pc = "states" /\ Normalise("states", "states", norm.table.states, "base")
        BY <3>4 DEF WriteStates
      <4>2. norm.table.states \in States
        BY <4>1, ProperFacts DEF Place, States
      <4> QED BY <4>1, <4>2, ContentsFacts, FileNames
    <3> QED BY <1>3, <3>1, <3>2, <3>3, <3>4
  <2>2. /\ pc' \in {next, "release"} /\ rc' \in {rc, 1}
        /\ UNCHANGED <<holder, base, tmp, tail, sessions>>
        /\ Put(f, c) \/ UNCHANGED <<file, moved, cert>>
    BY <2>1 DEF Normalise, Goto, Kept, KeptBut
  <2>3. file' \in Disk /\ cert' \in Marks /\ moved' \subseteq File
    BY <2>1, <2>2, ReplaceTypes DEF DiskTypes
  <2>4. DiskTypes'
    BY <2>2, <2>3 DEF DiskTypes
  <2>5. HolderTypes'
    BY <2>1, <2>2 DEF HolderTypes, Label, holder
  <2>6. Place'
    BY <2>1, <2>2 DEF Place, holder
  <2> QED BY <2>4, <2>5, <2>6
<1>4. CASE FastGenerate \/ Generate
  BY <1>4, GenerateTypes
<1>5. CASE ReadTable
  BY <1>5, ReadTypes
<1>6. CASE WriteBase
  <2>1. /\ pc' \in {"output", "release"} /\ rc' \in {rc, 1}
        /\ UNCHANGED <<file, cert, tmp, moved, holder, tail, sessions>>
    BY <1>6 DEF WriteBase, Goto
  <2>2. pc = "base" /\ norm.generation \in Nat
    BY <1>6 DEF WriteBase, Place
  <2>3. \/ base' \in {base, Missing}
        \/ /\ file["pkgs"] \notin {Missing, Broken}
           /\ base' = [pkgs |-> file["pkgs"], generation |-> norm.generation]
    BY <1>6 DEF WriteBase
  <2>4. base' \in Baseline \cup {Missing}
    BY <2>2, <2>3, DiskFacts DEF Baseline, DiskTypes
  <2>5. DiskTypes'
    BY <2>1, <2>4 DEF DiskTypes
  <2> QED BY <2>1, <2>2, <2>5 DEF HolderTypes, Place, Label, holder
<1>7. CASE Output \/ Confirm
  <2>1. /\ UNCHANGED <<file, cert, moved, at, req, new, old, saw, norm, certified>>
        /\ UNCHANGED <<base, tmp, tail, sessions>>
        /\ \/ Again
           \/ /\ pc' \in {"generate", "stat", "release"} /\ rc' \in {rc, 1}
              /\ UNCHANGED pass
    BY <1>7 DEF Output, Confirm, Goto, Kept, KeptBut, Seen
  <2>2. /\ pass' \in 1 .. Passes /\ rc' \in {rc, 1, 75}
        /\ pc' \in {"generate", "stat", "release", "input"}
    BY <2>1, AgainTypes DEF HolderTypes
  <2> QED BY <2>1, <2>2 DEF DiskTypes, HolderTypes, Place, Label
<1> QED BY <1>1, <1>2, <1>3, <1>4, <1>5, <1>6, <1>7 DEF Prepare

\* A command begins.
LEMMA BeginTypes ==
    ASSUME Types, Begin
    PROVE  Types'
<1>1. /\ req' \in Command /\ pc' = First(req'.kind) /\ sessions' = sessions + 1
      /\ at' = 1 /\ pass' = 1 /\ rc' = 0 /\ old' = Nowhere
      /\ UNCHANGED <<file, base, cert, tmp, moved, saw, norm, certified, tail>>
  BY DEF Begin, disk, Goto
<1>2. sessions' \in Nat
  BY <1>1 DEF Types, HolderTypes
<1>3. new' \in Disk
  <2>1. CASE req'.kind = "commit"
    <3>1. req'.mode \in Value /\ req'.policy \in Value /\ req'.table \in Table
      BY <1>1, <2>1, CommandFacts
    <3>2. new' = NewFiles(req'.mode, req'.policy, req'.table, sessions')
      BY <2>1 DEF Begin
    <3> QED BY <1>2, <3>1, <3>2, NewFit
  <2>2. CASE req'.kind # "commit"
    BY <2>2, NowhereFits DEF Begin
  <2> QED BY <2>1, <2>2
<1>4. /\ pc' \in {"backup", "mark", "match", "second", "fast"}
      /\ pc' = "mark" => req'.kind = "controls"
      /\ pc' = "second" => req'.kind = "setmode"
      /\ pc' = "match" => req'.kind = "toggle"
  BY <1>1, CommandFacts DEF First
<1>5. 1 \in 1 .. Passes /\ 1 \in 1 .. 5
  BY BoundsAssumption
<1>6. HolderTypes'
  BY <1>1, <1>2, <1>3, <1>4, <1>5, NowhereFits DEF Types, HolderTypes, Label
<1>7. Place'
  BY <1>1, <1>4 DEF Types, Place
<1>8. DiskTypes'
  BY <1>1 DEF Types, DiskTypes
<1> QED BY <1>6, <1>7, <1>8 DEF Types

\* A file manager writes.
LEMMA EditTypes ==
    ASSUME Types, Edit
    PROVE  Types'
<1>1. PICK f \in File : \E c \in Contents(f) : Replace(f, c)
  <2>1. PICK f \in {"state", "policy", "pkgs", "states"} :
           \E c \in CASE f = "pkgs" -> EditedPkgs [] f = "states" -> EditedStates
                      [] OTHER -> {Broken} : Replace(f, c)
    BY DEF Edit
  <2>2. PICK c : /\ c \in CASE f = "pkgs" -> EditedPkgs [] f = "states" -> EditedStates
                             [] OTHER -> {Broken}
                 /\ Replace(f, c)
    BY <2>1
  <2>3. c \in Contents(f) /\ f \in File
    BY <2>2, EditAssumption, ContentsFacts, FileNames
  <2> QED BY <2>2, <2>3
<1>2. UNCHANGED <<base, tmp, pc, rc, holder, tail, sessions>>
  BY DEF Edit
<1>3. file' \in Disk /\ cert' \in Marks /\ moved' \subseteq File
  BY <1>1, ReplaceTypes DEF Types, DiskTypes
<1>4. DiskTypes'
  BY <1>2, <1>3 DEF Types, DiskTypes
<1> QED BY <1>2, <1>4 DEF Types, HolderTypes, Place, holder

\* The state stays within its types: every file has contents of its kind, the
\* baseline is a table with a generation, and the passes stay in their bound.
THEOREM TypesHold == Spec => []Types
<1>1. Init => Types
  <2>1. SUFFICES ASSUME Init PROVE Types
    OBVIOUS
  <2>2. PICK t \in Table : /\ file = NewFiles("disabled", "enabled", t, 0)
                           /\ base = [pkgs |-> t.pkgs, generation |-> 0]
    BY <2>1 DEF Init
  <2>3. "disabled" \in Value /\ "enabled" \in Value /\ 0 \in Nat
    BY DEF Value
  <2>4. file \in Disk
    BY <2>2, <2>3, NewFit
  <2>5. t.pkgs \in [Slot -> Name \cup {Empty}]
    BY CommandAssumption
  <2>6. base \in Baseline
    BY <2>2, <2>5 DEF Baseline, Pkgs
  <2>7. DiskTypes
    BY <2>1, <2>4, <2>6 DEF Init, DiskTypes, Marks
  <2>8. 1 \in 1 .. Passes /\ 1 \in 1 .. 5
    BY BoundsAssumption
  <2>9. HolderTypes /\ Place
    BY <2>1, <2>8, NowhereFits DEF Init, HolderTypes, Place, Label
  <2> QED BY <2>7, <2>9 DEF Types
<1>2. Types /\ [Next]_vars => Types'
  <2>1. SUFFICES ASSUME Types, [Next]_vars
                 PROVE  Types'
    OBVIOUS
  <2>2. CASE UNCHANGED vars
    <3>1. UNCHANGED <<file, base, cert, tmp, moved, tail>>
      BY <2>2 DEF vars, disk
    <3>2. UNCHANGED <<pc, rc, at, req, new, old, saw, norm, pass, certified, sessions>>
      BY <2>2 DEF vars, holder, spent
    <3> QED BY <2>1, <3>1, <3>2 DEF Types, DiskTypes, HolderTypes, Place
  <2>3. CASE Begin
    BY <2>1, <2>3, BeginTypes
  <2>4. CASE Release \/ Signal \/ TailSignal \/ Kill
    BY <2>1, <2>4, EndingTypes
  <2>5. CASE CommitStep
    BY <2>1, <2>5, CommitTypes, EndingTypes DEF CommitStep
  <2>6. CASE Fingerprint \/ Switching
    BY <2>1, <2>6, FingerprintTypes, SwitchingTypes
  <2>7. CASE Prepare
    BY <2>1, <2>7, PrepareTypes
  <2>8. CASE Edit
    BY <2>1, <2>8, EditTypes
  <2> QED BY <2>1, <2>2, <2>3, <2>4, <2>5, <2>6, <2>7, <2>8 DEF Next
<1> QED BY <1>1, <1>2, PTL DEF Spec

\* The values of every variable, for every table, every edit and any number of
\* commands, faults and kills: an index stays within the files, the passes are
\* counted up to their limit, and what is written to a file fits there.
THEOREM TypeCorrect == Spec => []TypeOK
<1>1. \A c \in Disk : Files(c)
  <2>1. \A c \in Disk : DOMAIN c = File
    BY DEF Disk
  <2> QED BY <2>1, DiskFacts DEF Files
<1>2. Types => TypeOK
  BY <1>1 DEF Types, DiskTypes, HolderTypes, Marks, TypeOK
<1> QED BY <1>2, TypesHold, PTL

-----------------------------------------------------------------------------
(* The certificate.  Whatever a label is about to certify is proper, as    *)
(* long as the part of the table that it has looked at was not replaced.   *)

Whole(c)  == c["pkgs"] # Missing /\ c["states"] # Missing
Normal(c) == Whole(c) => <<c["pkgs"], c["states"]>> \in Proper

Certifies(marks) == marks \cap TableFile = {}

CertInv ==
    /\ cert # Missing /\ Certifies(cert) => Normal(file)
    /\ pc = "idle" => ~certified
    /\ pc = "stat" \/ (pc = "mark" /\ certified) => Normal(file)
    /\ pc = "certify" /\ Certifies(moved) => Normal(file)
    /\ pc \in {"first", "second", "recheck"} /\ certified /\ Certifies(moved) => Normal(file)
    /\ pc \in {"backup", "move", "chmod", "compare"} => Normal(new)
    /\ pc \in {"states", "base", "output"} =>
          file["pkgs"] \in {norm.table.pkgs, Missing} \/ file["pkgs"] # saw["pkgs"]
    /\ pc \in {"base", "output"} =>
          file["states"] \in {norm.table.states, Missing} \/ file["states"] # saw["states"]
    /\ pc \in {"generate", "confirm"} => Normal(saw)

\* A table that is marked as replaced certifies nothing; one that is not is the
\* same as before.
SameTable == file'["pkgs"] = file["pkgs"] /\ file'["states"] = file["states"]

Tracks ==
    /\ Certifies(moved') => Certifies(moved) /\ SameTable
    /\ cert' # Missing /\ Certifies(cert') => cert # Missing /\ Certifies(cert) /\ SameTable

LEMMA ReplaceTracks ==
    ASSUME Types, NEW f \in File, NEW c, Replace(f, c) \/ Put(f, c)
    PROVE  Tracks /\ (f \notin TableFile => SameTable)
<1>1. IsFiles(file)
  BY DiskFacts DEF Types, DiskTypes
<1>2. CASE Replace(f, c)
  <2>1. \A g \in File \ {f} : file'[g] = file[g]
    BY <1>1, <1>2, Replaced
  <2>2. f \notin TableFile => SameTable
    BY <2>1, FileNames DEF SameTable, TableFile
  <2> QED BY <1>2, <2>2 DEF Replace, Tracks, Certifies
<1>3. CASE UNCHANGED <<file, moved, cert>>
  BY <1>3 DEF Tracks, SameTable
<1> QED BY <1>2, <1>3 DEF Put

LEMMA RemoveTracks ==
    ASSUME Types, NEW files \in SUBSET File, Remove(files)
    PROVE  Tracks /\ \A f \in File : file'[f] \in {file[f], Missing}
<1>1. Certifies(files) => SameTable
  BY FileNames DEF Remove, Certifies, SameTable, TableFile
<1>2. \A f \in File : file'[f] \in {file[f], Missing}
  BY DEF Remove
<1> QED BY <1>1, <1>2 DEF Remove, Tracks, Certifies

\* Labels where nothing is about to be certified.
Safe == {"release", "restore", "late", "uncertify", "cleanup", "unfirst", "unsecond", "fast",
         "fastgen", "fastconfirm", "input", "mode", "policy", "read", "pkgs", "match"}

\* What replaces files and then certifies nothing keeps the certificate.
LEMMA SafeKeeps ==
    ASSUME CertInv, Tracks \/ (UNCHANGED cert /\ SameTable) \/ (cert' = Missing),
           pc' \in Safe \/ (pc' = "idle" /\ ~certified')
    PROVE  CertInv'
<1>1. (cert # Missing /\ Certifies(cert) => Normal(file))'
  BY DEF CertInv, Tracks, SameTable, Normal, Whole, Certifies
<1> QED BY <1>1 DEF CertInv, Safe

\* A commit.
LEMMA CommitCert ==
    ASSUME Types, CertInv,
           Backup \/ Move \/ Chmod \/ Compare \/ Cleanup \/ TailEnd \/ Restore \/ Late
    PROVE  CertInv'
<1>1. CASE Backup
  <2>1. UNCHANGED <<file, cert, moved, new, certified>>
    BY <1>1 DEF Backup, KeptBut
  <2>2. pc = "backup" /\ pc' \in {"backup", "move", "restore"}
    BY <1>1 DEF Backup, NextFile, Fails, Goto
  <2> QED BY <2>1, <2>2 DEF CertInv, Normal, Whole
<1>2. CASE Move
  <2>1. Tracks
    BY <1>2, OrderIsFile, ReplaceTracks DEF Move, Tracks, SameTable, Types
  <2>2. UNCHANGED <<new, certified>>
    BY <1>2 DEF Move
  <2>3. pc = "move" /\ pc' \in {"move", "chmod", "restore"}
    BY <1>2 DEF Move, NextFile, Fails, Goto
  <2> QED BY <2>1, <2>2, <2>3 DEF CertInv, Normal, Whole, Tracks, SameTable, Certifies
<1>3. CASE Chmod
  <2>1. UNCHANGED <<file, cert, moved, new, certified>>
    BY <1>3 DEF Chmod, Kept, KeptBut
  <2>2. pc = "chmod" /\ pc' \in {"compare", "restore"}
    BY <1>3 DEF Chmod, Fails, Goto
  <2> QED BY <2>1, <2>2 DEF CertInv, Normal, Whole
<1>4. CASE Compare
  <2>1. UNCHANGED <<file, cert, moved, new, certified>>
    BY <1>4 DEF Compare, Kept, KeptBut, holder
  <2>2. pc = "compare" /\ \/ pc' = "stat" /\ file = new
                          \/ pc' = "uncertify"
    BY <1>4 DEF Compare, Goto
  <2> QED BY <2>1, <2>2 DEF CertInv, Normal, Whole
<1>5. CASE Cleanup
  <2>1. UNCHANGED <<file, cert>> /\ pc' \in Safe
    BY <1>5 DEF Cleanup, Kept, KeptBut, Goto, Safe
  <2> QED BY <2>1, SafeKeeps DEF SameTable
<1>6. CASE TailEnd
  BY <1>6 DEF TailEnd, disk, holder, CertInv, Normal, Whole
<1>7. CASE Restore
  <2>1. Tracks
    BY <1>7, OrderIsFile, ReplaceTracks DEF Restore, Types
  <2>2. pc' \in Safe \/ (pc' = "idle" /\ ~certified')
    BY <1>7 DEF Restore, End, Goto, Safe
  <2> QED BY <2>1, <2>2, SafeKeeps
<1>8. CASE Late
  <2>1. Tracks
    BY <1>8, RemoveTracks DEF Late, NoBackup
  <2>2. pc' = "idle" /\ ~certified'
    BY <1>8 DEF Late, End, Goto
  <2> QED BY <2>1, <2>2, SafeKeeps
<1> QED BY <1>1, <1>2, <1>3, <1>4, <1>5, <1>6, <1>7, <1>8

LEMMA EndingCert ==
    ASSUME Types, CertInv, Release \/ Signal \/ TailSignal \/ Kill
    PROVE  CertInv'
<1>1. CASE Release
  <2>1. UNCHANGED <<file, cert>>
    BY <1>1 DEF Release, disk
  <2>2. pc' \in Safe \/ (pc' = "idle" /\ ~certified')
    BY <1>1 DEF Release, End, Goto, Safe
  <2> QED BY <2>1, <2>2, SafeKeeps DEF SameTable
<1>2. CASE Signal
  <2>1. UNCHANGED <<file, cert>> /\ pc' \in Safe
    BY <1>2 DEF Signal, disk, Goto, Safe
  <2> QED BY <2>1, SafeKeeps DEF SameTable
<1>3. CASE TailSignal
  <2>1. tail \in SUBSET File /\ Remove(tail)
    BY <1>3 DEF TailSignal, Types, DiskTypes, Marks
  <2>2. Tracks /\ \A f \in File : file'[f] \in {file[f], Missing}
    BY <2>1, RemoveTracks
  <2>3. UNCHANGED <<pc, new, certified, saw, norm>>
    BY <1>3 DEF TailSignal, holder
  <2>4. /\ Normal(file) => Normal(file')
        /\ file'["pkgs"] \in {file["pkgs"], Missing}
        /\ file'["states"] \in {file["states"], Missing}
    BY <2>2, FileNames DEF Normal, Whole
  <2>5. (Normal(new) => Normal(new')) /\ (Normal(saw) => Normal(saw'))
    BY <2>3
  <2>6. /\ Certifies(moved') => Certifies(moved)
        /\ cert' # Missing /\ Certifies(cert') => cert # Missing /\ Certifies(cert)
    BY <2>2 DEF Tracks
  <2> QED BY <2>3, <2>4, <2>5, <2>6 DEF CertInv, Normal, Whole, Certifies
<1>4. CASE Kill
  <2>1. Tracks
    BY <1>4, OrderIsFile, ReplaceTracks DEF Kill, Types, Tracks, SameTable
  <2>2. pc' = "idle" /\ ~certified'
    BY <1>4 DEF Kill, End, Goto
  <2> QED BY <2>1, <2>2, SafeKeeps
<1> QED BY <1>1, <1>2, <1>3, <1>4

LEMMA FingerprintCert ==
    ASSUME Types, CertInv, Fingerprint
    PROVE  CertInv'
<1>1. UNCHANGED <<file, certified>>
  BY DEF Fingerprint, Stat, Certify, Uncertify, Kept, KeptBut, holder
<1>2. CASE Stat
  <2>1. UNCHANGED cert /\ pc = "stat" /\ pc' \in {"certify", "uncertify"}
    BY <1>2 DEF Stat, Goto
  <2> QED BY <1>1, <2>1 DEF CertInv, Normal, Whole
<1>3. CASE Certify
  <2>1. pc = "certify" /\ pc' \in Safe /\ cert' \in {cert, moved}
    BY <1>3 DEF Certify, Goto, Finish, Safe
  <2>2. (cert # Missing /\ Certifies(cert) => Normal(file))'
    BY <1>1, <2>1 DEF CertInv, Normal, Whole, Certifies
  <2> QED BY <2>1, <2>2 DEF CertInv, Safe
<1>4. CASE Uncertify
  <2>1. cert' = Missing /\ pc' \in Safe
    BY <1>4 DEF Uncertify, Goto, Finish, Safe
  <2> QED BY <2>1, SafeKeeps
<1> QED BY <1>2, <1>3, <1>4 DEF Fingerprint

\* A fingerprint that matches is one of a normal table.
LEMMA MatchesNormal ==
    ASSUME CertInv, Matches
    PROVE  Normal(file)
BY MissingAssumption DEF CertInv, Matches, Certifies

LEMMA SwitchingCert ==
    ASSUME Types, CertInv, Switching
    PROVE  CertInv'
<1>1. CASE Mark
  <2>1. /\ UNCHANGED <<file, cert>> /\ moved' = {} /\ certified' = Matches
        /\ pc' = "first"
    BY <1>1 DEF Mark, Goto, Kept, KeptBut
  <2>2. certified' => Normal(file)
    BY <2>1, MatchesNormal
  <2> QED BY <2>1, <2>2 DEF CertInv, Normal, Whole
<1>2. CASE Match
  <2>1. /\ UNCHANGED <<file, cert, moved>> /\ certified' = Matches
        /\ pc' = IF certified' THEN "mark" ELSE "first"
    BY <1>2 DEF Match, Goto, Kept, KeptBut
  <2>2. certified' => Normal(file)
    BY <2>1, MatchesNormal
  <2> QED BY <2>1, <2>2 DEF CertInv, Normal, Whole
<1>3. CASE MarkTable
  <2>1. UNCHANGED <<file, cert, certified>> /\ pc = "mark" /\ pc' = "first"
    BY <1>3 DEF MarkTable, Goto, Kept, KeptBut, holder
  <2> QED BY <2>1 DEF CertInv, Normal, Whole
<1>4. CASE WriteFirst
  <2>1. /\ pc = "first" /\ UNCHANGED certified
        /\ pc' \in {"second", "unfirst", "uncertify", "release"}
        /\ Put(FirstFile, FirstValue) \/ UNCHANGED <<file, moved, cert>>
    BY <1>4 DEF WriteFirst, Goto, Kept, KeptBut, Otherwise
  <2>2. Tracks
    BY <2>1, FirstFits, ReplaceTracks DEF Tracks, SameTable
  <2> QED BY <2>1, <2>2 DEF CertInv, Normal, Whole, Tracks, SameTable
<1>5. CASE WriteSecond
  <2>1. /\ pc = "second" /\ UNCHANGED certified
        /\ pc' \in {"recheck", "unfirst", "uncertify", "release"}
        /\ Put(SecondFile, SecondValue) \/ UNCHANGED <<file, moved, cert>>
    BY <1>5 DEF WriteSecond, Goto, Kept, KeptBut, Otherwise, holder
  <2>2. Tracks
    BY <2>1, SecondFits, ReplaceTracks DEF Tracks, SameTable
  <2> QED BY <2>1, <2>2 DEF CertInv, Normal, Whole, Tracks, SameTable
<1>6. CASE UnwriteFirst \/ UnwriteSecond
  <2>1. /\ pc' \in Safe
        /\ \/ Put("state", old["state"]) \/ Put("policy", old["policy"])
           \/ UNCHANGED <<file, moved, cert>>
    BY <1>6 DEF UnwriteFirst, UnwriteSecond, Goto, Safe
  <2>2. Tracks
    BY <2>1, FileNames, ReplaceTracks DEF Tracks, SameTable
  <2> QED BY <2>1, <2>2, SafeKeeps
<1>7. CASE Recheck
  <2>1. pc = "recheck" /\ UNCHANGED <<file, cert, certified>>
    BY <1>7 DEF Recheck, Kept, KeptBut, holder
  <2>2. \/ pc' = "uncertify"
        \/ /\ certified /\ Certifies(moved) /\ pc' \in {"certify", "stat"}
    BY <1>7 DEF Recheck, Goto, Certifies
  <2> QED BY <2>1, <2>2 DEF CertInv, Normal, Whole
<1> QED BY <1>1, <1>2, <1>3, <1>4, <1>5, <1>6, <1>7 DEF Switching

\* The labels of the full path up to the table read change nothing that counts.
LEMMA PrepareCert ==
    ASSUME Types, CertInv, Prepare
    PROVE  CertInv'
<1>1. CASE Fast \/ FastConfirm \/ Input \/ FastGenerate
  <2>1. UNCHANGED <<file, cert>> /\ pc' \in Safe
    BY <1>1 DEF Fast, FastConfirm, Input, FastGenerate, GenerateTo, Kept, KeptBut, Seen,
                Goto, Safe
  <2> QED BY <2>1, SafeKeeps DEF SameTable
<1>2. CASE NormaliseMode \/ NormalisePolicy
  <2>1. PICK f, c, label, next : /\ f \in {"state", "policy"} /\ next \in {"policy", "read"}
                                 /\ Normalise(label, f, c, next)
    BY <1>2 DEF NormaliseMode, NormalisePolicy
  <2>2. /\ pc' \in Safe
        /\ Put(f, c) \/ UNCHANGED <<file, moved, cert>>
    BY <2>1 DEF Normalise, Goto, Safe
  <2>3. Tracks
    BY <2>1, <2>2, FileNames, ReplaceTracks DEF Tracks, SameTable
  <2> QED BY <2>2, <2>3, SafeKeeps
<1>3. CASE ReadTable
  <2>1. UNCHANGED <<file, cert>> /\ pc' \in Safe
    BY <1>3 DEF ReadTable, Kept, KeptBut, Goto, Safe
  <2> QED BY <2>1, SafeKeeps DEF SameTable
<1>4. CASE WritePkgs
  <2>1. \/ Put("pkgs", norm.table.pkgs) /\ pc' = "states"
        \/ UNCHANGED <<file, moved, cert>> /\ pc' \in Safe
    BY <1>4 DEF WritePkgs, Normalise, Goto, Safe
  <2>2. UNCHANGED <<norm, certified>>
    BY <1>4 DEF WritePkgs, Normalise, Kept, KeptBut, holder
  <2>3. CASE Put("pkgs", norm.table.pkgs) /\ pc' = "states"
    <3>1. Tracks
      BY <2>3, FileNames, ReplaceTracks
    <3>2. file'["pkgs"] = norm.table.pkgs
      BY <2>3, FileNames, DiskFacts, Replaced DEF Put, Types, DiskTypes
    <3> QED BY <2>2, <2>3, <3>1, <3>2 DEF CertInv, Normal, Whole, Tracks, SameTable
  <2>4. CASE UNCHANGED <<file, moved, cert>> /\ pc' \in Safe
    BY <2>4, SafeKeeps DEF SameTable
  <2> QED BY <2>1, <2>3, <2>4
<1>5. CASE WriteStates
  <2>1. \/ Put("states", norm.table.states) /\ pc' = "base"
        \/ UNCHANGED <<file, moved, cert>> /\ pc' \in Safe
    BY <1>5 DEF WriteStates, Normalise, Goto, Safe
  <2>2. pc = "states" /\ UNCHANGED <<norm, certified, saw>>
    BY <1>5 DEF WriteStates, Normalise, Kept, KeptBut, holder
  <2>3. CASE Put("states", norm.table.states) /\ pc' = "base"
    <3>1. Tracks
      BY <2>3, FileNames, ReplaceTracks
    <3>2. file'["states"] = norm.table.states /\ file'["pkgs"] = file["pkgs"]
      BY <2>3, FileNames, DiskFacts, Replaced DEF Put, Types, DiskTypes
    <3> QED BY <2>2, <2>3, <3>1, <3>2 DEF CertInv, Normal, Whole, Tracks, SameTable
  <2>4. CASE UNCHANGED <<file, moved, cert>> /\ pc' \in Safe
    BY <2>4, SafeKeeps DEF SameTable
  <2> QED BY <2>1, <2>3, <2>4
<1>6. CASE WriteBase
  <2>1. /\ pc = "base" /\ pc' \in {"output", "release"}
        /\ UNCHANGED <<file, cert, moved, norm, certified, saw>>
    BY <1>6 DEF WriteBase, Goto, holder
  <2> QED BY <2>1 DEF CertInv, Normal, Whole
<1>7. CASE Output
  <2>1. /\ pc = "output" /\ UNCHANGED <<file, cert, moved, certified, saw>>
        /\ \/ pc' \in Safe
           \/ pc' = "generate" /\ file = saw
    BY <1>7 DEF Output, Again, Kept, KeptBut, Goto, Safe
  <2>2. <<norm.table.pkgs, norm.table.states>> \in Proper
    BY <2>1 DEF Types, Place
  <2>3. file = saw => Normal(saw)
    BY <2>1, <2>2 DEF CertInv, Normal, Whole
  <2> QED BY <2>1, <2>3 DEF CertInv, Normal, Whole, Safe
<1>8. CASE Generate
  <2>1. /\ pc = "generate" /\ pc' \in {"confirm", "release"}
        /\ UNCHANGED <<file, cert, moved, certified, saw>>
    BY <1>8 DEF Generate, GenerateTo, Goto, holder
  <2> QED BY <2>1 DEF CertInv, Normal, Whole
<1>9. CASE Confirm
  <2>1. /\ pc = "confirm" /\ UNCHANGED <<file, cert, moved, certified, saw>>
        /\ \/ pc' \in Safe
           \/ pc' = "stat" /\ file = saw
    BY <1>9 DEF Confirm, Again, Seen, Goto, Safe
  <2> QED BY <2>1 DEF CertInv, Normal, Whole, Safe
<1> QED BY <1>1, <1>2, <1>3, <1>4, <1>5, <1>6, <1>7, <1>8, <1>9 DEF Prepare

LEMMA BeginCert ==
    ASSUME Types, CertInv, Begin
    PROVE  CertInv'
<1>1. /\ pc = "idle" /\ UNCHANGED <<file, cert, certified>> /\ ~certified
      /\ req' \in Command /\ pc' = First(req'.kind)
  BY DEF Begin, disk, Goto, CertInv
<1>2. pc' \in {"backup", "mark", "match", "second", "fast"}
  BY <1>1, CommandFacts DEF First
<1>3. pc' = "backup" => req'.kind = "commit"
  BY <1>1, CommandFacts DEF First
<1>4. req'.kind = "commit" => Normal(new')
  <2>1. SUFFICES ASSUME req'.kind = "commit" PROVE Normal(new')
    OBVIOUS
  <2>2. req'.table \in Table
    BY <1>1, <2>1, CommandFacts
  <2>3. new'["pkgs"] = req'.table.pkgs /\ new'["states"] = req'.table.states
    BY <2>1, FileNames DEF Begin, NewFiles
  <2>4. /\ req'.table.pkgs \in [Slot -> Name \cup {Empty}]
        /\ req'.table.states \in [Slot -> {On, Off}]
        /\ WellFormed(req'.table.pkgs, req'.table.states)
    BY <2>2, CommandAssumption
  <2>5. req'.table.pkgs \in Pkgs
    BY <2>4 DEF Pkgs
  <2> QED BY <2>3, <2>4, <2>5, ProperFacts DEF Normal
<1> QED BY <1>1, <1>2, <1>3, <1>4 DEF CertInv, Normal, Whole

\* A write at a moment that is looked at, of what was not there before.
LEMMA EditCert ==
    ASSUME Types, CertInv, Edit, ~Repeat, EditAt \cap {"stat", "mark"} = {}
    PROVE  CertInv'
<1>1. PICK f \in File, c \in UNION {EditedPkgs, EditedStates, {Broken}} :
          /\ Replace(f, c)
          /\ pc \notin Comparing \/ c # saw[f]
  BY DEF Edit, File
<1>2. pc \notin {"stat", "mark"} /\ UNCHANGED <<pc, certified, new, saw, norm>>
  BY DEF Edit, holder
<1>3. Tracks
  BY <1>1, ReplaceTracks
<1>4. file'[f] = c /\ \A g \in File \ {f} : file'[g] = file[g]
  BY <1>1, DiskFacts, Replaced DEF Types, DiskTypes
<1>5. pc \in {"states", "base", "output"} =>
         /\ file'["pkgs"] = file["pkgs"] \/ file'["pkgs"] # saw["pkgs"]
         /\ file'["states"] = file["states"] \/ file'["states"] # saw["states"]
  BY <1>1, <1>4, FileNames DEF Comparing
<1> QED BY <1>2, <1>3, <1>5 DEF CertInv, Normal, Whole, Tracks, SameTable

LEMMA CertStarts == Init => CertInv
BY DEF Init, CertInv

LEMMA CertSteps ==
    ASSUME ~Repeat, EditAt \cap {"stat", "mark"} = {}, Types, CertInv, [Next]_vars
    PROVE  CertInv'
<1>1. CASE UNCHANGED vars
  <2>1. UNCHANGED <<file, cert, moved, pc, new, saw, norm, certified>>
    BY <1>1 DEF vars, disk, holder
  <2> QED BY <2>1 DEF CertInv, Normal, Whole
<1>2. CASE Begin
  BY <1>2, BeginCert
<1>3. CASE Release \/ Signal \/ TailSignal \/ Kill
  BY <1>3, EndingCert
<1>4. CASE CommitStep
  BY <1>4, CommitCert DEF CommitStep
<1>5. CASE Fingerprint \/ Switching
  BY <1>5, FingerprintCert, SwitchingCert
<1>6. CASE Prepare
  BY <1>6, PrepareCert
<1>7. CASE Edit
  BY <1>7, EditCert
<1> QED BY <1>1, <1>2, <1>3, <1>4, <1>5, <1>6, <1>7 DEF Next

\* The invariant behind CertificateIsSound.
LEMMA CertHolds ==
    ASSUME ~Repeat, EditAt \cap {"stat", "mark"} = {}
    PROVE  Spec => []CertInv
<1>1. Types /\ CertInv /\ [Next]_vars => CertInv'
  BY CertSteps
<1> QED BY <1>1, CertStarts, TypesHold, PTL DEF Spec

-----------------------------------------------------------------------------
(* Normalising twice is normalising once.                                  *)

\* Names that are not there are switched off.
LEMMA EmptyIsOff ==
    ASSUME NEW p, NEW s, <<p, s>> \in Proper, NEW i \in Slot, p[i] = Empty
    PROVE  s[i] = Off
<1>1. s[i] \in {On, Off} /\ (s[i] = On => p[i] \in Name)
  BY ProperFacts DEF WellFormed
<1> QED BY <1>1, TableAssumption

\* Tables that the normalisation writes as they are.
Stable(p, s, g, b) == Normalized(p, s, g, b) = [pkgs |-> p, states |-> s, default |-> FALSE]

\* A proper table is stable if the names that look new are switched as they
\* would be.
LEMMA Absorbed ==
    ASSUME NEW p, NEW s, <<p, s>> \in Proper, NEW g, NEW b,
           External(p, s, g, b) =>
               \A i \in Slot : p[i] # Empty /\ p[i] # b.pkgs[i] =>
                   s[i] = IF p[i] \in Name /\ Occurrences(p, i) = 1 THEN On ELSE Off
    PROVE  Stable(p, s, g, b)
<1>1. /\ p \in Pkgs /\ s \in [Slot -> {On, Off}] /\ WellFormed(p, s)
  BY ProperFacts
<1>2. s \in States
  BY <1>1 DEF States
<1>3. p \notin {Missing, Broken} /\ s \notin {Missing, Broken}
  BY <1>1, <1>2, TableAssumption
<1>4. ASSUME NEW i \in Slot
      PROVE  Switch(p, s, g, b, i) = s[i]
  <2>1. s[i] \in {On, Off} /\ On # Absent /\ Off # Absent
    BY <1>1 DEF On, Off, Absent
  <2>2. p[i] = Empty => s[i] = Off
    BY EmptyIsOff
  <2> QED BY <1>3, <2>1, <2>2 DEF Switch
<1>5. Switches(p, s, g, b) = s
  BY <1>1, <1>4 DEF Switches
<1> QED BY <1>1, <1>3, <1>5 DEF Normalized, Stable

\* One that nobody seems to have edited is stable.
LEMMA UneditedStable ==
    ASSUME NEW p, NEW s, <<p, s>> \in Proper, NEW g, NEW b, ~External(p, s, g, b)
    PROVE  Stable(p, s, g, b)
BY Absorbed

\* A proper table that nobody seems to have edited is left as it is.
LEMMA ProperStays ==
    ASSUME NEW p, NEW s, <<p, s>> \in Proper, NEW g, NEW b, ~External(p, s, g, b)
    PROVE  /\ Normalized(p, s, g, b).pkgs = p
           /\ Normalized(p, s, g, b).states = s
BY UneditedStable DEF Stable

\* If every valid name is switched on, none is there twice.
LEMMA Loners ==
    ASSUME NEW p, NEW s, <<p, s>> \in Proper,
           \A i \in Slot : p[i] \in Name => s[i] = On,
           NEW i \in Slot, p[i] # Empty
    PROVE  s[i] = IF p[i] \in Name /\ Occurrences(p, i) = 1 THEN On ELSE Off
<1>1. s \in [Slot -> {On, Off}] /\ WellFormed(p, s)
  BY ProperFacts
<1>2. CASE p[i] \in Name
  <2>1. {j \in Slot : p[j] = p[i]} = {i}
    BY <1>1, <1>2 DEF WellFormed
  <2>2. Occurrences(p, i) = 1
    BY <2>1, FS_Singleton DEF Occurrences
  <2> QED BY <1>2, <2>2
<1>3. CASE p[i] \notin Name
  BY <1>1, <1>3 DEF WellFormed
<1> QED BY <1>2, <1>3

LEMMA LonersStable ==
    ASSUME NEW p, NEW s, <<p, s>> \in Proper, NEW g, NEW b,
           \A i \in Slot : p[i] \in Name => s[i] = On
    PROVE  Stable(p, s, g, b)
<1>1. \A i \in Slot : p[i] # Empty =>
          s[i] = IF p[i] \in Name /\ Occurrences(p, i) = 1 THEN On ELSE Off
  BY Loners
<1> QED BY <1>1, Absorbed

\* Normalising twice is normalising once, also before the baseline is written.
LEMMA NormalizedStable ==
    ASSUME NEW p \in Pkgs \cup {Missing, Broken}, NEW s \in States \cup {Missing, Broken},
           NEW g, NEW b
    PROVE  LET n == Normalized(p, s, g, b) IN Stable(n.pkgs, n.states, g, b)
<1> DEFINE n == Normalized(p, s, g, b)
           on == Switches(p, s, g, b)
           defaults == [pkgs |-> DefaultPkgs, states |-> DefaultStates, default |-> TRUE]
           kept == [pkgs |-> p, states |-> on, default |-> FALSE]
<1> SUFFICES Stable(n.pkgs, n.states, g, b)
  OBVIOUS
<1>1. <<n.pkgs, n.states>> \in Proper
  BY NormalizedFacts
<1>2. CASE n = defaults
  <2>1. n.pkgs = DefaultPkgs /\ n.states = DefaultStates
    BY <1>2
  <2>2. \A i \in Slot : n.pkgs[i] \in Name => n.states[i] = On
    BY <2>1, DefaultsAssumption
  <2> HIDE DEF n
  <2> QED BY <1>1, <2>2, LonersStable
<1>3. CASE n = kept /\ p \notin {Missing, Broken} /\ s # Broken /\ WellFormed(p, on)
  <2>1. n.pkgs = p /\ n.states = on /\ p \in Pkgs /\ s \in States \cup {Missing}
    BY <1>3
  <2>2. on \notin {Missing, Broken}
    <3>1. on \in [Slot -> {On, Off}]
      BY <2>1, SwitchTypes
    <3>2. on \in States
      BY <3>1 DEF States
    <3> QED BY <3>2, TableAssumption
  <2>3. \A i \in Slot : on[i] = Switch(p, s, g, b, i)
    BY DEF Switches
  <2>4. CASE s = Missing
    <3>1. \A i \in Slot : p[i] \in Name => on[i] = On
      BY <2>3, <2>4, TableAssumption DEF Switch, External
    <3> HIDE DEF n, on
    <3> QED BY <1>1, <2>1, <3>1, LonersStable
  <2>5. CASE s # Missing
    <3>1. External(p, on, g, b) => External(p, s, g, b)
      BY <2>5 DEF External
    <3>2. External(p, on, g, b) =>
              \A i \in Slot : p[i] # Empty /\ p[i] # b.pkgs[i] =>
                  on[i] = IF p[i] \in Name /\ Occurrences(p, i) = 1 THEN On ELSE Off
      BY <2>3, <3>1 DEF Switch
    <3> HIDE DEF n, on
    <3> QED BY <1>1, <2>1, <3>2, Absorbed
  <2> QED BY <2>4, <2>5
<1>4. \/ n = defaults
      \/ /\ p \notin {Missing, Broken} /\ s # Broken /\ WellFormed(p, on)
         /\ n = kept
  BY DEF Normalized
<1> QED BY <1>2, <1>3, <1>4

\* The baseline is not of another table.
Based(c, b) == b = Missing \/ b.pkgs = c["pkgs"]

Settled(c, b) ==
    /\ c["state"] \in Value /\ c["policy"] \in Value
    /\ <<c["pkgs"], c["states"]>> \in Proper /\ Based(c, b)

-----------------------------------------------------------------------------
(* The passes of prepare.  Without an editor the second finds nothing to   *)
(* do, and what is generated is of the files that are there at the end.    *)

PrepareLabel == {"idle", "fast", "fastgen", "fastconfirm", "input", "mode", "policy", "read",
                 "pkgs", "states", "base", "output", "generate", "confirm", "stat", "certify",
                 "uncertify", "release"}

\* The runtime table is that of the files, and the patcher can take it.
Current(c) == /\ tmp = Runtime(c["pkgs"], c["states"])
              /\ <<c["pkgs"], c["states"]>> \in Proper

\* From the second pass on nothing changes.
Later == pass > 1 => Settled(file, base) /\ file = saw

\* Since the last look at the runtime table of the files, they are the same.
Looked ==
    /\ pc \in {"fast", "fastgen", "fastconfirm"} => pass = 1
    /\ rc = 75 => pc \in {"release", "idle"}
    /\ pc = "fastconfirm" /\ Certifies(moved) => tmp = Runtime(file["pkgs"], file["states"])
    /\ pc = "confirm" =>
          \/ tmp = Runtime(saw["pkgs"], saw["states"]) \/ ~Readable
          \/ file["pkgs"] # saw["pkgs"] \/ file["states"] # saw["states"]

PassInv ==
    /\ rc # 75
    /\ pc = "input" => (pass > 1 => Settled(file, base))
    /\ pc \in {"mode", "policy", "read", "pkgs", "states", "base", "output"} => Later
    /\ pc \in {"policy", "read", "pkgs", "states", "base", "output"} => file["state"] \in Value
    /\ pc \in {"read", "pkgs", "states", "base", "output"} => file["policy"] \in Value
    /\ pc \in {"pkgs", "states", "base"} /\ pass > 1 =>
          norm.table.pkgs = file["pkgs"] /\ norm.table.states = file["states"]
    /\ pc \in {"states", "base", "output"} => file["pkgs"] = norm.table.pkgs
    /\ pc \in {"base", "output"} => file["states"] = norm.table.states
    /\ pc = "output" => Based(file, base)
    /\ pc \in {"generate", "confirm"} => file = saw /\ Settled(file, base)
    /\ pc = "confirm" => Current(file)
    /\ pc \in {"stat", "certify", "uncertify"} => Current(file)
    /\ pc \in {"release", "idle"} /\ rc = 0 /\ sessions > 0 => Current(file)

PrepInv == req.kind = "prepare" => pc \in PrepareLabel /\ Looked /\ (~edited => PassInv)

\* Other commands.
LEMMA NotPrepare ==
    ASSUME UNCHANGED req, req.kind # "prepare"
    PROVE  PrepInv'
BY DEF PrepInv

\* From where prepare ends with an error there is nothing to show.
LEMMA EndsBadly ==
    ASSUME pc' \in {"release", "idle"}, rc' \notin {0, 75}
    PROVE  PrepInv'
BY DEF PrepInv, PrepareLabel, Looked, PassInv

\* A switch that is valid is left as it is.
LEMMA ValidStays ==
    ASSUME NEW f, NEW c \in Value
    PROVE  Valid(f, c) = c
BY DEF Valid

\* A write that is left out where nothing would change.
LEMMA PutFacts ==
    ASSUME Types, NEW f \in File, NEW c, Put(f, c)
    PROVE  /\ file'[f] = c /\ \A g \in File \ {f} : file'[g] = file[g]
           /\ file[f] = c => file' = file
<1>1. IsFiles(file)
  BY DiskFacts DEF Types, DiskTypes
<1>2. CASE Replace(f, c) /\ file[f] # c
  BY <1>1, <1>2, Replaced
<1>3. CASE file[f] = c
  BY <1>3 DEF Put
<1> QED BY <1>2, <1>3 DEF Put

\* The fast path.
LEMMA FastPasses ==
    ASSUME Types, CertInv, PrepInv, Fast \/ FastGenerate \/ FastConfirm
    PROVE  PrepInv'
<1>1. SUFFICES ASSUME req.kind = "prepare" PROVE PrepInv'
  <2>1. UNCHANGED req
    BY DEF Fast, FastGenerate, GenerateTo, FastConfirm, Kept, KeptBut, holder
  <2> QED BY <2>1, NotPrepare
<1>2. UNCHANGED <<req, pass, file, base, saw, sessions>> /\ Looked
  BY <1>1 DEF Fast, FastGenerate, GenerateTo, FastConfirm, Kept, KeptBut, Seen, holder, PrepInv
<1>3. pc \in {"fast", "fastgen", "fastconfirm"} /\ pass = 1 /\ rc # 75 /\ ~(pass > 1)
  BY <1>2 DEF Fast, FastGenerate, FastConfirm, Looked
<1>4. CASE Fast
  <2>1. UNCHANGED <<rc, edited>> /\ pc' \in {"fastgen", "input"}
    BY <1>4 DEF Fast, Goto, Kept, KeptBut
  <2> QED BY <1>1, <1>2, <1>3, <2>1 DEF PrepInv, Looked, PassInv, PrepareLabel
<1>5. CASE FastGenerate
  <2>1. /\ UNCHANGED <<edited, moved>>
        /\ \/ pc' = "input" /\ UNCHANGED rc
           \/ pc' = "release" /\ rc' = 1
           \/ /\ pc' = "fastconfirm" /\ UNCHANGED rc
              /\ tmp' = Runtime(file["pkgs"], file["states"])
    BY <1>5 DEF FastGenerate, GenerateTo, Goto, history
  <2> QED BY <1>1, <1>2, <1>3, <2>1 DEF PrepInv, Looked, PassInv, PrepareLabel
<1>6. CASE FastConfirm
  <2>1. UNCHANGED <<rc, tmp>> /\ pc = "fastconfirm"
        /\ \/ pc' = "input" /\ (~edited' => ~edited)
           \/ pc' = "release" /\ moved = {} /\ Matches
    BY <1>6 DEF FastConfirm, Goto, Kept, KeptBut, Seen
  <2>2. CASE pc' = "input" /\ (~edited' => ~edited)
    BY <1>1, <1>2, <1>3, <2>1, <2>2 DEF PrepInv, Looked, PassInv, PrepareLabel
  <2>3. CASE pc' = "release" /\ moved = {} /\ Matches
    <3>1. Normal(file) /\ Whole(file)
      BY <2>3, MatchesNormal, FileNames DEF Matches, Whole
    <3>2. Current(file)
      BY <1>2, <2>1, <2>3, <3>1 DEF Looked, Certifies, Current, Normal
    <3>3. Current(file)'
      BY <1>2, <2>1, <3>2 DEF Current
    <3> QED BY <1>1, <1>2, <1>3, <2>1, <2>3, <3>3 DEF PrepInv, Looked, PassInv, PrepareLabel
  <2> QED BY <2>1, <2>2, <2>3
<1> QED BY <1>4, <1>5, <1>6

\* The two signatures and the two switches.
LEMMA SwitchPasses ==
    ASSUME Types, PrepInv, Input \/ NormaliseMode \/ NormalisePolicy
    PROVE  PrepInv'
<1>1. SUFFICES ASSUME req.kind = "prepare" PROVE PrepInv'
  <2>1. UNCHANGED req
    BY DEF Input, NormaliseMode, NormalisePolicy, Normalise, Kept, KeptBut, holder
  <2> QED BY <2>1, NotPrepare
<1>2. UNCHANGED <<req, pass, base, sessions, edited>> /\ Looked /\ (~edited => PassInv)
  BY <1>1 DEF Input, NormaliseMode, NormalisePolicy, Normalise, Kept, KeptBut, holder, PrepInv
<1>3. CASE Input
  <2>1. pc = "input" /\ pc' = "mode" /\ saw' = file /\ UNCHANGED <<file, rc>>
    BY <1>3 DEF Input, Goto
  <2>2. ~edited => Later'
    BY <1>2, <2>1 DEF PassInv, Later, Settled, Based
  <2> QED BY <1>1, <1>2, <2>1, <2>2 DEF PrepInv, Looked, PassInv, PrepareLabel
<1>4. ASSUME NEW f \in {"state", "policy"}, NEW next,
             Normalise(pc, f, Valid(f, file[f]), next)
      PROVE  \/ pc' = "release" /\ rc' = 1
             \/ /\ pc' = next /\ UNCHANGED <<rc, saw>>
                /\ file'[f] \in Value /\ \A g \in File \ {f} : file'[g] = file[g]
                /\ file[f] \in Value => file' = file
  <2>1. \/ pc' = "release" /\ rc' = 1
        \/ /\ pc' = next /\ UNCHANGED <<rc, saw>> /\ Put(f, Valid(f, file[f]))
    BY <1>4 DEF Normalise, Goto, Kept, KeptBut, holder
  <2>2. f \in File
    BY FileNames
  <2> QED BY <2>1, <2>2, PutFacts, ValidFits, ValidStays
<1>5. CASE NormaliseMode
  <2>1. pc = "mode" /\ Normalise(pc, "state", Valid("state", file["state"]), "policy")
    BY <1>5 DEF NormaliseMode, Normalise
  <2>2. CASE pc' = "release" /\ rc' = 1
    BY <2>2, EndsBadly
  <2>3. CASE /\ pc' = "policy" /\ UNCHANGED <<rc, saw>> /\ file'["state"] \in Value
             /\ file["state"] \in Value => file' = file
    <3>1. ~edited => Later'
      BY <1>2, <2>1, <2>3 DEF PassInv, Later, Settled, Based
    <3> QED BY <1>1, <1>2, <2>1, <2>3, <3>1 DEF PrepInv, Looked, PassInv, PrepareLabel
  <2> QED BY <1>4, <2>1, <2>2, <2>3
<1>6. CASE NormalisePolicy
  <2>1. pc = "policy" /\ Normalise(pc, "policy", Valid("policy", file["policy"]), "read")
    BY <1>6 DEF NormalisePolicy, Normalise
  <2>2. CASE pc' = "release" /\ rc' = 1
    BY <2>2, EndsBadly
  <2>3. CASE /\ pc' = "read" /\ UNCHANGED <<rc, saw>> /\ file'["policy"] \in Value
             /\ file'["state"] = file["state"]
             /\ file["policy"] \in Value => file' = file
    <3>1. ~edited => Later'
      BY <1>2, <2>1, <2>3 DEF PassInv, Later, Settled, Based
    <3> QED BY <1>1, <1>2, <2>1, <2>3, <3>1 DEF PrepInv, Looked, PassInv, PrepareLabel
  <2> QED BY <1>4, <2>1, <2>2, <2>3, FileNames
<1> QED BY <1>3, <1>5, <1>6

\* The table.
LEMMA TablePasses ==
    ASSUME Types, PrepInv, ReadTable \/ WritePkgs \/ WriteStates \/ WriteBase
    PROVE  PrepInv'
<1>1. SUFFICES ASSUME req.kind = "prepare" PROVE PrepInv'
  <2>1. UNCHANGED req
    BY DEF ReadTable, WritePkgs, WriteStates, WriteBase, Normalise, Kept, KeptBut, holder
  <2> QED BY <2>1, NotPrepare
<1>2. UNCHANGED <<req, pass, saw, sessions, edited>> /\ Looked /\ (~edited => PassInv)
  BY <1>1 DEF ReadTable, WritePkgs, WriteStates, WriteBase, Normalise, Kept, KeptBut, holder,
              history, PrepInv
<1>3. CASE ReadTable
  <2>1. /\ pc = "read" /\ pc' = "pkgs" /\ UNCHANGED <<file, rc, base>>
        /\ norm' = [table |-> Normalized(file["pkgs"], file["states"], Generation, base),
                    generation |-> Generation]
    BY <1>3 DEF ReadTable, Goto, Kept, KeptBut
  <2>2. ASSUME ~edited, pass > 1
        PROVE  norm'.table.pkgs = file["pkgs"] /\ norm'.table.states = file["states"]
    <3>1. Settled(file, base)
      BY <1>2, <2>1, <2>2 DEF PassInv, Later
    <3>2. ~External(file["pkgs"], file["states"], Generation, base)
      BY <3>1 DEF Settled, Based, External
    <3>3. norm'.table = Normalized(file["pkgs"], file["states"], Generation, base)
      BY <2>1
    <3> QED BY <3>1, <3>2, <3>3, ProperStays DEF Settled
  <2>3. ~edited => Later'
    BY <1>2, <2>1 DEF PassInv, Later, Settled, Based
  <2> QED BY <1>1, <1>2, <2>1, <2>2, <2>3 DEF PrepInv, Looked, PassInv, PrepareLabel
<1>4. CASE WritePkgs
  <2>1. /\ pc = "pkgs" /\ UNCHANGED <<base, norm>>
        /\ \/ pc' = "release" /\ rc' = 1
           \/ pc' = "states" /\ UNCHANGED rc /\ Put("pkgs", norm.table.pkgs)
    BY <1>4 DEF WritePkgs, Normalise, Goto, Kept, KeptBut, holder
  <2>2. CASE pc' = "release" /\ rc' = 1
    BY <2>2, EndsBadly
  <2>3. CASE pc' = "states" /\ UNCHANGED rc /\ Put("pkgs", norm.table.pkgs)
    <3>1. /\ file'["pkgs"] = norm.table.pkgs /\ file'["state"] = file["state"]
          /\ file'["policy"] = file["policy"] /\ file'["states"] = file["states"]
          /\ file["pkgs"] = norm.table.pkgs => file' = file
      BY <2>3, PutFacts, FileNames
    <3>2. ~edited => Later'
      BY <1>2, <2>1, <3>1 DEF PassInv, Later, Settled, Based
    <3> QED BY <1>1, <1>2, <2>1, <2>3, <3>1, <3>2 DEF PrepInv, Looked, PassInv, PrepareLabel
  <2> QED BY <2>1, <2>2, <2>3
<1>5. CASE WriteStates
  <2>1. /\ pc = "states" /\ UNCHANGED <<base, norm>>
        /\ \/ pc' = "release" /\ rc' = 1
           \/ pc' = "base" /\ UNCHANGED rc /\ Put("states", norm.table.states)
    BY <1>5 DEF WriteStates, Normalise, Goto, Kept, KeptBut, holder
  <2>2. CASE pc' = "release" /\ rc' = 1
    BY <2>2, EndsBadly
  <2>3. CASE pc' = "base" /\ UNCHANGED rc /\ Put("states", norm.table.states)
    <3>1. /\ file'["states"] = norm.table.states /\ file'["state"] = file["state"]
          /\ file'["policy"] = file["policy"] /\ file'["pkgs"] = file["pkgs"]
          /\ file["states"] = norm.table.states => file' = file
      BY <2>3, PutFacts, FileNames
    <3>2. ~edited => Later'
      BY <1>2, <2>1, <3>1 DEF PassInv, Later, Settled, Based
    <3> QED BY <1>1, <1>2, <2>1, <2>3, <3>1, <3>2 DEF PrepInv, Looked, PassInv, PrepareLabel
  <2> QED BY <2>1, <2>2, <2>3
<1>6. CASE WriteBase
  <2>1. /\ pc = "base" /\ UNCHANGED <<file, norm>>
        /\ \/ pc' = "release" /\ rc' = 1
           \/ /\ pc' = "output" /\ UNCHANGED rc
              /\ base' \in {Missing, [pkgs |-> file["pkgs"], generation |-> norm.generation]}
    BY <1>6 DEF WriteBase, Goto, holder
  <2>2. CASE pc' = "release" /\ rc' = 1
    BY <2>2, EndsBadly
  <2>3. CASE /\ pc' = "output" /\ UNCHANGED rc
             /\ base' \in {Missing, [pkgs |-> file["pkgs"], generation |-> norm.generation]}
    <3>1. Based(file, base')
      BY <2>3 DEF Based
    <3>2. ~edited => Later'
      BY <1>2, <2>1, <3>1 DEF PassInv, Later, Settled, Based
    <3> QED BY <1>1, <1>2, <2>1, <2>3, <3>1, <3>2
            DEF PrepInv, Looked, PassInv, PrepareLabel, Based
  <2> QED BY <2>1, <2>2, <2>3
<1> QED BY <1>3, <1>4, <1>5, <1>6

\* The comparison after the normalisation: at the second pass at the latest the
\* files are those of the first signature.
LEMMA OutputPasses ==
    ASSUME Types, PrepInv, Output, Passes > 1
    PROVE  PrepInv'
<1>1. SUFFICES ASSUME req.kind = "prepare" PROVE PrepInv'
  <2>1. UNCHANGED req
    BY DEF Output
  <2> QED BY <2>1, NotPrepare
<1>2. /\ UNCHANGED <<req, file, base, saw, sessions, edited>> /\ Looked /\ (~edited => PassInv)
      /\ pc = "output"
  BY <1>1 DEF Output, Kept, KeptBut, PrepInv
<1>3. ~edited => Settled(file, base) /\ (pass > 1 => file = saw)
  <2>1. <<norm.table.pkgs, norm.table.states>> \in Proper
    BY <1>2 DEF Types, Place
  <2> QED BY <1>2, <2>1 DEF PassInv, Later, Settled
<1>4. CASE file = saw
  <2>1. pc' = "generate" /\ UNCHANGED <<pass, rc>>
    BY <1>4 DEF Output, Goto
  <2> QED BY <1>1, <1>2, <1>3, <1>4, <2>1
          DEF PrepInv, Looked, PassInv, PrepareLabel, Settled, Based
<1>5. CASE file # saw
  <2>1. Again
    BY <1>5 DEF Output
  <2>2. pass \in 1 .. Passes /\ Passes \in Nat
    BY BoundsAssumption DEF Types, HolderTypes
  <2>3. ~edited => pass < Passes
    BY <1>3, <1>5, <2>2
  <2>4. \/ pc' = "input" /\ UNCHANGED rc
        \/ pc' = "release" /\ edited /\ rc' = 75
    BY <2>1, <2>3 DEF Again, Goto
  <2> QED BY <1>1, <1>2, <1>3, <2>4
          DEF PrepInv, Looked, PassInv, PrepareLabel, Settled, Based
<1> QED BY <1>4, <1>5

\* The runtime table, and the last comparison.
LEMMA ResultPasses ==
    ASSUME Types, CertInv, PrepInv, Generate \/ Confirm
    PROVE  PrepInv'
<1>1. SUFFICES ASSUME req.kind = "prepare" PROVE PrepInv'
  <2>1. UNCHANGED req
    BY DEF Generate, GenerateTo, Confirm, holder
  <2> QED BY <2>1, NotPrepare
<1>2. /\ UNCHANGED <<req, file, base, saw, sessions>> /\ Looked /\ (~edited => PassInv)
  BY <1>1 DEF Generate, GenerateTo, Confirm, Seen, holder, PrepInv
<1>3. CASE Generate
  <2>1. /\ pc = "generate" /\ UNCHANGED <<edited, pass>>
        /\ \/ pc' = "release" /\ rc' = 1
           \/ /\ pc' = "confirm" /\ UNCHANGED rc
              /\ tmp' = Runtime(file["pkgs"], file["states"])
    BY <1>3 DEF Generate, GenerateTo, Goto, history, holder
  <2>2. CASE pc' = "release" /\ rc' = 1
    BY <2>2, EndsBadly
  <2>3. CASE /\ pc' = "confirm" /\ UNCHANGED rc
             /\ tmp' = Runtime(file["pkgs"], file["states"])
    BY <1>1, <1>2, <2>1, <2>3
       DEF PrepInv, Looked, PassInv, PrepareLabel, Settled, Based, Current
  <2> QED BY <2>1, <2>2, <2>3
<1>4. CASE Confirm
  <2>1. pc = "confirm" /\ UNCHANGED tmp /\ rc # 75
    BY <1>2, <1>4 DEF Confirm, Seen, Looked
  <2>2. CASE pc' = "stat"
    <3>1. file = saw /\ UNCHANGED rc /\ (~edited' => ~edited \/ Readable)
      BY <1>4, <2>2 DEF Confirm, Again, Goto, Seen
    <3>2. ~edited' => Current(file)
      <4>1. ~edited => Current(file)
        BY <1>2, <2>1 DEF PassInv
      <4>2. Readable => Current(file)
        <5>1. Normal(saw)
          BY <2>1 DEF CertInv
        <5> QED BY <1>2, <2>1, <3>1, <5>1 DEF Looked, Readable, Normal, Whole, Current
      <4> QED BY <3>1, <4>1, <4>2
    <3> QED BY <1>1, <1>2, <2>1, <2>2, <3>1, <3>2
            DEF PrepInv, Looked, PassInv, PrepareLabel, Current
  <2>3. CASE pc' = "release" /\ rc' = 1
    BY <2>3, EndsBadly
  <2>4. CASE Again /\ file # saw
    <3>1. edited /\ edited'
      <4>1. edited
        BY <1>2, <2>1, <2>4 DEF PassInv
      <4>2. pc' # "stat"
        BY <2>4 DEF Again, Goto
      <4> QED BY <1>4, <4>1, <4>2 DEF Confirm, Seen
    <3>2. \/ pc' = "input" /\ UNCHANGED rc
          \/ pc' = "release" /\ rc' = 75
      BY <2>4 DEF Again, Goto
    <3> QED BY <2>1, <3>1, <3>2 DEF PrepInv, Looked, PrepareLabel
  <2> QED BY <1>4, <2>2, <2>3, <2>4 DEF Confirm, Goto
<1> QED BY <1>3, <1>4

\* The certificate and the release change nothing of it.
LEMMA EndPasses ==
    ASSUME Types, PrepInv, Fingerprint \/ Release \/ Kill \/ TailEnd
    PROVE  PrepInv'
<1>1. SUFFICES ASSUME req.kind = "prepare" PROVE PrepInv'
  <2>1. UNCHANGED req
    BY DEF Fingerprint, Stat, Certify, Uncertify, Release, Kill, TailEnd, End, holder
  <2> QED BY <2>1, NotPrepare
<1>2. pc \in PrepareLabel /\ Looked /\ (~edited => PassInv)
  BY <1>1 DEF PrepInv
<1>3. CASE Fingerprint
  <2>1. /\ UNCHANGED <<req, file, base, saw, sessions, edited, tmp, rc, pass>>
        /\ pc \in {"stat", "certify", "uncertify"}
        /\ pc' \in {"certify", "uncertify", "release"}
    BY <1>1, <1>3 DEF Fingerprint, Stat, Certify, Uncertify, Kept, KeptBut, holder, Goto, Finish
  <2> QED BY <1>1, <1>2, <2>1 DEF PrepInv, Looked, PassInv, PrepareLabel, Current
<1>4. CASE Release
  <2>1. /\ UNCHANGED <<req, file, sessions, edited, tmp>> /\ pc = "release" /\ pc' = "idle"
        /\ \/ rc' = rc
           \/ rc' = IF rc = 0 THEN 1 ELSE rc
    BY <1>1, <1>4 DEF Release, End, Goto, disk
  <2>2. (rc = 75 <=> rc' = 75) /\ (rc' = 0 => rc = 0)
    BY <2>1
  <2> QED BY <1>1, <1>2, <2>1, <2>2 DEF PrepInv, Looked, PassInv, PrepareLabel, Current
<1>5. CASE Kill
  <2>1. pc' = "idle" /\ rc' = 137
    BY <1>5 DEF Kill, End, Goto
  <2> QED BY <2>1, EndsBadly
<1>6. CASE TailEnd
  <2>1. /\ UNCHANGED <<file, base, cert, tmp, moved, pc, rc, sessions, edited>>
        /\ UNCHANGED <<at, req, saw, norm, pass>>
    BY <1>6 DEF TailEnd, disk, holder, spent, history
  <2> QED BY <1>1, <1>2, <2>1
          DEF PrepInv, Looked, PassInv, PrepareLabel, Current, Readable, Settled, Based, Later
<1> QED BY <1>3, <1>4, <1>5, <1>6

\* Whoever else writes is seen.
LEMMA OthersPass ==
    ASSUME Types, PrepInv, Edit \/ TailSignal, ~Repeat
    PROVE  PrepInv'
<1>1. SUFFICES ASSUME req.kind = "prepare" PROVE PrepInv'
  <2>1. UNCHANGED req
    BY DEF Edit, TailSignal, holder
  <2> QED BY <2>1, NotPrepare
<1>2. /\ pc \in PrepareLabel /\ Looked /\ edited'
      /\ UNCHANGED <<pc, rc, req, pass, saw, tmp>>
  BY <1>1 DEF PrepInv, Edit, TailSignal, holder
<1>3. CASE Edit
  <2>1. PICK f \in File, c \in UNION {EditedPkgs, EditedStates, {Broken}} :
            Replace(f, c) /\ (pc \notin Comparing \/ c # saw[f])
    BY <1>3 DEF Edit, File
  <2>2. Tracks
    BY <2>1, ReplaceTracks
  <2>3. file'[f] = c /\ \A g \in File \ {f} : file'[g] = file[g]
    BY <2>1, DiskFacts, Replaced DEF Types, DiskTypes
  <2>4. pc = "confirm" =>
           /\ file'["pkgs"] = file["pkgs"] \/ file'["pkgs"] # saw["pkgs"]
           /\ file'["states"] = file["states"] \/ file'["states"] # saw["states"]
           /\ SameTable \/ file'["pkgs"] # saw["pkgs"] \/ file'["states"] # saw["states"]
    BY <2>1, <2>3, FileNames DEF Comparing, SameTable
  <2>5. Looked'
    BY <1>2, <2>2, <2>4 DEF Looked, Readable, Tracks, SameTable, Certifies
  <2> QED BY <1>1, <1>2, <2>5 DEF PrepInv
<1>4. CASE TailSignal
  <2>1. tail \in SUBSET File /\ Remove(tail)
    BY <1>4 DEF TailSignal, Types, DiskTypes, Marks
  <2>2. Tracks /\ \A f \in File : file'[f] \in {file[f], Missing}
    BY <2>1, RemoveTracks
  <2>3. SameTable \/ ~Readable'
    BY <2>2, FileNames DEF SameTable, Readable
  <2>4. Looked'
    BY <1>2, <2>2, <2>3 DEF Looked, Readable, Tracks, SameTable, Certifies
  <2> QED BY <1>1, <1>2, <2>4 DEF PrepInv
<1> QED BY <1>3, <1>4

\* Other commands and a new one.
LEMMA StartsPass ==
    ASSUME Types, PrepInv,
           Begin \/ Switching \/ Signal \/ Restore \/ Late
             \/ Backup \/ Move \/ Chmod \/ Compare \/ Cleanup
    PROVE  PrepInv'
<1>1. CASE Begin
  <2>1. req'.kind = "prepare" => /\ pc' = "fast" /\ pass' = 1 /\ rc' = 0
    BY <1>1 DEF Begin, First, Goto
  <2> QED BY <2>1 DEF PrepInv, Looked, PassInv, PrepareLabel
<1>2. CASE Signal
  <2>1. UNCHANGED req /\ req.kind # "prepare"
    BY <1>2 DEF Signal
  <2> QED BY <2>1, NotPrepare
<1>3. CASE Switching
  <2>1. UNCHANGED req /\ pc \in {"mark", "match", "first", "second", "unfirst", "unsecond", "recheck"}
    BY <1>3 DEF Switching, Mark, Match, MarkTable, WriteFirst, WriteSecond, UnwriteFirst,
                UnwriteSecond, Recheck, holder
  <2> QED BY <2>1, NotPrepare DEF PrepInv, PrepareLabel
<1>4. CASE Restore \/ Late \/ Backup \/ Move \/ Chmod \/ Compare \/ Cleanup
  <2>1. UNCHANGED req /\ pc \in {"restore", "late", "backup", "move", "chmod", "compare", "cleanup"}
    BY <1>4 DEF Restore, Late, Backup, Move, Chmod, Compare, Cleanup, End, KeptBut, holder
  <2> QED BY <2>1, NotPrepare DEF PrepInv, PrepareLabel
<1> QED BY <1>1, <1>2, <1>3, <1>4

\* The invariant behind PrepareSettlesFiles.
LEMMA PrepHolds ==
    ASSUME ~Repeat, EditAt \cap {"stat", "mark"} = {}, Passes > 1
    PROVE  Spec => []PrepInv
<1>1. Init => PrepInv
  BY DEF Init, PrepInv, Looked, PassInv, PrepareLabel
<1>2. Types /\ CertInv /\ PrepInv /\ [Next]_vars => PrepInv'
  <2>1. SUFFICES ASSUME Types, CertInv, PrepInv, [Next]_vars
                 PROVE  PrepInv'
    OBVIOUS
  <2>2. CASE UNCHANGED vars
    <3>1. /\ UNCHANGED <<file, base, cert, tmp, moved, pc, rc, sessions, edited>>
          /\ UNCHANGED <<at, req, saw, norm, pass>>
      BY <2>2 DEF vars, disk, holder, spent, history
    <3> QED BY <2>1, <3>1 DEF PrepInv, Looked, PassInv, PrepareLabel, Current, Readable,
                              Settled, Based, Later
  <2>3. CASE Begin \/ Switching \/ Signal
    BY <2>1, <2>3, StartsPass
  <2>4. CASE Release \/ Kill \/ Fingerprint
    BY <2>1, <2>4, EndPasses
  <2>5. CASE CommitStep
    BY <2>1, <2>5, StartsPass, EndPasses DEF CommitStep
  <2>6. CASE Prepare
    BY <2>1, <2>6, FastPasses, SwitchPasses, TablePasses, OutputPasses, ResultPasses
       DEF Prepare
  <2>7. CASE Edit \/ TailSignal
    BY <2>1, <2>7, OthersPass
  <2> QED BY <2>1, <2>2, <2>3, <2>4, <2>5, <2>6, <2>7 DEF Next
<1> QED BY <1>1, <1>2, TypesHold, CertHolds, PTL DEF Spec

\* A prepare that nobody interferes with, or that has seen at its last look that
\* nothing was changed, does not give up after its passes, and if it succeeds
\* the runtime table is that of the files and one the patcher can take: for
\* every table, whatever earlier commands, edits, faults and kills left, as long
\* as there are two passes.
THEOREM PrepareSettlesFiles ==
    ASSUME ~Repeat, EditAt \cap {"stat", "mark"} = {}, Passes > 1
    PROVE  Spec => []PreparedIsCurrent
<1>1. PrepInv => PreparedIsCurrent
  BY ProperFacts DEF PrepInv, PassInv, PreparedIsCurrent, Done, Current
<1> QED BY <1>1, PrepHolds, PTL

-----------------------------------------------------------------------------
(* What the web UI has switched.  A commit's generation is newer than the  *)
(* baseline's, so that no prepare takes its table for an edit.             *)



Unedited(c, b) == b = Missing \/ b.pkgs = c["pkgs"] \/ b.generation # GenOf(c)

GenInv ==
    /\ GenOf(file) <= sessions /\ GenOf(old) <= sessions
    /\ base # Missing => base.generation <= sessions
    /\ pc \in {"pkgs", "states", "base"} => norm.generation <= sessions
    /\ pc \in {"backup", "move", "chmod", "compare", "cleanup", "restore", "late"} =>
          req.kind = "commit"
    /\ req.kind = "commit" =>
          /\ sessions > 0 /\ new["generation"] \in Nat /\ new["generation"] <= sessions
          /\ base # Missing => base.generation < new["generation"]
          /\ <<new["pkgs"], new["states"]>> \in Proper
          /\ ~edited /\ pc \notin {"idle", "restore", "late"} => broke \subseteq BackedUp

\* The table that was asked for is this one, and no prepare takes it for an edit.
Asks(c) == asked = [pkgs |-> c["pkgs"], states |-> c["states"]]
Holds(c) == Asks(c) /\ <<c["pkgs"], c["states"]>> \in Proper /\ Unedited(c, base)

WebInv ==
    asked # Missing =>
        /\ ~edited /\ pc # "late"
        /\ req.kind = "commit" => broke \subseteq BackedUp
        /\ req.kind = "commit" /\ pc # "idle" => Holds(entry)
        /\ req.kind # "commit" \/ pc = "idle" => Holds(file)
        /\ pc \in {"pkgs", "states", "base"} =>
              norm.table.pkgs = asked.pkgs /\ norm.table.states = asked.states

Both == GenInv /\ WebInv

LEMMA GenTypes ==
    ASSUME Types
    PROVE  GenOf(file) \in Nat /\ GenOf(old) \in Nat /\ GenOf(new) \in Nat /\ sessions \in Nat
BY DEF Types, HolderTypes, GenOf

\* Only a commit, its abort and the removals touch the generation.
LEMMA GenKept ==
    ASSUME Types, NEW f \in File \ {"generation"}, NEW c, Replace(f, c) \/ Put(f, c)
    PROVE  file'["generation"] = file["generation"]
<1>1. IsFiles(file)
  BY DiskFacts DEF Types, DiskTypes
<1>2. CASE Replace(f, c)
  BY <1>1, <1>2, Replaced, FileNames
<1>3. CASE UNCHANGED file
  BY <1>3
<1> QED BY <1>2, <1>3 DEF Put

LEMMA GenReplaced ==
    ASSUME Types, NEW f \in File, NEW c, NEW n \in Nat, Replace(f, c), GenOf(file) <= n,
           f = "generation" /\ c \in Nat => c <= n
    PROVE  GenOf(file') <= n
<1>1. IsFiles(file)
  BY DiskFacts DEF Types, DiskTypes
<1>2. file'[f] = c /\ (f # "generation" => file'["generation"] = file["generation"])
  BY <1>1, Replaced, FileNames
<1> QED BY <1>2 DEF GenOf

LEMMA GenRemoved ==
    ASSUME Types, NEW files \in SUBSET File, Remove(files), NEW n \in Nat, GenOf(file) <= n
    PROVE  GenOf(file') <= n
<1>1. file'["generation"] \in {file["generation"], Missing}
  BY RemoveTracks, FileNames
<1> QED BY <1>1, TableAssumption DEF GenOf

\* A switch leaves the table and the generation alone.
LEMMA SwitchFacts ==
    ASSUME Types, Inductive, Switching
    PROVE  /\ req.kind # "commit" /\ UNCHANGED <<req, new, base, sessions, asked, edited>>
           /\ SameTable /\ file'["generation"] = file["generation"]
           /\ old'["generation"] = old["generation"]
           /\ pc' \in {"mark", "first", "second", "recheck", "stat", "certify", "uncertify",
                       "unfirst", "unsecond", "release"}
<1>1. UNCHANGED <<req, new, base, sessions, asked, edited>>
  BY DEF Switching, Mark, Match, MarkTable, WriteFirst, WriteSecond, UnwriteFirst,
         UnwriteSecond, Recheck, Kept, KeptBut, holder
<1>2. req.kind # "commit"
  <2>1. pc \notin CommitLabel
    BY DEF Switching, Mark, Match, MarkTable, WriteFirst, WriteSecond, UnwriteFirst,
           UnwriteSecond, Recheck, CommitLabel
  <2> QED BY <2>1, Elsewhere
<1>3. pc' \in {"mark", "first", "second", "recheck", "stat", "certify", "uncertify",
               "unfirst", "unsecond", "release"}
  BY DEF Switching, Mark, Match, MarkTable, WriteFirst, WriteSecond, UnwriteFirst,
         UnwriteSecond, Recheck, Goto, Otherwise
<1>4. old'["generation"] = old["generation"]
  <2>1. CASE Mark
    <3>1. old \in [File -> Content]
      BY DEF Types, HolderTypes, Disk
    <3> QED BY <2>1, <3>1, FileNames DEF Mark
  <2>2. CASE Match \/ MarkTable \/ Recheck
    BY <2>2 DEF Match, MarkTable, Recheck, holder
  <2>3. CASE WriteFirst \/ WriteSecond \/ UnwriteFirst \/ UnwriteSecond
    BY <2>3 DEF WriteFirst, WriteSecond, UnwriteFirst, UnwriteSecond, holder
  <2> QED BY <2>1, <2>2, <2>3 DEF Switching
<1>5. SameTable /\ file'["generation"] = file["generation"]
  <2>1. ASSUME NEW f \in {"state", "policy"}, NEW c, Put(f, c)
        PROVE  SameTable /\ file'["generation"] = file["generation"]
    <3>1. f \in File /\ f \notin TableFile /\ f # "generation"
      BY FileNames DEF TableFile
    <3> QED BY <2>1, <3>1, ReplaceTracks, GenKept
  <2>2. pc = "first" => FirstFile \in {"state", "policy"}
    BY CommandFacts DEF Types, Place, FirstFile
  <2>3. pc = "second" => SecondFile \in {"state", "policy"}
    BY CommandFacts DEF Types, Place, SecondFile
  <2>4. \/ UNCHANGED file
        \/ pc = "first" /\ Put(FirstFile, FirstValue)
        \/ pc = "second" /\ Put(SecondFile, SecondValue)
        \/ Put("state", old["state"]) \/ Put("policy", old["policy"])
    BY DEF Switching, Mark, Match, MarkTable, WriteFirst, WriteSecond, UnwriteFirst,
           UnwriteSecond, Recheck
  <2>5. CASE UNCHANGED file
    BY <2>5 DEF SameTable
  <2> QED BY <2>1, <2>2, <2>3, <2>4, <2>5
<1> QED BY <1>1, <1>2, <1>3, <1>4, <1>5

\* What was asked for stays through a switch.
LEMMA SwitchWeb ==
    ASSUME Types, Inductive, Both, Switching
    PROVE  Both'
<1>1. /\ req.kind # "commit" /\ UNCHANGED <<req, new, base, sessions, asked, edited>>
      /\ SameTable /\ file'["generation"] = file["generation"]
      /\ old'["generation"] = old["generation"]
      /\ pc' \in {"mark", "first", "second", "recheck", "stat", "certify", "uncertify",
                  "unfirst", "unsecond", "release"}
  BY SwitchFacts
<1>2. GenInv'
  BY <1>1 DEF Both, GenInv, GenOf
<1>3. WebInv'
  BY <1>1 DEF Both, WebInv, Holds, Asks, Unedited, GenOf, SameTable
<1> QED BY <1>2, <1>3 DEF Both

\* Prepare leaves the generation alone.
LEMMA PrepareFacts ==
    ASSUME Types, Inductive, Prepare
    PROVE  /\ req.kind # "commit" /\ UNCHANGED <<req, new, old, sessions, asked>>
           /\ file'["generation"] = file["generation"] /\ (~edited => ~edited')
<1>1. UNCHANGED <<req, new, old, sessions, asked>> /\ (~edited => ~edited')
  <2>1. CASE Fast \/ Input \/ ReadTable \/ Output
    BY <2>1 DEF Fast, Input, ReadTable, Output, Kept, KeptBut, holder
  <2>2. CASE FastConfirm \/ Confirm
    BY <2>2 DEF FastConfirm, Confirm, Seen, holder
  <2>3. CASE FastGenerate \/ Generate \/ WriteBase
    BY <2>3 DEF FastGenerate, Generate, GenerateTo, WriteBase, holder, history
  <2>4. CASE NormaliseMode \/ NormalisePolicy \/ WritePkgs \/ WriteStates
    BY <2>4 DEF NormaliseMode, NormalisePolicy, WritePkgs, WriteStates, Normalise, Kept,
                KeptBut, holder
  <2> QED BY <2>1, <2>2, <2>3, <2>4 DEF Prepare
<1>2. pc \notin CommitLabel
  BY DEF Prepare, Fast, FastGenerate, FastConfirm, Input, NormaliseMode, NormalisePolicy,
         ReadTable, WritePkgs, WriteStates, WriteBase, Output, Generate, Confirm, Normalise,
         CommitLabel
<1>3. UNCHANGED file \/ \E f \in {"state", "policy", "pkgs", "states"} : \E c : Put(f, c)
  BY DEF Prepare, Fast, FastGenerate, FastConfirm, Input, NormaliseMode, NormalisePolicy,
         ReadTable, WritePkgs, WriteStates, WriteBase, Output, Generate, Confirm, GenerateTo,
         Normalise
<1>4. file'["generation"] = file["generation"]
  BY <1>3, FileNames, GenKept
<1> QED BY <1>1, <1>2, <1>4, Elsewhere

\* So does a prepare: it finds nothing to change in that table.
LEMMA PrepareWeb ==
    ASSUME Types, Inductive, Both, Prepare
    PROVE  Both'
<1>1. /\ req.kind # "commit" /\ UNCHANGED <<req, new, old, sessions, asked>>
      /\ file'["generation"] = file["generation"] /\ (~edited => ~edited')
  BY PrepareFacts
<1>2. GenOf(file) <= sessions /\ GenOf(file) \in Nat /\ Generation = GenOf(file)
  BY GenTypes DEF Both, GenInv, Generation, GenOf
<1>3. asked # Missing => ~edited /\ Holds(file)
  BY <1>1 DEF Both, WebInv
<1>4. CASE ReadTable
  <2>1. /\ pc' = "pkgs" /\ UNCHANGED <<file, base>>
        /\ norm' = [table |-> Normalized(file["pkgs"], file["states"], Generation, base),
                    generation |-> Generation]
    BY <1>4 DEF ReadTable, Goto, Kept, KeptBut
  <2>2. asked # Missing =>
           norm'.table.pkgs = asked.pkgs /\ norm'.table.states = asked.states
    <3>1. SUFFICES ASSUME asked # Missing
                   PROVE  norm'.table.pkgs = asked.pkgs /\ norm'.table.states = asked.states
      OBVIOUS
    <3>2. Holds(file)
      BY <1>3, <3>1
    <3>3. ~External(file["pkgs"], file["states"], Generation, base)
      BY <1>2, <3>2 DEF Holds, Unedited, External
    <3>4. /\ Normalized(file["pkgs"], file["states"], Generation, base).pkgs = file["pkgs"]
          /\ Normalized(file["pkgs"], file["states"], Generation, base).states = file["states"]
      BY <3>2, <3>3, ProperStays DEF Holds
    <3>5. asked.pkgs = file["pkgs"] /\ asked.states = file["states"]
      BY <3>2 DEF Holds, Asks
    <3>6. norm'.table = Normalized(file["pkgs"], file["states"], Generation, base)
      BY <2>1
    <3> QED BY <3>4, <3>5, <3>6
  <2>3. norm'.generation <= sessions
    BY <1>2, <2>1
  <2>4. GenInv'
    BY <1>1, <2>1, <2>3 DEF Both, GenInv, GenOf
  <2>5. WebInv'
    BY <1>1, <1>3, <2>1, <2>2 DEF Both, WebInv, Holds, Asks, Unedited, GenOf
  <2> QED BY <2>4, <2>5 DEF Both
<1>5. CASE WritePkgs \/ WriteStates
  <2>1. /\ pc \in {"pkgs", "states"} /\ pc' \in {"states", "base", "release"}
        /\ UNCHANGED <<base, norm>>
        /\ \/ UNCHANGED file
           \/ pc = "pkgs" /\ Put("pkgs", norm.table.pkgs)
           \/ pc = "states" /\ Put("states", norm.table.states)
    BY <1>5 DEF WritePkgs, WriteStates, Normalise, Goto, Kept, KeptBut, holder
  <2>2. asked # Missing => UNCHANGED file
    <3>1. SUFFICES ASSUME asked # Missing PROVE UNCHANGED file
      OBVIOUS
    <3>2. file["pkgs"] = norm.table.pkgs /\ file["states"] = norm.table.states
      BY <1>3, <2>1, <3>1 DEF Both, WebInv, Holds, Asks
    <3> QED BY <2>1, <3>2 DEF Put
  <2>3. GenInv'
    BY <1>1, <2>1 DEF Both, GenInv, GenOf
  <2>4. WebInv'
    BY <1>1, <1>3, <2>1, <2>2 DEF Both, WebInv, Holds, Asks, Unedited, GenOf
  <2> QED BY <2>3, <2>4 DEF Both
<1>6. CASE WriteBase
  <2>1. /\ pc = "base" /\ pc' \in {"output", "release"} /\ UNCHANGED file
        /\ \/ base' \in {base, Missing}
           \/ base' = [pkgs |-> file["pkgs"], generation |-> norm.generation]
    BY <1>6 DEF WriteBase, Goto
  <2>2. norm.generation <= sessions
    BY <2>1 DEF Both, GenInv
  <2>3. GenInv'
    BY <1>1, <2>1, <2>2 DEF Both, GenInv, GenOf
  <2>4. WebInv'
    BY <1>1, <1>3, <2>1 DEF Both, WebInv, Holds, Asks, Unedited, GenOf
  <2> QED BY <2>3, <2>4 DEF Both
<1>7. CASE NormaliseMode \/ NormalisePolicy
  <2>1. /\ pc' \in {"policy", "read", "release"} /\ UNCHANGED base
        /\ UNCHANGED file \/ \E f \in {"state", "policy"} : \E c : Put(f, c)
    BY <1>7 DEF NormaliseMode, NormalisePolicy, Normalise, Goto, Kept, KeptBut
  <2>2. SameTable
    <3>1. ASSUME NEW f \in {"state", "policy"}, NEW c, Put(f, c) PROVE SameTable
      <4>1. f \in File /\ f \notin TableFile
        BY FileNames DEF TableFile
      <4> QED BY <3>1, <4>1, ReplaceTracks
    <3> QED BY <2>1, <3>1 DEF SameTable
  <2>3. GenInv'
    BY <1>1, <2>1 DEF Both, GenInv, GenOf
  <2>4. WebInv'
    BY <1>1, <1>3, <2>1, <2>2 DEF Both, WebInv, Holds, Asks, Unedited, GenOf, SameTable
  <2> QED BY <2>3, <2>4 DEF Both
<1>8. CASE Fast \/ FastGenerate \/ FastConfirm \/ Input \/ Output \/ Generate \/ Confirm
  <2>1. UNCHANGED <<file, base>>
    BY <1>8 DEF Fast, FastGenerate, FastConfirm, Input, Output, Generate, Confirm, GenerateTo,
                Kept, KeptBut, Seen
  <2>2. pc' \in {"fastgen", "fastconfirm", "input", "mode", "generate", "confirm", "stat", "release"}
    BY <1>8 DEF Fast, FastGenerate, FastConfirm, Input, Output, Generate, Confirm, GenerateTo,
                Again, Goto
  <2>3. GenInv'
    BY <1>1, <2>1, <2>2 DEF Both, GenInv, GenOf
  <2>4. WebInv'
    BY <1>1, <1>3, <2>1, <2>2 DEF Both, WebInv, Holds, Asks, Unedited, GenOf
  <2> QED BY <2>3, <2>4 DEF Both
<1> QED BY <1>4, <1>5, <1>6, <1>7, <1>8 DEF Prepare

\* Editors, signals and kills end what was asked.
LEMMA OthersWeb ==
    ASSUME Types, Both, Edit \/ Signal \/ TailSignal \/ Kill
    PROVE  Both'
<1>1. WebInv'
  BY DEF Edit, Signal, TailSignal, Kill, WebInv
<1>2. UNCHANGED <<req, new, base, sessions>>
  <2>1. CASE Edit \/ TailSignal
    BY <2>1 DEF Edit, TailSignal, holder
  <2>2. CASE Signal \/ Kill
    BY <2>2 DEF Signal, Kill, End, disk
  <2> QED BY <2>1, <2>2
<1>3. sessions \in Nat /\ GenOf(file) <= sessions
  BY GenTypes DEF Both, GenInv
<1>4. CASE Edit
  <2>1. UNCHANGED <<pc, norm, old>> /\ edited'
    BY <1>4 DEF Edit, holder
  <2>2. \E f \in {"state", "policy", "pkgs", "states"} : \E c : Replace(f, c)
    BY <1>4 DEF Edit
  <2>3. file'["generation"] = file["generation"]
    BY <2>2, FileNames, GenKept
  <2>4. GenInv'
    BY <1>2, <2>1, <2>3 DEF Both, GenInv, GenOf
  <2> QED BY <1>1, <2>4 DEF Both
<1>5. CASE Signal
  <2>1. /\ pc' \in {"late", "restore"} /\ req.kind = "commit"
        /\ UNCHANGED <<file, norm, old, edited>>
    BY <1>5 DEF Signal, Goto, disk
  <2>2. GenInv'
    BY <1>2, <2>1 DEF Both, GenInv, GenOf
  <2> QED BY <1>1, <2>2 DEF Both
<1>6. CASE TailSignal
  <2>1. UNCHANGED <<pc, norm, old>> /\ edited' /\ tail \in SUBSET File /\ Remove(tail)
    BY <1>6 DEF TailSignal, holder, Types, DiskTypes, Marks
  <2>2. GenOf(file') <= sessions
    BY <1>3, <2>1, GenRemoved
  <2>3. GenInv'
    BY <1>2, <2>1, <2>2 DEF Both, GenInv, GenOf
  <2> QED BY <1>1, <2>3 DEF Both
<1>7. CASE Kill
  <2>1. pc' = "idle" /\ old' = Nowhere
    BY <1>7 DEF Kill, End, Goto
  <2>2. UNCHANGED file \/ Replace(Order[at], Broken)
    BY <1>7 DEF Kill
  <2>3. GenOf(file') <= sessions
    BY <1>3, <2>2, OrderIsFile, GenReplaced, TableAssumption DEF Types, GenOf
  <2>4. GenOf(old') <= sessions
    BY <1>3, <2>1, FileNames, TableAssumption DEF GenOf, Nowhere
  <2>5. GenInv'
    BY <1>2, <2>1, <2>3, <2>4 DEF Both, GenInv, GenOf
  <2> QED BY <1>1, <2>5 DEF Both
<1> QED BY <1>4, <1>5, <1>6, <1>7

\* A commit under way keeps what was asked for in what it found.
LEMMA CommitKeepsAsked ==
    ASSUME WebInv, req.kind = "commit", pc # "idle", UNCHANGED <<req, entry, base, edited>>,
           pc' \notin {"idle", "late", "pkgs", "states", "base"},
           asked' \in {asked, Missing}, asked' # Missing => broke' \subseteq broke \cup BackedUp
    PROVE  WebInv'
BY DEF WebInv, Holds, Asks, Unedited, GenOf

LEMMA CommitWeb ==
    ASSUME Types, Inductive, Both, Backup \/ Move \/ Chmod \/ Compare \/ Cleanup
    PROVE  Both'
<1>1. /\ pc \in {"backup", "move", "chmod", "compare", "cleanup"} /\ req.kind = "commit"
      /\ UNCHANGED <<req, entry, base, edited, new, sessions>>
  BY DEF Backup, Move, Chmod, Compare, Cleanup, Kept, KeptBut, holder, Both, GenInv
<1>2. /\ pc' \in {"backup", "move", "chmod", "compare", "stat", "uncertify", "release", "restore"}
      /\ asked' \in {asked, Missing}
      /\ pc = "backup" /\ pc' = "restore" => asked' = Missing
      /\ broke' = broke \/ (broke' = broke \cup {pc} /\ pc' = "restore")
  <2>1. CASE Backup
    BY <2>1 DEF Backup, NextFile, Fails, Goto, NoFault, Fault, FaultAt
  <2>2. CASE Move \/ Chmod
    BY <2>2 DEF Move, Chmod, NextFile, Fails, Goto, NoFault, Fault, FaultAt, Kept
  <2>3. CASE Compare \/ Cleanup
    BY <2>3 DEF Compare, Cleanup, Goto, NoFault, Kept
  <2> QED BY <2>1, <2>2, <2>3
<1>3. asked' # Missing => broke' \subseteq broke \cup BackedUp
  BY <1>1, <1>2 DEF BackedUp
<1>4. WebInv'
  BY <1>1, <1>2, <1>3, CommitKeepsAsked DEF Both
<1>5. GenOf(file') <= sessions
  <2>1. CASE Move
    <3>1. Replace(Order[at], new[Order[at]]) \/ UNCHANGED file
      BY <2>1 DEF Move
    <3>2. Order[at] = "generation" => new[Order[at]] <= sessions
      BY <1>1 DEF Both, GenInv
    <3> QED BY <3>1, <3>2, OrderIsFile, GenTypes, GenReplaced DEF Types, Both, GenInv
  <2>2. CASE Backup \/ Chmod \/ Compare \/ Cleanup
    BY <2>2 DEF Backup, Chmod, Compare, Cleanup, Kept, KeptBut, Both, GenInv
  <2> QED BY <2>1, <2>2
<1>6. GenOf(old') <= sessions
  <2>1. CASE Backup
    <3>1. old \in [File -> Content] /\ Order[at] \in File
      BY OrderIsFile DEF Types, HolderTypes, Disk
    <3>2. old' = old \/ old' = [old EXCEPT ![Order[at]] = file[Order[at]]]
      BY <2>1 DEF Backup
    <3>3. old'["generation"] \in {old["generation"], file["generation"]}
      BY <3>1, <3>2, FileNames
    <3> QED BY <3>3 DEF Both, GenInv, GenOf
  <2>2. CASE Move \/ Chmod \/ Compare \/ Cleanup
    BY <2>2 DEF Move, Chmod, Compare, Cleanup, Kept, KeptBut, holder, Both, GenInv
  <2> QED BY <2>1, <2>2
<1>7. ~edited /\ pc' # "restore" => broke' \subseteq BackedUp
  BY <1>1, <1>2 DEF Both, GenInv
<1>8. GenInv'
  BY <1>1, <1>2, <1>5, <1>6, <1>7 DEF Both, GenInv, GenOf
<1> QED BY <1>4, <1>8 DEF Both

\* The certificate of any command.
LEMMA FingerprintWeb ==
    ASSUME Types, Both, Fingerprint
    PROVE  Both'
<1>1. /\ pc \in {"stat", "certify", "uncertify"}
      /\ pc' \in {"certify", "uncertify", "cleanup", "release"}
      /\ pc' = "cleanup" => req.kind = "commit"
      /\ UNCHANGED <<file, req, entry, base, edited, new, old, sessions, asked>>
      /\ broke' \in {broke, broke \cup {"certify"}}
  BY DEF Fingerprint, Stat, Certify, Uncertify, Goto, Finish, Kept, KeptBut, holder, NoFault,
         Fault, FaultAt
<1>2. broke' \subseteq broke \cup BackedUp
  BY <1>1 DEF BackedUp
<1>3. GenInv'
  BY <1>1, <1>2 DEF Both, GenInv, GenOf
<1>4. WebInv'
  BY <1>1, <1>2 DEF Both, WebInv, Holds, Asks, Unedited, GenOf
<1> QED BY <1>3, <1>4 DEF Both

\* What a commit that nobody interfered with has installed is asked for from its
\* release on.
LEMMA ReleaseWeb ==
    ASSUME Types, Inductive, Both, Release
    PROVE  Both'
<1>1. /\ pc = "release" /\ UNCHANGED <<file, base, req, new, sessions, edited, entry>>
      /\ pc' \in {"idle", "late"} /\ old' \in {old, Nowhere}
      /\ pc' = "late" => req.kind = "commit" /\ asked' = Missing
  BY DEF Release, disk, End, Goto, holder
<1>2. GenOf(Nowhere) = 0 /\ sessions \in Nat
  BY FileNames, TableAssumption, GenTypes DEF GenOf, Nowhere
<1>3. GenOf(old') <= sessions
  BY <1>1, <1>2 DEF Both, GenInv
<1>4. GenInv'
  BY <1>1, <1>3 DEF Both, GenInv, GenOf
<1>5. CASE req.kind # "commit"
  <2>1. asked' = asked
    BY <1>5 DEF Release
  <2> QED BY <1>1, <1>4, <1>5, <2>1 DEF Both, WebInv, Holds, Asks, Unedited, GenOf
<1>6. CASE req.kind = "commit" /\ asked' # Missing
  <2>1. /\ ~edited /\ pc' = "idle" /\ UNCHANGED broke
        /\ asked' = [pkgs |-> new["pkgs"], states |-> new["states"]]
    <3>1. pc' = "idle" /\ UNCHANGED broke
      BY <1>6 DEF Release, End, Goto, NoFault
    <3>2. asked' = IF ~edited THEN [pkgs |-> new["pkgs"], states |-> new["states"]] ELSE asked
      BY <1>6, <3>1 DEF Release, Goto
    <3>3. ~edited
      BY <1>6, <3>2 DEF Both, WebInv
    <3> QED BY <3>1, <3>2, <3>3
  <2>2. broke \subseteq BackedUp
    BY <1>1, <1>6, <2>1 DEF Both, GenInv
  <2>3. file = new
    BY <1>1, <1>6, <2>1, <2>2 DEF Inductive, CommitInv, Sound, Progress
  <2>4. /\ new["generation"] \in Nat /\ <<new["pkgs"], new["states"]>> \in Proper
        /\ base # Missing => base.generation < new["generation"]
        /\ base # Missing => base.generation \in Nat
    BY <1>6 DEF Both, GenInv, Types, DiskTypes, Baseline
  <2>5. Unedited(file, base)
    BY <2>3, <2>4 DEF Unedited, GenOf
  <2>6. Holds(file)'
    BY <1>1, <2>1, <2>3, <2>4, <2>5 DEF Holds, Asks, Unedited, GenOf
  <2>7. WebInv'
    BY <1>1, <2>1, <2>2, <2>6 DEF WebInv
  <2> QED BY <1>4, <2>7 DEF Both
<1>7. CASE req.kind = "commit" /\ asked' = Missing
  BY <1>4, <1>7 DEF Both, WebInv
<1> QED BY <1>5, <1>6, <1>7

\* An abort brings back what was asked for.
LEMMA AbortWeb ==
    ASSUME Types, Inductive, Inductive', Both, Restore \/ Late
    PROVE  Both'
<1>1. /\ pc \in {"restore", "late"} /\ req.kind = "commit"
      /\ UNCHANGED <<base, req, new, sessions, edited, entry>>
      /\ pc' \in {"restore", "idle"} /\ old' \in {old, Nowhere}
      /\ asked' \in {asked, Missing}
  BY DEF Restore, Late, Kept, KeptBut, End, Goto, Both, GenInv
<1>2. GenOf(Nowhere) = 0 /\ sessions \in Nat
  BY FileNames, TableAssumption, GenTypes DEF GenOf, Nowhere
<1>3. GenOf(old') <= sessions
  BY <1>1, <1>2 DEF Both, GenInv
<1>4. GenOf(file') <= sessions
  <2>1. GenOf(file) <= sessions /\ GenOf(old) <= sessions
    BY DEF Both, GenInv
  <2>2. CASE Restore
    <3>1. PICK c \in {old[Order[at]], file[Order[at]], Broken} : Replace(Order[at], c)
      BY <2>2 DEF Restore
    <3>2. Order[at] = "generation" /\ c \in Nat => c <= sessions
      BY <2>1, <3>1, TableAssumption DEF GenOf
    <3> QED BY <1>2, <2>1, <3>1, <3>2, OrderIsFile, GenReplaced DEF Types
  <2>3. CASE Late
    BY <1>2, <2>1, <2>3, GenRemoved DEF Late, NoBackup
  <2> QED BY <2>2, <2>3
<1>5. GenInv'
  BY <1>1, <1>3, <1>4 DEF Both, GenInv, GenOf
<1>6. CASE asked' # Missing
  <2>1. Restore /\ NoFault /\ asked' = asked
    BY <1>1, <1>6 DEF Restore, Late, Both, WebInv
  <2>2. ~edited /\ broke \subseteq BackedUp /\ broke' = broke /\ Holds(entry)
    BY <1>1, <1>6, <2>1 DEF Both, WebInv, NoFault
  <2>3. CASE pc' = "restore"
    BY <1>1, <1>5, <2>1, <2>2, <2>3, CommitKeepsAsked DEF Both
  <2>4. CASE pc' = "idle"
    <3>1. rc' = rc /\ rc \in {74, 130}
      <4>1. rc \in {74, 130} /\ pc = "restore"
        BY <1>1, <2>1, <2>2 DEF Inductive, CommitInv, Sound, Progress, Restore
      <4> QED BY <2>1, <4>1 DEF Restore, End
    <3>2. sessions > 0
      BY <1>1 DEF Both, GenInv
    <3>3. file' = entry'
      BY <1>1, <2>2, <2>4, <3>1, <3>2 DEF Inductive, CommitInv, Sound, Progress
    <3>4. Holds(file)'
      BY <1>1, <2>1, <2>2, <3>3 DEF Holds, Asks, Unedited, GenOf
    <3>5. WebInv'
      BY <1>1, <2>1, <2>2, <2>4, <3>4 DEF WebInv
    <3> QED BY <1>5, <3>5 DEF Both
  <2> QED BY <1>1, <2>3, <2>4
<1>7. CASE asked' = Missing
  BY <1>5, <1>7 DEF Both, WebInv
<1> QED BY <1>6, <1>7

\* A commit takes a generation that no baseline has.
LEMMA StartWeb ==
    ASSUME Types, Both, Begin \/ TailEnd \/ UNCHANGED vars
    PROVE  Both'
<1>1. CASE Begin
  <2>1. /\ UNCHANGED <<file, base, norm, asked>> /\ pc = "idle" /\ sessions' = sessions + 1
        /\ req' \in Command /\ pc' = First(req'.kind) /\ old' = Nowhere
        /\ entry' = file /\ broke' = {} /\ edited' = FALSE
    BY <1>1 DEF Begin, disk, Goto
  <2>2. /\ pc' \in {"backup", "mark", "match", "second", "fast"}
        /\ pc' = "backup" => req'.kind = "commit"
    BY <2>1, CommandFacts DEF First
  <2>3. GenOf(Nowhere) = 0 /\ sessions \in Nat /\ GenOf(file) \in Nat
    BY FileNames, TableAssumption, GenTypes DEF GenOf, Nowhere
  <2>4. base # Missing => base.generation \in Nat
    BY DEF Types, DiskTypes, Baseline
  <2>5. req'.kind = "commit" => /\ new'["generation"] = sessions'
                                /\ <<new'["pkgs"], new'["states"]>> \in Proper
    <3>1. SUFFICES ASSUME req'.kind = "commit"
                   PROVE  /\ new'["generation"] = sessions'
                          /\ <<new'["pkgs"], new'["states"]>> \in Proper
      OBVIOUS
    <3>2. req'.table \in Table
      BY <2>1, <3>1, CommandFacts
    <3>3. /\ new'["pkgs"] = req'.table.pkgs /\ new'["states"] = req'.table.states
          /\ new'["generation"] = sessions'
      BY <1>1, <3>1, FileNames DEF Begin, NewFiles
    <3>4. /\ req'.table.pkgs \in [Slot -> Name \cup {Empty}]
          /\ req'.table.states \in [Slot -> {On, Off}]
          /\ WellFormed(req'.table.pkgs, req'.table.states)
      BY <3>2, CommandAssumption
    <3>5. req'.table.pkgs \in Pkgs
      BY <3>4 DEF Pkgs
    <3> QED BY <3>3, <3>4, <3>5, ProperFacts
  <2>6. GenInv'
    BY <2>1, <2>2, <2>3, <2>4, <2>5 DEF Both, GenInv, GenOf
  <2>7. WebInv'
    BY <2>1, <2>2 DEF Both, WebInv, Holds, Asks, Unedited, GenOf
  <2> QED BY <2>6, <2>7 DEF Both
<1>2. CASE TailEnd \/ UNCHANGED vars
  <2>1. /\ UNCHANGED <<file, base, norm, asked, pc, sessions, req, old, new, entry, broke, edited>>
    BY <1>2 DEF TailEnd, vars, disk, holder, spent, history
  <2>2. GenInv'
    BY <2>1 DEF Both, GenInv, GenOf
  <2>3. WebInv'
    BY <2>1 DEF Both, WebInv, Holds, Asks, Unedited, GenOf
  <2> QED BY <2>2, <2>3 DEF Both
<1> QED BY <1>1, <1>2

\* No generation is of the future, and what was asked for is in the files.
LEMMA BothHolds == Spec => []Both
<1>1. Init => Both
  <2>1. SUFFICES ASSUME Init PROVE Both
    OBVIOUS
  <2>2. PICK t \in Table : /\ file = NewFiles("disabled", "enabled", t, 0)
                           /\ base = [pkgs |-> t.pkgs, generation |-> 0]
    BY <2>1 DEF Init
  <2>3. GenOf(Nowhere) = 0
    BY FileNames, TableAssumption DEF GenOf, Nowhere
  <2>4. GenOf(file) = 0 /\ base.generation = 0
    BY <2>2, FileNames DEF GenOf, NewFiles
  <2> QED BY <2>1, <2>3, <2>4 DEF Init, Both, GenInv, WebInv
<1>2. Types /\ Inductive /\ Inductive' /\ Both /\ [Next]_vars => Both'
  <2>1. SUFFICES ASSUME Types, Inductive, Inductive', Both, [Next]_vars
                 PROVE  Both'
    OBVIOUS
  <2>2. CASE Begin \/ UNCHANGED vars
    BY <2>1, <2>2, StartWeb
  <2>3. CASE Release
    BY <2>1, <2>3, ReleaseWeb
  <2>4. CASE CommitStep
    BY <2>1, <2>4, CommitWeb, AbortWeb, StartWeb DEF CommitStep
  <2>5. CASE Fingerprint
    BY <2>1, <2>5, FingerprintWeb
  <2>6. CASE Switching \/ Prepare
    BY <2>1, <2>6, SwitchWeb, PrepareWeb
  <2>7. CASE Signal \/ TailSignal \/ Edit \/ Kill
    BY <2>1, <2>7, OthersWeb
  <2> QED BY <2>1, <2>2, <2>3, <2>4, <2>5, <2>6, <2>7 DEF Next
<1> QED BY <1>1, <1>2, TypesHold, CommitHolds, PTL DEF Spec

\* What the web UI has switched stays switched through every prepare and every
\* other switch, until somebody else touches the table: for any number of
\* commits, also of those that fail and are rolled back in between.
THEOREM WebSwitchesStay ==
    ASSUME ~Repeat, EditAt \cap {"stat", "mark"} = {}, Passes > 1
    PROVE  Spec => []WebSwitchesKept
<1>1. PrepInv /\ Both => WebSwitchesKept
  <2>1. SUFFICES ASSUME PrepInv, Both, asked # Missing, Done("prepare"), rc = 0
                 PROVE  tmp = Runtime(asked.pkgs, asked.states)
    BY DEF WebSwitchesKept
  <2>2. Current(file)
    BY <2>1 DEF PrepInv, PassInv, Done
  <2>3. Holds(file)
    BY <2>1 DEF Both, WebInv, Done
  <2> QED BY <2>2, <2>3 DEF Current, Holds, Asks
<1> QED BY <1>1, BothHolds, PrepHolds, PTL

-----------------------------------------------------------------------------
(* Names that a file manager has put into packages.txt.                    *)

\* The baseline still shows that slot i of the names p is new.
Fresh(p, i, b, g) == b # Missing /\ b.generation = g /\ b.pkgs[i] # p[i]

\* The slot is on, and the next normalisation leaves it on.
Stays(p, s, i, b) == s[i] = On /\ (b = Missing \/ b.pkgs = p)

\* Whether the baseline is the old one or the slot is on already: normalisation
\* switches the slot on, unless it puts other names there.
LEMMA NamedOn ==
    ASSUME NEW p \in Pkgs, NEW s \in States, NEW i \in Slot, NEW b, NEW g,
           p[i] \in Name, Occurrences(p, i) = 1, Fresh(p, i, b, g) \/ Stays(p, s, i, b)
    PROVE  LET n == Normalized(p, s, g, b)
           IN  n.pkgs \in {p, DefaultPkgs} /\ (n.pkgs = p => n.states[i] = On)
<1> DEFINE defaults == [pkgs |-> DefaultPkgs, states |-> DefaultStates, default |-> TRUE]
           on == Switches(p, s, g, b)
           kept == [pkgs |-> p, states |-> on, default |-> FALSE]
<1>1. p[i] # Empty /\ s # Missing
  BY TableAssumption
<1>2. Switch(p, s, g, b, i) = On
  <2>1. CASE Fresh(p, i, b, g)
    <3>1. External(p, s, g, b) /\ p[i] # b.pkgs[i]
      BY <1>1, <2>1 DEF Fresh, External
    <3> QED BY <1>1, <3>1 DEF Switch
  <2>2. CASE Stays(p, s, i, b)
    <3>1. ~External(p, s, g, b) /\ s[i] = On /\ s[i] # Absent
      BY <2>2 DEF Stays, External, On, Absent
    <3> QED BY <1>1, <3>1 DEF Switch
  <2> QED BY <2>1, <2>2
<1>3. kept.pkgs = p /\ kept.states[i] = On
  BY <1>2 DEF Switches
<1>4. defaults.pkgs = DefaultPkgs /\ (DefaultPkgs = p => defaults.states[i] = On)
  BY DefaultsAssumption
<1>5. Normalized(p, s, g, b) \in {kept, defaults}
  BY DEF Normalized
<1> QED BY <1>3, <1>4, <1>5

SlotOn(r) == file["states"][r.slot] = On

\* What NewNames says of a name.
Valued(r) == /\ r.slot \in Slot /\ r.pkgs \in Pkgs /\ r.pkgs[r.slot] \in Name
             /\ Occurrences(r.pkgs, r.slot) = 1

\* The names are what packages.txt holds, and the slot is on or will be.
Shown(r) ==
    /\ file["states"] \in States
    /\ \/ Fresh(r.pkgs, r.slot, base, Generation)
       \/ Stays(r.pkgs, file["states"], r.slot, base)
    /\ SlotOn(r) \/ cert = Missing \/ "pkgs" \in cert
    /\ pc \in {"base", "output", "generate", "confirm", "stat", "certify", "uncertify"} =>
          SlotOn(r)
    /\ pc \in {"release", "idle"} /\ req.kind = "prepare" /\ rc = 0 /\ sessions > 0
          /\ ~edited => SlotOn(r)

\* Either they are, or the defaults are there and the names are gone.
Named(r) ==
    /\ Valued(r) /\ (pc = "idle" \/ req.kind = "prepare")
    /\ file["pkgs"] \in {r.pkgs, DefaultPkgs}
    /\ pc \in {"pkgs", "states", "base"} =>
          /\ norm.table.pkgs \in {file["pkgs"], DefaultPkgs}
          /\ norm.table.pkgs = r.pkgs => norm.table.states[r.slot] = On
    /\ pc \in {"states", "base"} => file["pkgs"] = norm.table.pkgs
    /\ file["pkgs"] = r.pkgs => Shown(r)

NameInv == \A r \in renamed : r.inStep => Named(r)

\* A file manager puts a name where it was not, before the baseline knows it.
LEMMA EditNames ==
    ASSUME Types, NameInv, Edit
    PROVE  NameInv'
<1>1. SUFFICES ASSUME NEW r \in renamed', r.inStep
               PROVE  Named(r)'
  BY DEF NameInv
<1>2. PICK f \in {"state", "policy", "pkgs", "states"} :
        \E c \in CASE f = "pkgs" -> EditedPkgs [] f = "states" -> EditedStates [] OTHER -> {Broken} :
          /\ c # file[f] /\ Replace(f, c)
          /\ renamed' =
                IF /\ f = "pkgs" /\ pc = "idle" /\ c \in Pkgs /\ file["pkgs"] \in Pkgs
                   /\ renamed = {} /\ file["states"] \in States
                THEN {[slot |-> i, pkgs |-> c, inStep |-> InStep] : i \in NewNames(c)}
                ELSE {}
  BY DEF Edit
<1>3. PICK c : /\ Replace(f, c)
               /\ renamed' =
                     IF /\ f = "pkgs" /\ pc = "idle" /\ c \in Pkgs /\ file["pkgs"] \in Pkgs
                        /\ renamed = {} /\ file["states"] \in States
                     THEN {[slot |-> i, pkgs |-> c, inStep |-> InStep] : i \in NewNames(c)}
                     ELSE {}
  BY <1>2
<1>4. /\ f = "pkgs" /\ pc = "idle" /\ c \in Pkgs /\ file["states"] \in States
      /\ renamed' = {[slot |-> i, pkgs |-> c, inStep |-> InStep] : i \in NewNames(c)}
  BY <1>1, <1>3
<1>5. PICK i \in NewNames(c) : r = [slot |-> i, pkgs |-> c, inStep |-> InStep]
  BY <1>1, <1>4
<1>6. /\ r.slot = i /\ r.pkgs = c /\ InStep
      /\ i \in Slot /\ c[i] \in Name /\ Occurrences(c, i) = 1 /\ c[i] # file["pkgs"][i]
  BY <1>1, <1>5 DEF NewNames
<1>7. Valued(r)
  BY <1>4, <1>6 DEF Valued
<1>8. /\ file'["pkgs"] = c /\ file'["states"] = file["states"]
      /\ file'["generation"] = file["generation"]
  <2>1. IsFiles(file)
    BY DiskFacts DEF Types, DiskTypes
  <2> QED BY <1>3, <1>4, <2>1, Replaced, FileNames
<1>9. UNCHANGED <<base, pc, norm>> /\ edited'
  BY DEF Edit, holder
<1>10. cert' = Missing \/ "pkgs" \in cert'
  BY <1>3, <1>4 DEF Replace
<1>11. Generation' = Generation
  BY <1>8 DEF Generation, GenOf
<1>12. Fresh(c, i, base, Generation)'
  BY <1>6, <1>8, <1>9, <1>11 DEF Fresh, InStep
<1>13. Shown(r)'
  BY <1>4, <1>6, <1>8, <1>9, <1>10, <1>12 DEF Shown
<1> QED BY <1>4, <1>6, <1>7, <1>8, <1>9, <1>13 DEF Named, Valued

\* Steps that leave the table, the baseline and the names alone.
LEMMA NamesStay ==
    ASSUME Types, NEW r, Named(r), SameTable, UNCHANGED <<base, req, sessions>>,
           file'["generation"] = file["generation"],
           pc' \notin {"pkgs", "states", "base"}, pc # "idle",
           \/ cert' \in {cert, Missing}
           \/ cert # Missing /\ cert \subseteq cert'
           \/ file["pkgs"] = r.pkgs => SlotOn(r),
           pc' \in {"base", "output", "generate", "confirm", "stat", "certify", "uncertify"} =>
               (file["pkgs"] = r.pkgs => SlotOn(r)),
           pc' \in {"release", "idle"} /\ rc' = 0 /\ sessions' > 0 /\ ~edited' =>
               (file["pkgs"] = r.pkgs => SlotOn(r))
    PROVE  Named(r)'
<1>1. Generation' = Generation
  BY DEF Generation, GenOf
<1>2. req.kind = "prepare" /\ Valued(r) /\ file["pkgs"] \in {r.pkgs, DefaultPkgs}
  BY DEF Named
<1>3. file["pkgs"] = r.pkgs => Shown(r)'
  <2>1. SUFFICES ASSUME file["pkgs"] = r.pkgs PROVE Shown(r)'
    OBVIOUS
  <2>2. Shown(r)
    BY <2>1 DEF Named
  <2>3. SlotOn(r)' <=> SlotOn(r)
    BY DEF SlotOn, SameTable
  <2>4. \/ Fresh(r.pkgs, r.slot, base, Generation)'
        \/ Stays(r.pkgs, file["states"], r.slot, base)'
    BY <1>1, <2>2 DEF Shown, Fresh, Stays, SameTable
  <2>5. file'["states"] \in States
    BY <2>2 DEF Shown, SameTable
  <2>6. SlotOn(r) \/ cert' = Missing \/ "pkgs" \in cert'
    BY <2>1, <2>2 DEF Shown
  <2> QED BY <2>1, <2>3, <2>4, <2>5, <2>6 DEF Shown
<1> QED BY <1>2, <1>3 DEF Named, Valued, SameTable

\* The steps of prepare that look, and the two switches.
LEMMA LookNames ==
    ASSUME Types, NEW r, Named(r), req.kind = "prepare",
           \/ Fast \/ FastGenerate \/ FastConfirm \/ Input \/ NormaliseMode \/ NormalisePolicy
           \/ Output \/ Generate \/ Confirm
    PROVE  Named(r)'
<1>1. file["pkgs"] = r.pkgs => Shown(r)
  BY DEF Named
<1>2. CASE NormaliseMode \/ NormalisePolicy
  <2>1. /\ pc \in {"mode", "policy"} /\ pc' \in {"policy", "read", "release"}
        /\ pc' = "release" => rc' = 1
        /\ UNCHANGED <<base, req, sessions>>
        /\ \/ UNCHANGED <<file, cert>>
           \/ \E f \in {"state", "policy"} : \E c : Put(f, c)
    BY <1>2 DEF NormaliseMode, NormalisePolicy, Normalise, Goto, Kept, KeptBut, holder
  <2>2. ASSUME NEW f \in {"state", "policy"}, NEW c, Put(f, c)
        PROVE  /\ SameTable /\ file'["generation"] = file["generation"]
               /\ cert' \in {cert, Missing} \/ (cert # Missing /\ cert \subseteq cert')
    <3>1. f \in File \ {"generation"} /\ f \notin TableFile
      BY FileNames DEF TableFile
    <3>2. cert' \in {cert, Missing} \/ (cert # Missing /\ cert \subseteq cert')
      BY <2>2 DEF Put, Replace
    <3> QED BY <2>2, <3>1, <3>2, ReplaceTracks, GenKept
  <2>3. /\ SameTable /\ file'["generation"] = file["generation"]
        /\ cert' \in {cert, Missing} \/ (cert # Missing /\ cert \subseteq cert')
    BY <2>1, <2>2 DEF SameTable
  <2> QED BY <2>1, <2>3, NamesStay
<1>3. CASE Fast \/ FastGenerate \/ FastConfirm \/ Input \/ Output \/ Generate \/ Confirm
  <2>1. UNCHANGED <<file, cert, base, req, sessions>>
    BY <1>3 DEF Fast, FastGenerate, FastConfirm, Input, Output, Generate, Confirm, GenerateTo,
                Kept, KeptBut, Seen, holder
  <2>2. /\ pc # "idle" /\ pc' \notin {"pkgs", "states", "base", "idle"}
        /\ pc' \in {"output", "generate", "confirm", "stat", "certify", "uncertify"} =>
              pc \in {"output", "generate", "confirm"}
    BY <1>3 DEF Fast, FastGenerate, FastConfirm, Input, Output, Generate, Confirm, GenerateTo,
                Again, Goto
  <2>3. pc' = "release" => rc' \in {1, 75} \/ Matches
    BY <1>3 DEF Fast, FastGenerate, FastConfirm, Input, Output, Generate, Confirm, GenerateTo,
                Again, Goto
  <2>4. Matches => (file["pkgs"] = r.pkgs => SlotOn(r))
    BY <1>1, MissingAssumption DEF Matches, Shown
  <2>5. SameTable
    BY <2>1 DEF SameTable
  <2> QED BY <1>1, <2>1, <2>2, <2>3, <2>4, <2>5, NamesStay DEF Shown
<1> QED BY <1>2, <1>3

\* What the normalisation reads and writes.
LEMMA TableNames ==
    ASSUME Types, NEW r, Named(r), req.kind = "prepare",
           ReadTable \/ WritePkgs \/ WriteStates \/ WriteBase
    PROVE  Named(r)'
<1>1. /\ Valued(r) /\ file["pkgs"] \in {r.pkgs, DefaultPkgs} /\ (file["pkgs"] = r.pkgs => Shown(r))
  BY DEF Named
<1>2. UNCHANGED <<req, sessions, edited>>
  BY DEF ReadTable, WritePkgs, WriteStates, WriteBase, Normalise, Kept, KeptBut, holder, history
<1>3. CASE ReadTable
  <2>1. /\ pc' = "pkgs" /\ UNCHANGED <<file, base, cert>>
        /\ norm' = [table |-> Normalized(file["pkgs"], file["states"], Generation, base),
                    generation |-> Generation]
    BY <1>3 DEF ReadTable, Goto, Kept, KeptBut
  <2>2. norm'.table = Normalized(file["pkgs"], file["states"], Generation, base)
    BY <2>1
  <2>3. norm'.table.pkgs \in {file["pkgs"], DefaultPkgs}
    BY <2>2 DEF Normalized
  <2>4. norm'.table.pkgs = r.pkgs => norm'.table.states[r.slot] = On
    <3>1. CASE file["pkgs"] = r.pkgs
      <4>1. file["states"] \in States /\ (\/ Fresh(r.pkgs, r.slot, base, Generation)
                                         \/ Stays(r.pkgs, file["states"], r.slot, base))
        BY <1>1, <3>1 DEF Shown
      <4> QED BY <1>1, <2>2, <3>1, <4>1, NamedOn DEF Valued
    <3>2. CASE file["pkgs"] # r.pkgs
      BY <1>1, <2>3, <3>2
    <3> QED BY <3>1, <3>2
  <2>5. Generation' = Generation
    BY <2>1 DEF Generation
  <2>6. file["pkgs"] = r.pkgs => Shown(r)'
    BY <1>1, <2>1, <2>5 DEF Shown, SlotOn, Fresh, Stays
  <2> QED BY <1>1, <1>2, <2>1, <2>3, <2>4, <2>6 DEF Named, Valued
<1>4. CASE WritePkgs
  <2>1. /\ pc = "pkgs" /\ UNCHANGED <<base, norm>>
        /\ \/ Put("pkgs", norm.table.pkgs) /\ pc' = "states"
           \/ pc' = "release" /\ rc' = 1 /\ UNCHANGED <<file, cert>>
    BY <1>4 DEF WritePkgs, Normalise, Goto, Kept, KeptBut, holder
  <2>2. /\ norm.table.pkgs \in {file["pkgs"], DefaultPkgs}
        /\ norm.table.pkgs = r.pkgs => norm.table.states[r.slot] = On
    BY <2>1 DEF Named
  <2>3. CASE UNCHANGED <<file, cert>>
    <3>1. Generation' = Generation
      BY <2>3 DEF Generation
    <3>2. file["pkgs"] = r.pkgs => Shown(r)'
      BY <1>1, <1>2, <2>1, <2>3, <3>1 DEF Shown, SlotOn, Fresh, Stays
    <3>3. pc' = "states" => file["pkgs"] = norm.table.pkgs
      BY <2>1, <2>3, PutFacts, FileNames
    <3> QED BY <1>1, <1>2, <2>1, <2>2, <2>3, <3>2, <3>3 DEF Named, Valued
  <2>4. CASE ~UNCHANGED <<file, cert>>
    <3>1. Put("pkgs", norm.table.pkgs) /\ pc' = "states" /\ file["pkgs"] # norm.table.pkgs
      BY <2>1, <2>4 DEF Put
    <3>2. file'["pkgs"] = norm.table.pkgs
      BY <3>1, PutFacts, FileNames
    <3>3. norm.table.pkgs = DefaultPkgs /\ norm.table.pkgs # r.pkgs
      BY <1>1, <2>2, <3>1
    <3> QED BY <1>1, <1>2, <2>1, <3>1, <3>2, <3>3 DEF Named, Valued
  <2> QED BY <2>3, <2>4
<1>5. CASE WriteStates
  <2>1. /\ pc = "states" /\ UNCHANGED <<base, norm>>
        /\ \/ Put("states", norm.table.states) /\ pc' = "base"
           \/ pc' = "release" /\ rc' = 1 /\ UNCHANGED <<file, cert>>
    BY <1>5 DEF WriteStates, Normalise, Goto, Kept, KeptBut, holder
  <2>2. /\ file["pkgs"] = norm.table.pkgs
        /\ norm.table.pkgs = r.pkgs => norm.table.states[r.slot] = On
    BY <2>1 DEF Named
  <2>3. CASE pc' = "base"
    <3>1. /\ file'["states"] = norm.table.states /\ file'["pkgs"] = file["pkgs"]
          /\ file'["generation"] = file["generation"]
      BY <2>1, <2>3, PutFacts, FileNames
    <3>2. norm.table.states \in States
      <4>1. <<norm.table.pkgs, norm.table.states>> \in Proper
        BY <2>1 DEF Types, Place
      <4>2. norm.table.states \in [Slot -> {On, Off}]
        BY <4>1, ProperFacts
      <4> QED BY <4>2 DEF States
    <3>3. Generation' = Generation
      BY <3>1 DEF Generation, GenOf
    <3>4. file["pkgs"] = r.pkgs => Shown(r)'
      BY <1>1, <2>1, <2>2, <2>3, <3>1, <3>2, <3>3 DEF Shown, SlotOn, Fresh, Stays
    <3> QED BY <1>1, <1>2, <2>1, <2>2, <2>3, <3>1, <3>4 DEF Named, Valued
  <2>4. CASE pc' # "base"
    <3>1. pc' = "release" /\ rc' = 1 /\ UNCHANGED <<file, cert>>
      BY <2>1, <2>4
    <3>2. SameTable
      BY <3>1 DEF SameTable
    <3> QED BY <1>2, <2>1, <3>1, <3>2, NamesStay
  <2> QED BY <2>3, <2>4
<1>6. CASE WriteBase
  <2>1. /\ pc = "base" /\ UNCHANGED <<file, cert>>
        /\ \/ /\ base' \in {Missing, [pkgs |-> file["pkgs"], generation |-> norm.generation]}
              /\ pc' = "output"
           \/ pc' = "release" /\ rc' = 1 /\ UNCHANGED base
    BY <1>6 DEF WriteBase, Goto
  <2>2. Generation' = Generation
    BY <2>1 DEF Generation
  <2>3. file["pkgs"] = r.pkgs => Shown(r)'
    <3>1. SUFFICES ASSUME file["pkgs"] = r.pkgs PROVE Shown(r)'
      OBVIOUS
    <3>2. SlotOn(r) /\ Shown(r)
      BY <1>1, <2>1, <3>1 DEF Shown
    <3>3. \/ Fresh(r.pkgs, r.slot, base, Generation)'
          \/ Stays(r.pkgs, file["states"], r.slot, base)'
      <4>1. CASE UNCHANGED base
        BY <2>1, <2>2, <3>2, <4>1 DEF Shown, Fresh, Stays
      <4>2. CASE ~UNCHANGED base
        BY <2>1, <3>1, <3>2, <4>2 DEF SlotOn, Stays
      <4> QED BY <4>1, <4>2
    <3> QED BY <2>1, <3>2, <3>3 DEF Shown, SlotOn
  <2> QED BY <1>1, <1>2, <2>1, <2>3 DEF Named, Valued
<1> QED BY <1>3, <1>4, <1>5, <1>6

\* The end of a prepare.
LEMMA EndNames ==
    ASSUME Types, NEW r, Named(r), req.kind = "prepare", Release \/ Fingerprint
    PROVE  Named(r)'
<1>1. file["pkgs"] = r.pkgs => Shown(r)
  BY DEF Named
<1>2. CASE Release
  <2>1. /\ pc = "release" /\ UNCHANGED <<file, base, cert, req, sessions, edited>>
        /\ pc' = "idle" /\ (rc' = 0 => rc = 0)
    BY <1>2 DEF Release, End, Goto, disk
  <2>2. SameTable
    BY <2>1 DEF SameTable
  <2> QED BY <1>1, <2>1, <2>2, NamesStay DEF Shown
<1>3. CASE Fingerprint
  <2>1. /\ pc \in {"stat", "certify", "uncertify"} /\ pc' \in {"certify", "uncertify", "release"}
        /\ UNCHANGED <<file, base, req, sessions>>
    BY <1>3 DEF Fingerprint, Stat, Certify, Uncertify, Goto, Finish, Kept, KeptBut, holder
  <2>2. SameTable
    BY <2>1 DEF SameTable
  <2>3. file["pkgs"] = r.pkgs => SlotOn(r)
    BY <1>1, <2>1 DEF Shown
  <2> QED BY <2>1, <2>2, <2>3, NamesStay
<1> QED BY <1>2, <1>3

\* A command begins; a commit's traps are reset.
LEMMA StartNames ==
    ASSUME NEW r, Named(r), Begin \/ TailEnd \/ UNCHANGED vars, r \in renamed'
    PROVE  Named(r)'
<1>1. CASE Begin
  <2>1. /\ UNCHANGED <<file, base, cert>> /\ req'.kind = "prepare"
        /\ pc' = "fast"
    BY <1>1 DEF Begin, disk, Goto, First
  <2>2. Generation' = Generation
    BY <2>1 DEF Generation
  <2>3. file["pkgs"] = r.pkgs => Shown(r)'
    BY <2>1, <2>2 DEF Named, Shown, SlotOn, Fresh, Stays
  <2> QED BY <2>1, <2>3 DEF Named, Valued
<1>2. CASE TailEnd \/ UNCHANGED vars
  <2>1. /\ UNCHANGED <<file, base, cert, pc, rc, req, norm, sessions, edited>>
    BY <1>2 DEF TailEnd, vars, disk, holder, spent, history
  <2>2. Generation' = Generation
    BY <2>1 DEF Generation
  <2>3. file["pkgs"] = r.pkgs => Shown(r)'
    BY <2>1, <2>2 DEF Named, Shown, SlotOn, Fresh, Stays
  <2> QED BY <2>1, <2>3 DEF Named, Valued
<1> QED BY <1>1, <1>2

\* A valid name that a file manager has put into a slot of a table that the
\* baseline was in step with is switched on by the next prepare that succeeds,
\* unless the table as a whole was refused: for every table, and whatever
\* happened before the edit.
THEOREM NamesAreSwitchedOn ==
    ASSUME ~Repeat, EditAt \cap {"stat", "mark"} = {}, Passes > 1
    PROVE  Spec => []ExternalNamesOnInStep
<1>1. Init => NameInv
  BY DEF Init, NameInv
<1>2. Types /\ PrepInv /\ NameInv /\ [Next]_vars => NameInv'
  <2>1. SUFFICES ASSUME Types, PrepInv, NameInv, [Next]_vars
                 PROVE  NameInv'
    OBVIOUS
  <2>2. CASE Edit
    BY <2>1, <2>2, EditNames
  <2>3. CASE TailSignal \/ Kill
    BY <2>3 DEF TailSignal, Kill, NameInv
  <2>4. CASE ~(Edit \/ TailSignal \/ Kill)
    <3>1. SUFFICES ASSUME NEW r \in renamed', r.inStep PROVE Named(r)'
      BY DEF NameInv
    <3>2. CASE Begin \/ TailEnd \/ UNCHANGED vars
      <4>1. renamed' \in {renamed, {}}
        BY <3>2 DEF Begin, TailEnd, vars, history
      <4> QED BY <2>1, <3>1, <3>2, <4>1, StartNames DEF NameInv
    <3>3. CASE ~(Begin \/ TailEnd \/ UNCHANGED vars)
      <4>1. Release \/ CommitStep \/ Fingerprint \/ Switching \/ Prepare \/ Signal
        BY <2>1, <2>4, <3>3 DEF Next
      <4>2. renamed' = renamed /\ pc # "idle"
        BY <3>3, <4>1 DEF Release, CommitStep, Backup, Move, Chmod, Compare, Cleanup, Restore, Late,
             Fingerprint, Stat, Certify, Uncertify, Switching, Mark, Match, MarkTable, WriteFirst,
             WriteSecond, UnwriteFirst, UnwriteSecond, Recheck, Prepare, Fast, FastGenerate,
             FastConfirm, Input, NormaliseMode, NormalisePolicy, ReadTable, WritePkgs, WriteStates,
             WriteBase, Output, Generate, Confirm, GenerateTo, Normalise, Signal, Kept, KeptBut,
             Seen, history
      <4>3. Named(r) /\ req.kind = "prepare"
        BY <2>1, <3>1, <4>2 DEF NameInv, Named
      <4>4. pc \in PrepareLabel
        BY <2>1, <4>3 DEF PrepInv
      <4>5. Release \/ Fingerprint \/ Prepare
        BY <3>3, <4>1, <4>3, <4>4 DEF PrepareLabel, CommitStep, Backup, Move, Chmod, Compare, Cleanup,
             Restore, Late, Switching, Mark, Match, MarkTable, WriteFirst, WriteSecond,
             UnwriteFirst, UnwriteSecond, Recheck, Signal
      <4> QED BY <2>1, <4>3, <4>5, EndNames, LookNames, TableNames DEF Prepare
    <3> QED BY <3>2, <3>3
  <2> QED BY <2>2, <2>3, <2>4
<1>3. NameInv => ExternalNamesOnInStep
  <2>1. SUFFICES ASSUME NameInv, Done("prepare"), rc = 0, NEW r \in renamed, r.inStep,
                        file["pkgs"] = r.pkgs
                 PROVE  file["states"][r.slot] = On
    BY DEF ExternalNamesOnInStep, Accepted
  <2>2. Shown(r)
    BY <2>1 DEF NameInv, Named
  <2> QED BY <2>1, <2>2 DEF Shown, SlotOn, Done
<1> QED BY <1>1, <1>2, <1>3, TypesHold, PrepHolds, PTL DEF Spec

-----------------------------------------------------------------------------
(* The certificate and the baseline.  What is certified, the normalisation *)
(* does not take for an edit either.                                       *)

\* The names are the baseline's, or of a commit after it; or a file is missing.
Agreed(c, b) == Missing \in {c["pkgs"], c["generation"]} \/ Unedited(c, b)

AgreeInv ==
    /\ cert # Missing /\ Certifies(cert) => Agreed(file, base)
    /\ pc = "stat" \/ (pc = "mark" /\ certified) => Agreed(file, base)
    /\ pc = "certify" /\ Certifies(moved) => Agreed(file, base)
    /\ pc \in {"first", "second", "recheck"} /\ certified /\ Certifies(moved) =>
          Agreed(file, base)
    /\ pc = "output" => Based(file, base) \/ file["pkgs"] = Missing \/ file["pkgs"] # saw["pkgs"]
    /\ pc \in {"generate", "confirm"} => Based(saw, base) \/ saw["pkgs"] = Missing

\* Files that agree as before.
Alike == \A f \in {"pkgs", "generation"} : file'[f] \in {file[f], Missing}

LEMMA AlikeAgrees ==
    ASSUME UNCHANGED base, Alike, Agreed(file, base)
    PROVE  Agreed(file', base')
BY DEF Alike, Agreed, Unedited, GenOf

\* A replaced file certifies nothing, if it matters.
Follows ==
    /\ Certifies(moved') => Certifies(moved) /\ Alike
    /\ cert' # Missing /\ Certifies(cert') => cert # Missing /\ Certifies(cert) /\ Alike

\* What every write does to the certificate.
LEMMA ReplaceFollows ==
    ASSUME Types, NEW f \in File, NEW c, Replace(f, c) \/ Put(f, c)
    PROVE  Follows
<1>1. IsFiles(file)
  BY DiskFacts DEF Types, DiskTypes
<1>2. CASE Replace(f, c)
  <2>1. \A g \in File \ {f} : file'[g] = file[g]
    BY <1>1, <1>2, Replaced
  <2>2. f \notin TableFile => Alike
    BY <2>1, FileNames DEF Alike, TableFile
  <2> QED BY <1>2, <2>2 DEF Replace, Follows, Certifies
<1>3. CASE UNCHANGED <<file, moved, cert>>
  BY <1>3 DEF Follows, Alike
<1> QED BY <1>2, <1>3 DEF Put

\* The same of removals.
LEMMA RemoveFollows ==
    ASSUME Types, NEW files \in SUBSET File, Remove(files)
    PROVE  Follows /\ Alike
<1>1. Alike
  BY FileNames DEF Remove, Alike
<1> QED BY <1>1 DEF Remove, Follows, Certifies

\* Where nothing is about to be certified.
LEMMA SafeAgrees ==
    ASSUME AgreeInv, Follows \/ (UNCHANGED <<cert, file>>) \/ (cert' = Missing), UNCHANGED base,
           pc' \in Safe \cup {"states", "base"} \/ (pc' = "idle" /\ ~certified')
    PROVE  AgreeInv'
<1>1. (cert # Missing /\ Certifies(cert) => Agreed(file, base))'
  <2>1. CASE UNCHANGED <<cert, file>>
    BY <2>1 DEF AgreeInv
  <2>2. CASE cert' = Missing
    BY <2>2
  <2>3. CASE Follows
    BY <2>3, AlikeAgrees DEF AgreeInv, Follows
  <2> QED BY <2>1, <2>2, <2>3
<1> QED BY <1>1 DEF AgreeInv, Safe

\* A commit is newer than the baseline.
LEMMA CommitAgrees ==
    ASSUME Types, GenInv, req.kind = "commit"
    PROVE  Unedited(new, base)
<1>1. base # Missing => base.generation \in Nat
  BY DEF Types, DiskTypes, Baseline
<1> QED BY <1>1 DEF GenInv, Unedited, GenOf

\* A commit certifies what it made after the baseline.
LEMMA CommitAgree ==
    ASSUME Types, AgreeInv, GenInv,
           Backup \/ Move \/ Chmod \/ Compare \/ Cleanup \/ TailEnd \/ Restore \/ Late
    PROVE  AgreeInv'
<1>1. CASE TailEnd
  BY <1>1 DEF TailEnd, disk, holder, AgreeInv
<1>2. CASE Compare
  <2>1. /\ UNCHANGED <<file, cert, base>> /\ pc = "compare"
        /\ \/ pc' = "stat" /\ file = new
           \/ pc' = "uncertify"
    BY <1>2 DEF Compare, Kept, KeptBut, Goto
  <2>2. Unedited(new, base)
    BY <2>1, CommitAgrees DEF GenInv
  <2> QED BY <2>1, <2>2 DEF AgreeInv, Agreed
<1>3. CASE Backup \/ Chmod \/ Cleanup
  <2>1. UNCHANGED <<file, cert, base>> /\ pc' \in Safe \cup {"backup", "move", "compare"}
    BY <1>3 DEF Backup, Chmod, Cleanup, Kept, KeptBut, NextFile, Fails, Goto, Safe
  <2> QED BY <2>1 DEF AgreeInv, Safe
<1>4. CASE Move
  <2>1. Follows
    BY <1>4, OrderIsFile, ReplaceFollows DEF Move, Follows, Alike, Types
  <2>2. UNCHANGED base /\ pc' \in {"move", "chmod", "restore"}
    BY <1>4 DEF Move, Kept, KeptBut, NextFile, Fails, Goto
  <2>3. (cert # Missing /\ Certifies(cert) => Agreed(file, base))'
    BY <2>1, <2>2, AlikeAgrees DEF AgreeInv, Follows
  <2> QED BY <2>2, <2>3 DEF AgreeInv
<1>5. CASE Restore
  <2>1. Follows
    BY <1>5, OrderIsFile, ReplaceFollows DEF Restore, Types
  <2>2. UNCHANGED base /\ (pc' \in Safe \/ (pc' = "idle" /\ ~certified'))
    BY <1>5 DEF Restore, KeptBut, End, Goto, Safe
  <2> QED BY <2>1, <2>2, SafeAgrees
<1>6. CASE Late
  <2>1. Follows
    BY <1>6, RemoveFollows DEF Late, NoBackup
  <2>2. UNCHANGED base /\ pc' = "idle" /\ ~certified'
    BY <1>6 DEF Late, Kept, KeptBut, End, Goto
  <2> QED BY <2>1, <2>2, SafeAgrees
<1> QED BY <1>1, <1>2, <1>3, <1>4, <1>5, <1>6

\* Its end and every interruption certify nothing.
LEMMA EndingAgree ==
    ASSUME Types, AgreeInv, Release \/ Signal \/ TailSignal \/ Kill
    PROVE  AgreeInv'
<1>1. CASE Release \/ Signal
  <2>1. UNCHANGED <<file, cert, base>> /\ (pc' \in Safe \/ (pc' = "idle" /\ ~certified'))
    BY <1>1 DEF Release, Signal, disk, End, Goto, Safe
  <2> QED BY <2>1, SafeAgrees
<1>2. CASE TailSignal
  <2>1. tail \in SUBSET File /\ Remove(tail) /\ UNCHANGED <<pc, certified, saw, base>>
    BY <1>2 DEF TailSignal, Types, DiskTypes, Marks, holder
  <2>2. Follows /\ Alike
    BY <2>1, RemoveFollows
  <2>3. Agreed(file, base) => Agreed(file', base')
    BY <2>1, <2>2, AlikeAgrees
  <2>4. file'["pkgs"] \in {file["pkgs"], Missing}
    BY <2>2 DEF Alike
  <2>5. /\ Certifies(moved') => Certifies(moved)
        /\ cert' # Missing /\ Certifies(cert') => cert # Missing /\ Certifies(cert)
    BY <2>2 DEF Follows
  <2> QED BY <2>1, <2>3, <2>4, <2>5 DEF AgreeInv, Based
<1>3. CASE Kill
  <2>1. Follows
    BY <1>3, OrderIsFile, ReplaceFollows DEF Kill, Types, Follows, Alike
  <2>2. UNCHANGED base /\ pc' = "idle" /\ ~certified'
    BY <1>3 DEF Kill, End, Goto
  <2> QED BY <2>1, <2>2, SafeAgrees
<1> QED BY <1>1, <1>2, <1>3

\* The fingerprint is written for files that agree.
LEMMA FingerprintAgree ==
    ASSUME Types, AgreeInv, Fingerprint
    PROVE  AgreeInv'
<1>1. UNCHANGED <<file, certified, base>>
  BY DEF Fingerprint, Stat, Certify, Uncertify, Kept, KeptBut, holder
<1>2. CASE Stat
  <2>1. UNCHANGED cert /\ pc = "stat" /\ pc' \in {"certify", "uncertify"}
    BY <1>2 DEF Stat, Goto
  <2> QED BY <1>1, <2>1 DEF AgreeInv
<1>3. CASE Certify
  <2>1. pc = "certify" /\ pc' \in Safe /\ cert' \in {cert, moved}
    BY <1>3 DEF Certify, Goto, Finish, Safe
  <2>2. (cert # Missing /\ Certifies(cert) => Agreed(file, base))'
    BY <1>1, <2>1 DEF AgreeInv
  <2> QED BY <2>1, <2>2 DEF AgreeInv, Safe
<1>4. CASE Uncertify
  <2>1. cert' = Missing /\ pc' \in Safe
    BY <1>4 DEF Uncertify, Goto, Finish, Safe
  <2> QED BY <1>1, <2>1, SafeAgrees
<1> QED BY <1>2, <1>3, <1>4 DEF Fingerprint

\* While it matches, nobody seems to have edited the table.
LEMMA MatchesAgreed ==
    ASSUME AgreeInv, Matches
    PROVE  Unedited(file, base)
BY MissingAssumption, FileNames DEF AgreeInv, Matches, Certifies, Agreed

\* A switch leaves names and generation alone.
LEMMA SwitchingAgree ==
    ASSUME Types, AgreeInv, Switching
    PROVE  AgreeInv'
<1>1. UNCHANGED base
  BY DEF Switching, Mark, Match, MarkTable, WriteFirst, WriteSecond, UnwriteFirst,
         UnwriteSecond, Recheck, Kept, KeptBut
<1>2. CASE Mark \/ Match
  <2>1. /\ UNCHANGED <<file, cert>> /\ certified' = Matches /\ pc' \in {"mark", "first"}
    BY <1>2 DEF Mark, Match, Goto
  <2>2. certified' => Agreed(file, base)
    BY <2>1, MatchesAgreed DEF Agreed
  <2> QED BY <1>1, <2>1, <2>2 DEF AgreeInv
<1>3. CASE MarkTable
  <2>1. UNCHANGED <<file, cert, certified>> /\ pc = "mark" /\ pc' = "first"
    BY <1>3 DEF MarkTable, Goto, holder
  <2> QED BY <1>1, <2>1 DEF AgreeInv
<1>4. CASE WriteFirst \/ WriteSecond
  <2>1. /\ pc \in {"first", "second"} /\ UNCHANGED certified
        /\ pc' \in {"second", "recheck", "unfirst", "uncertify", "release"}
        /\ \/ pc = "first" /\ Put(FirstFile, FirstValue)
           \/ pc = "second" /\ Put(SecondFile, SecondValue)
           \/ UNCHANGED <<file, moved, cert>>
    BY <1>4 DEF WriteFirst, WriteSecond, Goto, Kept, KeptBut, Otherwise, holder
  <2>2. Follows
    BY <2>1, FirstFits, SecondFits, ReplaceFollows DEF Follows, Alike
  <2>3. /\ (cert # Missing /\ Certifies(cert) => Agreed(file, base))'
        /\ certified' /\ Certifies(moved') => Agreed(file', base')
    BY <1>1, <2>1, <2>2, AlikeAgrees DEF AgreeInv, Follows
  <2> QED BY <2>1, <2>3 DEF AgreeInv
<1>5. CASE UnwriteFirst \/ UnwriteSecond
  <2>1. /\ pc' \in Safe
        /\ \/ Put("state", old["state"]) \/ Put("policy", old["policy"])
           \/ UNCHANGED <<file, moved, cert>>
    BY <1>5 DEF UnwriteFirst, UnwriteSecond, Goto, Safe
  <2>2. Follows
    BY <2>1, FileNames, ReplaceFollows DEF Follows, Alike
  <2> QED BY <1>1, <2>1, <2>2, SafeAgrees
<1>6. CASE Recheck
  <2>1. pc = "recheck" /\ UNCHANGED <<file, cert, certified>>
    BY <1>6 DEF Recheck, Kept, KeptBut, holder
  <2>2. \/ pc' = "uncertify"
        \/ /\ certified /\ Certifies(moved) /\ pc' \in {"certify", "stat"}
    BY <1>6 DEF Recheck, Goto, Certifies
  <2> QED BY <1>1, <2>1, <2>2 DEF AgreeInv
<1> QED BY <1>2, <1>3, <1>4, <1>5, <1>6 DEF Switching

\* Prepare makes the baseline of the names that it has written.
LEMMA PrepareAgree ==
    ASSUME Types, AgreeInv, Prepare
    PROVE  AgreeInv'
<1>1. CASE Fast \/ FastConfirm \/ Input \/ FastGenerate \/ ReadTable
  <2>1. UNCHANGED <<file, cert, base>> /\ pc' \in Safe
    BY <1>1 DEF Fast, FastConfirm, Input, FastGenerate, ReadTable, GenerateTo, Kept, KeptBut,
                Seen, Goto, Safe
  <2> QED BY <2>1, SafeAgrees
<1>2. CASE NormaliseMode \/ NormalisePolicy \/ WritePkgs \/ WriteStates
  <2>1. PICK f, c, label, next :
            /\ f \in {"state", "policy", "pkgs", "states"}
            /\ next \in {"policy", "read", "states", "base"} /\ Normalise(label, f, c, next)
    BY <1>2 DEF NormaliseMode, NormalisePolicy, WritePkgs, WriteStates
  <2>2. /\ pc' \in Safe \cup {"states", "base"} /\ UNCHANGED base
        /\ Put(f, c) \/ UNCHANGED <<file, moved, cert>>
    BY <2>1 DEF Normalise, Goto, Safe, Kept, KeptBut
  <2>3. Follows
    BY <2>1, <2>2, FileNames, ReplaceFollows DEF Follows, Alike
  <2> QED BY <2>2, <2>3, SafeAgrees
<1>3. CASE WriteBase
  <2>1. /\ pc' \in {"output", "release"} /\ UNCHANGED <<file, cert, saw>>
        /\ \/ base' = Missing
           \/ base' = [pkgs |-> file["pkgs"], generation |-> norm.generation]
           \/ UNCHANGED base /\ pc' = "release"
    BY <1>3 DEF WriteBase, Goto, holder
  <2>2. CASE UNCHANGED base /\ pc' = "release"
    BY <2>1, <2>2, SafeAgrees DEF Safe
  <2>3. CASE base' = Missing \/ base' = [pkgs |-> file["pkgs"], generation |-> norm.generation]
    <3>1. Based(file, base')
      BY <2>3 DEF Based
    <3>2. Agreed(file', base')
      BY <2>1, <3>1 DEF Agreed, Unedited, Based
    <3>3. CASE pc' = "output"
      BY <2>1, <3>1, <3>2, <3>3 DEF AgreeInv, Based
    <3>4. CASE pc' = "release"
      BY <2>1, <3>2, <3>4 DEF AgreeInv
    <3> QED BY <2>1, <3>3, <3>4
  <2> QED BY <2>1, <2>2, <2>3
<1>4. CASE Output
  <2>1. /\ pc = "output" /\ UNCHANGED <<file, cert, saw, base>>
        /\ \/ pc' \in Safe
           \/ pc' = "generate" /\ file = saw
    BY <1>4 DEF Output, Again, Kept, KeptBut, Goto, Safe
  <2> QED BY <2>1 DEF AgreeInv, Based, Safe
<1>5. CASE Generate
  <2>1. /\ pc = "generate" /\ pc' \in {"confirm", "release"}
        /\ UNCHANGED <<file, cert, saw, base>>
    BY <1>5 DEF Generate, GenerateTo, Goto, holder
  <2> QED BY <2>1 DEF AgreeInv, Based
<1>6. CASE Confirm
  <2>1. /\ pc = "confirm" /\ UNCHANGED <<file, cert, saw, base>>
        /\ \/ pc' \in Safe
           \/ pc' = "stat" /\ file = saw
    BY <1>6 DEF Confirm, Again, Seen, Goto, Safe
  <2>2. Based(saw, base) \/ saw["pkgs"] = Missing
    BY <2>1 DEF AgreeInv
  <2>3. Agreed(saw, base)
    BY <2>2 DEF Agreed, Based, Unedited
  <2> QED BY <2>1, <2>3 DEF AgreeInv, Safe
<1> QED BY <1>1, <1>2, <1>3, <1>4, <1>5, <1>6 DEF Prepare

\* A beginning changes no file.
LEMMA BeginAgree ==
    ASSUME CertInv, AgreeInv, Begin
    PROVE  AgreeInv'
<1>1. /\ UNCHANGED <<file, cert, certified, base>> /\ ~certified
      /\ req' \in Command /\ pc' = First(req'.kind)
  BY DEF Begin, disk, Goto, CertInv
<1>2. pc' \in {"backup", "mark", "match", "second", "fast"}
  BY <1>1, CommandFacts DEF First
<1> QED BY <1>1, <1>2 DEF AgreeInv

\* An edit takes the certificate away.
LEMMA EditAgree ==
    ASSUME Types, AgreeInv, Edit, ~Repeat, EditAt \cap {"stat", "mark"} = {}
    PROVE  AgreeInv'
<1>1. PICK f \in {"state", "policy", "pkgs", "states"}, c \in UNION {EditedPkgs, EditedStates, {Broken}} :
          Replace(f, c) /\ (pc \notin Comparing \/ c # saw[f])
  BY DEF Edit
<1>2. pc \notin {"stat", "mark"} /\ UNCHANGED <<pc, certified, saw, base>>
  BY DEF Edit, holder
<1>3. Follows
  BY <1>1, FileNames, ReplaceFollows
<1>4. file'[f] = c /\ \A g \in File \ {f} : file'[g] = file[g]
  BY <1>1, DiskFacts, Replaced, FileNames DEF Types, DiskTypes
<1>5. pc = "output" => file'["pkgs"] = file["pkgs"] \/ file'["pkgs"] # saw["pkgs"]
  BY <1>1, <1>4, FileNames DEF Comparing
<1>6. /\ Certifies(moved') => Certifies(moved) /\ (Agreed(file, base) => Agreed(file', base'))
      /\ cert' # Missing /\ Certifies(cert') =>
            cert # Missing /\ Certifies(cert) /\ (Agreed(file, base) => Agreed(file', base'))
      /\ Alike /\ Agreed(file, base) => Agreed(file', base')
  BY <1>2, <1>3, AlikeAgrees DEF Follows
<1> QED BY <1>2, <1>5, <1>6 DEF AgreeInv, Based

\* The invariant behind CertificateIsSound.
LEMMA AgreeHolds ==
    ASSUME ~Repeat, EditAt \cap {"stat", "mark"} = {}
    PROVE  Spec => []AgreeInv
<1>1. Init => AgreeInv
  BY DEF Init, AgreeInv
<1>2. Types /\ CertInv /\ Both /\ AgreeInv /\ [Next]_vars => AgreeInv'
  <2>1. SUFFICES ASSUME Types, CertInv, GenInv, AgreeInv, [Next]_vars
                 PROVE  AgreeInv'
    BY DEF Both
  <2>2. CASE UNCHANGED vars
    <3>1. UNCHANGED <<file, base, cert, moved, pc, saw, certified>>
      BY <2>2 DEF vars, disk, holder
    <3> QED BY <2>1, <3>1 DEF AgreeInv, Based
  <2>3. CASE Begin
    BY <2>1, <2>3, BeginAgree
  <2>4. CASE Release \/ Signal \/ TailSignal \/ Kill
    BY <2>1, <2>4, EndingAgree
  <2>5. CASE CommitStep
    BY <2>1, <2>5, CommitAgree DEF CommitStep
  <2>6. CASE Fingerprint \/ Switching \/ Prepare
    BY <2>1, <2>6, FingerprintAgree, SwitchingAgree, PrepareAgree
  <2>7. CASE Edit
    BY <2>1, <2>7, EditAgree
  <2> QED BY <2>1, <2>2, <2>3, <2>4, <2>5, <2>6, <2>7 DEF Next
<1> QED BY <1>1, <1>2, TypesHold, CertHolds, BothHolds, PTL DEF Spec

Steady(c, b) == Stable(c["pkgs"], c["states"], GenOf(c), b)

\* What the normalisation would not take for an edit, and is proper, it leaves.
LEMMA SteadyFacts ==
    ASSUME NEW c, NEW b, Unedited(c, b), <<c["pkgs"], c["states"]>> \in Proper
    PROVE  Steady(c, b)
<1>1. ~External(c["pkgs"], c["states"], GenOf(c), b)
  BY DEF Unedited, External
<1> QED BY <1>1, UneditedStable DEF Steady

\* While the fingerprint matches, the normalisation would leave the table alone.
LEMMA MatchesSteady ==
    ASSUME CertInv, AgreeInv, Matches
    PROVE  Steady(file, base)
<1>1. Normal(file) /\ Whole(file)
  BY MatchesNormal, FileNames DEF Matches, Whole
<1> QED BY <1>1, MatchesAgreed, SteadyFacts DEF Normal

\* Whatever faults, signals and kills there are: while the saved fingerprint
\* matches, normalize_package_config would write the table as it is, for the
\* present baseline, so the fast path may leave it out.  The conditions exclude
\* what record_normalized_fingerprint cannot see: a write between the last look
\* and the stat, and an edit that brings back just what prepare has replaced.
THEOREM CertificateIsSound ==
    ASSUME ~Repeat, EditAt \cap {"stat", "mark"} = {}
    PROVE  Spec => []CertifiedIsNormal
<1>1. CertInv /\ AgreeInv => CertifiedIsNormal
  BY MatchesSteady DEF CertifiedIsNormal, Steady, Stable, Generation
<1> QED BY <1>1, CertHolds, AgreeHolds, PTL
=============================================================================
