------------------------ MODULE TargetRecognitionProofs ------------------------
(***************************************************************************)
(* Proofs about TargetRecognition for every number of slots, every set of   *)
(* names and files, and any number of runs, kills, failures and restarts.   *)
(*                                                                         *)
(* What a run may write is decided once, in Begin, by the bytes it finds.   *)
(* The invariant says what remains true of that decision while the run and  *)
(* its rollback write: whose the parts of the function and the cave are, in *)
(* the image and in the snapshot, and that an entry which leads to a cave   *)
(* of the tail always leads to a marked one.                                *)
(***************************************************************************)
EXTENDS TargetRecognition, TLAPS

Labels == {"idle", "clear", "fill", "table", "mark", "head", "mid", "rest", "verify", "hint",
           "unhead", "unmid", "unrest", "uncave"}
Orders == {<<"str", "mark", "ptr">>, <<"ptr", "mark", "str">>}
CaveLabels == {"clear", "fill", "table", "mark", "rest", "hint", "uncave"}

Images == fn \in [Func -> Code] /\ data \in [Cave -> Data]

Places ==
    /\ hint \in [{1, 2} -> Cave \cup {NoCave}] /\ pc \in Labels /\ at \in Nat \ {0}
    /\ run.f \in Func \cup {NoFunc} /\ run.cave \in InTail \cup {NoCave} /\ run.list \in List

Control ==
    pc # "idle" =>
        /\ run.f \in Func /\ run.mode \in {"global", "whitelist"}
        /\ run.mode = "whitelist" => run.cave \in InTail
        /\ pc \in CaveLabels => run.mode = "whitelist"
        /\ pc \in {"clear", "fill", "table"} => at \in Slot
        /\ pc = "uncave" => at \in {1, 2, 3}
        /\ pc \in {"unhead", "unmid", "unrest", "uncave"} => run.undo \in Orders

\* An entry that leads into the tail leads to a marked cave.
Leads(f, d) == f.head \in InTail => d[f.head].mark = "mark"
HeadMarked == \A f \in Func : Leads(fn[f], data)

\* The snapshot was such an image, and still holds but for the run's own parts.
Snapshot ==
    pc # "idle" =>
        /\ before[1] \in [Func -> Code] /\ before[2] \in [Cave -> Data]
        /\ \A f \in Func : Leads(before[1][f], before[2])
        /\ \A f \in Func : f # run.f => fn[f] = before[1][f]
        /\ pc \in {"unmid", "unrest", "uncave"} => fn[run.f].head = before[1][run.f].head
        /\ \A c \in InTail : before[2][c].mark = "mark" => data[c].mark = "mark"

\* Nobody else's bytes are where the run writes.
OwnCode(f) == f.mid # "foreign" /\ (run.mode = "whitelist" => f.rest # "foreign")
Own ==
    pc # "idle" =>
        /\ OwnCode(fn[run.f]) /\ OwnCode(before[1][run.f])
        /\ run.mode = "whitelist" =>
              data[run.cave].mark # "foreign" /\ before[2][run.cave].mark # "foreign"

\* The run's cave is the only one with a marker; the entry is written behind it.
Sole ==
    pc # "idle" /\ run.mode = "whitelist" =>
        /\ \A c \in InTail : c # run.cave => data[c].mark # "mark"
        /\ pc = "head" => data[run.cave].mark = "mark"

IInv == Images /\ Places /\ Control /\ HeadMarked /\ Snapshot /\ Own /\ Sole /\ OneMarkedCave

USE SlotsAssumption, NameAssumption, FileAssumption

\* read_pkgs always yields a whole table.
LEMMA FileList == ASSUME NEW file PROVE ReadPkgs(file) \in List
<1> DEFINE lines == SelectSeq(file, LAMBDA l : l # "comment")
           list  == [i \in Slot |-> IF i <= Len(lines) /\ lines[i] \in Name THEN lines[i] ELSE Blank]
<1>1. list \in List
  <2> HIDE DEF lines
  <2> QED
    BY DEF List
<1>2. Default \in List
  OBVIOUS
<1>3. ReadPkgs(file) = list \/ ReadPkgs(file) = Default
  BY DEF ReadPkgs
<1> QED
  BY <1>1, <1>2, <1>3

\* A cave that setup_custom_cave takes is marked or zero, and no other is marked.
LEMMA CaveIsOurs ==
    ASSUME Images, Places, HeadMarked, OneMarkedCave, NEW f \in Func, CaveFor(fn[f]) # NoCave
    PROVE  /\ CaveFor(fn[f]) \in InTail /\ data[CaveFor(fn[f])].mark \in {"mark", "zero"}
           /\ \A c \in InTail : c # CaveFor(fn[f]) => data[c].mark # "mark"
<1> DEFINE cave == CaveFor(fn[f])
<1>1. CASE ExactStub(fn[f]) /\ fn[f].head \in InTail
  <2>1. cave = fn[f].head
    BY <1>1 DEF CaveFor
  <2>2. data[cave].mark = "mark"
    BY <1>1, <2>1 DEF HeadMarked, Leads
  <2> QED
    BY <1>1, <2>1, <2>2 DEF OneMarkedCave, Marked
<1>2. CASE ~(ExactStub(fn[f]) /\ fn[f].head \in InTail) /\ Marked(LoadHint)
  <2>1. cave = LoadHint
    BY <1>2 DEF CaveFor
  <2> QED
    BY <1>2, <2>1 DEF OneMarkedCave, Marked
<1>3. CASE ~(ExactStub(fn[f]) /\ fn[f].head \in InTail) /\ ~Marked(LoadHint)
  <2>1. cave = IF UniqueMarked # NoCave THEN UniqueMarked
               ELSE IF data["tail"] = Zero THEN "tail" ELSE NoCave
    BY <1>3 DEF CaveFor
  <2>2. CASE UniqueMarked # NoCave
    <3>1. cave = UniqueMarked /\ cave \in InTail /\ Marked(cave)
      BY <2>1, <2>2 DEF UniqueMarked
    <3> QED
      BY <3>1 DEF OneMarkedCave, Marked
  <2>3. CASE UniqueMarked = NoCave
    <3>1. cave = "tail" /\ data["tail"] = Zero
      BY <2>1, <2>3
    <3>2. \A c \in InTail : ~Marked(c)
      <4> SUFFICES ASSUME NEW c \in InTail, Marked(c) PROVE FALSE
        OBVIOUS
      <4>1. \E x \in InTail : Marked(x) /\ \A d \in InTail : Marked(d) => d = x
        BY DEF OneMarkedCave
      <4>2. UniqueMarked \in InTail
        BY <4>1 DEF UniqueMarked
      <4> QED
        BY <2>3, <4>2 DEF InTail, NoCave
    <3>3. data["tail"].mark = "zero"
      BY <3>1 DEF Zero
    <3> QED
      BY <3>1, <3>2, <3>3 DEF Marked, InTail
  <2> QED
    BY <2>2, <2>3
<1> QED
  BY <1>1, <1>2, <1>3

\* A function that is found has no foreign bytes where a global run writes;
\* and none where the stub goes, if it is found to have room for that.
LEMMA FunctionIsOurs ==
    ASSUME Images, NEW by \in Ways, Located(by) # NoFunc
    PROVE  /\ Located(by) \in Func /\ fn[Located(by)].mid # "foreign"
           /\ Capacity(by, fn[Located(by)]) >= 76 => fn[Located(by)].rest # "foreign"
<1> DEFINE f == Located(by)
<1>1. CASE by = "scan"
  <2>1. f = TheOnly(StockLike \cup PatchedLike)
    BY <1>1 DEF Located, Scanned
  <2>2. f \in StockLike \cup PatchedLike
    BY <2>1 DEF TheOnly
  <2>3. f \in Func
    BY <2>2 DEF StockLike, PatchedLike
  <2>4. fn[f].mid # "foreign"
    BY <2>2 DEF StockLike, PatchedLike, GlobalCandidate, ExactStub
  <2>5. Capacity(by, fn[f]) >= 76 => fn[f].rest # "foreign"
    BY <1>1 DEF Capacity, Overlay, ExactStub
  <2> QED
    BY <2>3, <2>4, <2>5
<1>2. CASE by = "symbol"
  <2>1. f = "real" /\ Recognised(fn["real"])
    BY <1>2 DEF Located
  <2>2. fn["real"].mid # "foreign" /\ fn["real"].rest # "foreign"
    BY <2>1 DEF Recognised, Stock, OwnedSuffix, Overlay, GlobalCandidate, ExactStub
  <2> QED
    BY <2>1, <2>2 DEF Func
<1> QED
  BY <1>1, <1>2 DEF Ways

\* A step of the rollback of the cave keeps the marks or restores the cave's own.
LEMMA UndoneMark ==
    ASSUME Images, Snapshot, Control, UndoCave
    PROVE  /\ data' \in [Cave -> Data]
           /\ \A c \in Cave : \/ data'[c].mark = data[c].mark
                              \/ c = run.cave /\ data'[c].mark = before[2][c].mark
<1>1. run.cave \in Cave /\ before[2][run.cave] \in Data
  BY DEF Snapshot, Control, CaveLabels, UndoCave, InTail, Cave
<1>2. CASE data' = [data EXCEPT ![run.cave].str = before[2][run.cave].str]
  BY <1>1, <1>2 DEF Images, Data
<1>3. CASE data' = [data EXCEPT ![run.cave].mark = before[2][run.cave].mark]
  BY <1>1, <1>3 DEF Images, Data
<1>4. CASE data' = [data EXCEPT ![run.cave].ptr = before[2][run.cave].ptr]
  BY <1>1, <1>4 DEF Images, Data
<1> QED
  BY <1>2, <1>3, <1>4 DEF UndoCave

\* Every step keeps the invariant: one lemma for each action.

LEMMA ClearStep == IInv /\ Clear => IInv'
<1> SUFFICES ASSUME IInv, Clear PROVE IInv'
  OBVIOUS
<1> USE DEF IInv
<1>1. Images'
  BY DEF Images, Data, Control, CaveLabels, InTail, Cave, Clear, Goto, Writing
<1>2. Places'
  BY DEF Places, Labels, Clear, Goto, Writing
<1>3. Control'
  BY DEF Control, CaveLabels, Clear, Goto, Writing
<1>4. HeadMarked'
  BY DEF HeadMarked, Leads, Control, Clear, Goto, Writing
<1>5. Snapshot'
  BY DEF Snapshot, Clear, Goto, Writing
<1>6. Own'
  BY DEF Own, OwnCode, Clear, Goto, Writing
<1>7. Sole'
  BY DEF Sole, Clear, Goto, Writing
<1>8. OneMarkedCave'
  BY DEF OneMarkedCave, Marked, Clear
<1> QED
  BY <1>1, <1>2, <1>3, <1>4, <1>5, <1>6, <1>7, <1>8

LEMMA FillStep == IInv /\ Fill => IInv'
<1> SUFFICES ASSUME IInv, Fill PROVE IInv'
  OBVIOUS
<1> USE DEF IInv
<1>1. Images'
  BY DEF Images, Places, Control, Snapshot, Code, Data, Heads, Mids, InTail, Cave, Func,
         List, CaveLabels, Orders, Fill, Goto, Writing
<1>2. Places'
  BY DEF Places, Labels, Fill, Goto, Writing
<1>3. Control'
  BY DEF Control, CaveLabels, Slot, Fill, Goto, Writing
<1>4. HeadMarked'
  BY DEF HeadMarked, Leads, Control, Fill, Goto, Writing
<1>5. Snapshot'
  BY DEF Snapshot, Fill, Goto, Writing
<1>6. Own'
  BY DEF Own, OwnCode, Fill, Goto, Writing
<1>7. Sole'
  BY DEF Sole, Fill, Goto, Writing
<1>8. OneMarkedCave'
  BY DEF OneMarkedCave, Marked, Fill
<1> QED
  BY <1>1, <1>2, <1>3, <1>4, <1>5, <1>6, <1>7, <1>8

LEMMA WriteTableStep == IInv /\ WriteTable => IInv'
<1> SUFFICES ASSUME IInv, WriteTable PROVE IInv'
  OBVIOUS
<1> USE DEF IInv
<1>1. Images'
  <2> DEFINE word == IF data[run.cave].str[at] = Blank THEN "null" ELSE "set"
  <2>1. word \in {"null", "set"}
    OBVIOUS
  <2>2. fn' = fn /\ data' = [data EXCEPT ![run.cave].ptr[at] = word]
    BY DEF WriteTable, Writing
  <2> HIDE DEF word
  <2> QED
    BY <2>1, <2>2 DEF Images, Data
<1>2. Places'
  BY DEF Places, Labels, WriteTable, Goto, Writing
<1>3. Control'
  BY DEF Control, CaveLabels, Slot, WriteTable, Goto, Writing
<1>4. HeadMarked'
  BY DEF HeadMarked, Leads, Control, WriteTable, Goto, Writing
<1>5. Snapshot'
  BY DEF Snapshot, WriteTable, Goto, Writing
<1>6. Own'
  BY DEF Own, OwnCode, WriteTable, Goto, Writing
<1>7. Sole'
  BY DEF Sole, WriteTable, Goto, Writing
<1>8. OneMarkedCave'
  BY DEF OneMarkedCave, Marked, WriteTable
<1> QED
  BY <1>1, <1>2, <1>3, <1>4, <1>5, <1>6, <1>7, <1>8

LEMMA WriteMarkerStep == IInv /\ WriteMarker => IInv'
<1> SUFFICES ASSUME IInv, WriteMarker PROVE IInv'
  OBVIOUS
<1> USE DEF IInv
<1>1. Images'
  BY DEF Images, Data, Control, CaveLabels, InTail, Cave, WriteMarker, Goto, Writing
<1>2. Places'
  BY DEF Places, Labels, WriteMarker, Goto, Writing
<1>3. Control'
  BY DEF Control, CaveLabels, WriteMarker, Goto, Writing
<1>4. HeadMarked'
  BY DEF HeadMarked, Leads, Control, WriteMarker, Goto, Writing
<1>5. Snapshot'
  BY DEF Snapshot, WriteMarker, Goto, Writing
<1>6. Own'
  BY DEF Own, OwnCode, WriteMarker, Goto, Writing
<1>7. Sole'
  BY DEF Sole, Images, Control, InTail, Cave, WriteMarker, Goto, Writing
<1>8. OneMarkedCave'
  BY DEF Images, Places, Control, Snapshot, Sole, OneMarkedCave, Marked, CaveLabels, InTail,
         Cave, Data, Orders, WriteMarker, Goto, Writing
<1> QED
  BY <1>1, <1>2, <1>3, <1>4, <1>5, <1>6, <1>7, <1>8

LEMMA WriteHeadStep == IInv /\ WriteHead => IInv'
<1> SUFFICES ASSUME IInv, WriteHead PROVE IInv'
  OBVIOUS
<1> USE DEF IInv
<1>1. Images'
  BY DEF Images, Places, Control, Snapshot, Code, Data, Heads, Mids, InTail, Cave, Func,
         List, CaveLabels, Orders, WriteHead, Goto, Writing
<1>2. Places'
  BY DEF Places, Labels, WriteHead, Goto, Writing
<1>3. Control'
  BY DEF Control, CaveLabels, WriteHead, Goto, Writing
<1>4. HeadMarked'
  BY DEF Images, Places, Control, Snapshot, Sole, HeadMarked, Leads, CaveLabels, InTail,
         Code, Data, Orders, WriteHead, Goto, Writing
<1>5. Snapshot'
  BY DEF Snapshot, WriteHead, Goto, Writing
<1>6. Own'
  BY DEF Own, OwnCode, WriteHead, Goto, Writing
<1>7. Sole'
  BY DEF Sole, WriteHead, Goto, Writing
<1>8. OneMarkedCave'
  BY DEF OneMarkedCave, Marked, WriteHead
<1> QED
  BY <1>1, <1>2, <1>3, <1>4, <1>5, <1>6, <1>7, <1>8

LEMMA WriteMidStep == IInv /\ WriteMid => IInv'
<1> SUFFICES ASSUME IInv, WriteMid PROVE IInv'
  OBVIOUS
<1> USE DEF IInv
<1>1. Images'
  BY DEF Images, Places, Control, Snapshot, Code, Data, Heads, Mids, InTail, Cave, Func,
         List, CaveLabels, Orders, WriteMid, Goto, Writing
<1>2. Places'
  BY DEF Places, Labels, WriteMid, Goto, Writing
<1>3. Control'
  BY DEF Control, CaveLabels, WriteMid, Goto, Writing
<1>4. HeadMarked'
  BY DEF HeadMarked, Leads, Control, WriteMid, Goto, Writing
<1>5. Snapshot'
  BY DEF Snapshot, WriteMid, Goto, Writing
<1>6. Own'
  BY DEF Own, OwnCode, WriteMid, Goto, Writing
<1>7. Sole'
  BY DEF Sole, WriteMid, Goto, Writing
<1>8. OneMarkedCave'
  BY DEF OneMarkedCave, Marked, WriteMid
<1> QED
  BY <1>1, <1>2, <1>3, <1>4, <1>5, <1>6, <1>7, <1>8

LEMMA WriteRestStep == IInv /\ WriteRest => IInv'
<1> SUFFICES ASSUME IInv, WriteRest PROVE IInv'
  OBVIOUS
<1> USE DEF IInv
<1>1. Images'
  BY DEF Images, Code, Control, Heads, WriteRest, Goto, Writing
<1>2. Places'
  BY DEF Places, Labels, WriteRest, Goto, Writing
<1>3. Control'
  BY DEF Control, CaveLabels, WriteRest, Goto, Writing
<1>4. HeadMarked'
  BY DEF HeadMarked, Leads, Control, WriteRest, Goto, Writing
<1>5. Snapshot'
  BY DEF Snapshot, WriteRest, Goto, Writing
<1>6. Own'
  BY DEF Own, OwnCode, WriteRest, Goto, Writing
<1>7. Sole'
  BY DEF Sole, WriteRest, Goto, Writing
<1>8. OneMarkedCave'
  BY DEF OneMarkedCave, Marked, WriteRest
<1> QED
  BY <1>1, <1>2, <1>3, <1>4, <1>5, <1>6, <1>7, <1>8

LEMMA VerifyStep == IInv /\ Verify => IInv'
<1> SUFFICES ASSUME IInv, Verify PROVE IInv'
  OBVIOUS
<1> USE DEF IInv
<1>1. Images'
  BY DEF Images, Verify, image
<1>2. Places'
  BY DEF Places, Labels, NoRun, Verify, image, Goto, Exit
<1>3. Control'
  BY DEF Control, CaveLabels, Verify, image, Goto, Exit
<1>4. HeadMarked'
  BY DEF HeadMarked, Verify, image
<1>5. Snapshot'
  BY DEF Snapshot, Verify, image, Goto, Exit
<1>6. Own'
  BY DEF Own, OwnCode, Verify, image, Goto, Exit
<1>7. Sole'
  BY DEF Sole, Verify, image, Goto, Exit
<1>8. OneMarkedCave'
  BY DEF OneMarkedCave, Marked, Verify, image
<1> QED
  BY <1>1, <1>2, <1>3, <1>4, <1>5, <1>6, <1>7, <1>8

LEMMA SaveHintStep == IInv /\ SaveHint => IInv'
<1> SUFFICES ASSUME IInv, SaveHint PROVE IInv'
  OBVIOUS
<1> USE DEF IInv
<1>1. Images'
  BY DEF Images, SaveHint, Goto, Exit, NoRun, image
<1>2. Places'
  <2> DEFINE file == (at + 1) \div 2
  <2>1. \/ hint' = hint
        \/ hint' = [hint EXCEPT ![file] = IF at % 2 = 1 THEN NoCave ELSE run.cave]
    BY DEF SaveHint
  <2> HIDE DEF file
  <2>2. hint' \in [{1, 2} -> Cave \cup {NoCave}]
    BY <2>1 DEF Places, InTail, Cave
  <2>3. pc' \in Labels /\ at' \in Nat \ {0}
    BY DEF Places, SaveHint, Goto, Exit, Labels
  <2>4. run' = run \/ run' = NoRun
    BY DEF SaveHint, Exit
  <2> QED
    BY <2>2, <2>3, <2>4 DEF Places, NoRun
<1>3. Control'
  BY DEF Control, SaveHint, Goto, Exit, NoRun, image
<1>4. HeadMarked'
  BY DEF HeadMarked, SaveHint, Goto, Exit, NoRun, image
<1>5. Snapshot'
  BY DEF Snapshot, SaveHint, Goto, Exit, NoRun, image
<1>6. Own'
  BY DEF Own, OwnCode, SaveHint, Goto, Exit, NoRun, image
<1>7. Sole'
  BY DEF Sole, SaveHint, Goto, Exit, NoRun, image
<1>8. OneMarkedCave'
  BY DEF OneMarkedCave, Marked, SaveHint, Goto, Exit, NoRun, image
<1> QED
  BY <1>1, <1>2, <1>3, <1>4, <1>5, <1>6, <1>7, <1>8

LEMMA FailStep == IInv /\ Fail => IInv'
<1> SUFFICES ASSUME IInv, Fail PROVE IInv'
  OBVIOUS
<1> USE DEF IInv
<1>1. Images'
  BY DEF Images, Fail, Goto, Trouble, image
<1>2. Places'
  BY DEF Places, Labels, Fail, Goto, Trouble, image
<1>3. Control'
  BY DEF Control, CaveLabels, Orders, Fail, Goto, Trouble, image
<1>4. HeadMarked'
  BY DEF HeadMarked, Fail, Goto, Trouble, image
<1>5. Snapshot'
  BY DEF Snapshot, Fail, Goto, Trouble, image
<1>6. Own'
  BY DEF Own, OwnCode, Fail, Goto, Trouble, image
<1>7. Sole'
  BY DEF Sole, Fail, Goto, Trouble, image
<1>8. OneMarkedCave'
  BY DEF OneMarkedCave, Marked, Fail, Goto, Trouble, image
<1> QED
  BY <1>1, <1>2, <1>3, <1>4, <1>5, <1>6, <1>7, <1>8

LEMMA UndoHeadStep == IInv /\ UndoHead => IInv'
<1> SUFFICES ASSUME IInv, UndoHead PROVE IInv'
  OBVIOUS
<1> USE DEF IInv
<1>1. Images'
  <2>1. before[1][run.f].head \in Heads
    BY DEF Snapshot, Control, UndoHead, Code
  <2>2. data' = data /\ fn' = [fn EXCEPT ![run.f].head = before[1][run.f].head]
    BY DEF UndoHead
  <2> QED
    BY <2>1, <2>2 DEF Images, Code
<1>2. Places'
  BY DEF Places, Labels, UndoHead, Goto, Writing
<1>3. Control'
  BY DEF Control, CaveLabels, UndoHead, Goto, Writing
<1>4. HeadMarked'
  <2>1. Leads(before[1][run.f], data)
    BY DEF Snapshot, Control, Leads, UndoHead
  <2>2. fn'[run.f].head = before[1][run.f].head /\ data' = data
    BY DEF Images, Control, UndoHead, Writing, Code
  <2>3. \A f \in Func : f # run.f => fn'[f] = fn[f]
    BY DEF Images, UndoHead
  <2> QED
    BY <2>1, <2>2, <2>3 DEF HeadMarked, Leads
<1>5. Snapshot'
  BY DEF Snapshot, Images, UndoHead, Goto, Writing
<1>6. Own'
  BY DEF Own, OwnCode, UndoHead, Goto, Writing
<1>7. Sole'
  BY DEF Sole, UndoHead, Goto, Writing
<1>8. OneMarkedCave'
  BY DEF OneMarkedCave, Marked, UndoHead
<1> QED
  BY <1>1, <1>2, <1>3, <1>4, <1>5, <1>6, <1>7, <1>8

LEMMA UndoMidStep == IInv /\ UndoMid => IInv'
<1> SUFFICES ASSUME IInv, UndoMid PROVE IInv'
  OBVIOUS
<1> USE DEF IInv
<1>1. Images'
  <2>1. before[1][run.f].mid \in Mids
    BY DEF Snapshot, Control, UndoMid, Code
  <2>2. data' = data /\ fn' = [fn EXCEPT ![run.f].mid = before[1][run.f].mid]
    BY DEF UndoMid
  <2> QED
    BY <2>1, <2>2 DEF Images, Code
<1>2. Places'
  BY DEF Places, Labels, UndoMid, Goto, Writing
<1>3. Control'
  BY DEF Control, CaveLabels, UndoMid, Goto, Writing
<1>4. HeadMarked'
  BY DEF HeadMarked, Leads, Control, UndoMid, Goto, Writing
<1>5. Snapshot'
  BY DEF Snapshot, UndoMid, Goto, Writing
<1>6. Own'
  BY DEF Own, OwnCode, UndoMid, Goto, Writing
<1>7. Sole'
  BY DEF Sole, UndoMid, Goto, Writing
<1>8. OneMarkedCave'
  BY DEF OneMarkedCave, Marked, UndoMid
<1> QED
  BY <1>1, <1>2, <1>3, <1>4, <1>5, <1>6, <1>7, <1>8

LEMMA UndoRestStep == IInv /\ UndoRest => IInv'
<1> SUFFICES ASSUME IInv, UndoRest PROVE IInv'
  OBVIOUS
<1> USE DEF IInv
<1>1. Images'
  BY DEF Images, Places, Control, Snapshot, Code, Data, Heads, Mids, InTail, Cave, Func,
         List, CaveLabels, Orders, UndoRest, Goto, Exit, NoRun
<1>2. Places'
  BY DEF Places, Labels, UndoRest, Goto, Exit, NoRun
<1>3. Control'
  BY DEF Control, UndoRest, Goto, Exit, NoRun
<1>4. HeadMarked'
  BY DEF HeadMarked, Leads, Images, Code, UndoRest, Goto, Exit, NoRun
<1>5. Snapshot'
  BY DEF Snapshot, Images, Code, UndoRest, Goto, Exit, NoRun
<1>6. Own'
  BY DEF Own, OwnCode, Images, Code, UndoRest, Goto, Exit, NoRun
<1>7. Sole'
  BY DEF Sole, UndoRest, Goto, Exit, NoRun
<1>8. OneMarkedCave'
  BY DEF OneMarkedCave, Marked, UndoRest
<1> QED
  BY <1>1, <1>2, <1>3, <1>4, <1>5, <1>6, <1>7, <1>8

LEMMA UndoCaveStep == IInv /\ UndoCave => IInv'
<1> SUFFICES ASSUME IInv, UndoCave PROVE IInv'
  OBVIOUS
<1> USE DEF IInv
<1>1. Images'
  BY UndoneMark DEF Images, UndoCave
<1>2. Places'
  BY DEF Places, Labels, UndoCave, Goto, NoRun
<1>3. Control'
  BY DEF Control, UndoCave, Goto, NoRun
<1>4. HeadMarked'
  <2> SUFFICES ASSUME NEW f \in Func, fn[f].head \in InTail
               PROVE  data'[fn[f].head].mark = "mark"
    BY DEF UndoCave, HeadMarked, Leads
  <2>1. fn[f].head = before[1][f].head
    BY DEF Snapshot, UndoCave
  <2>2. before[2][fn[f].head].mark = "mark" /\ data[fn[f].head].mark = "mark"
    BY <2>1 DEF Snapshot, Leads, UndoCave
  <2> QED
    BY <2>2, UndoneMark DEF InTail, Cave
<1>5. Snapshot'
  <2>1. \A c \in InTail : before[2][c].mark = "mark" => data'[c].mark = "mark"
    BY UndoneMark DEF Snapshot, UndoCave, InTail, Cave
  <2> QED
    BY <2>1 DEF Snapshot, UndoCave, Goto
<1>6. Own'
  BY UndoneMark DEF Own, OwnCode, Control, CaveLabels, UndoCave, Goto, InTail, Cave
<1>7. Sole'
  BY UndoneMark DEF Sole, UndoCave, Goto, InTail, Cave
<1>8. OneMarkedCave'
  BY UndoneMark DEF Sole, Control, CaveLabels, OneMarkedCave, Marked, UndoCave, InTail, Cave
<1> QED
  BY <1>1, <1>2, <1>3, <1>4, <1>5, <1>6, <1>7, <1>8

LEMMA KillStep == IInv /\ Kill => IInv'
<1> SUFFICES ASSUME IInv, Kill PROVE IInv'
  OBVIOUS
<1> USE DEF IInv
<1>1. Images'
  BY DEF Images, Kill, Goto, Trouble, NoRun, image
<1>2. Places'
  BY DEF Places, Labels, Kill, Goto, Trouble, NoRun, image
<1>3. Control'
  BY DEF Control, Kill, Goto, Trouble, NoRun, image
<1>4. HeadMarked'
  BY DEF HeadMarked, Kill, Goto, Trouble, NoRun, image
<1>5. Snapshot'
  BY DEF Snapshot, Kill, Goto, Trouble, NoRun, image
<1>6. Own'
  BY DEF Own, OwnCode, Kill, Goto, Trouble, NoRun, image
<1>7. Sole'
  BY DEF Sole, Kill, Goto, Trouble, NoRun, image
<1>8. OneMarkedCave'
  BY DEF OneMarkedCave, Marked, Kill, Goto, Trouble, NoRun, image
<1> QED
  BY <1>1, <1>2, <1>3, <1>4, <1>5, <1>6, <1>7, <1>8

LEMMA HookStep == IInv /\ Hook => IInv'
<1> SUFFICES ASSUME IInv, Hook PROVE IInv'
  OBVIOUS
<1> USE DEF IInv
<1>1. Images'
  BY DEF Images, Code, Heads, Hook, Outside, Trouble
<1>2. Places'
  BY DEF Places, Hook, Outside, Trouble
<1>3. Control'
  BY DEF Control, Hook, Outside, Trouble
<1>4. HeadMarked'
  <2>1. \A f \in Func : fn'[f].head = fn[f].head \/ fn'[f].head = "jump"
    BY DEF Images, Code, Hook
  <2>2. data' = data
    BY DEF Hook
  <2> QED
    BY <2>1, <2>2 DEF HeadMarked, Leads, InTail
<1>5. Snapshot'
  BY DEF Snapshot, Hook, Outside, Trouble
<1>6. Own'
  BY DEF Own, OwnCode, Hook, Outside, Trouble
<1>7. Sole'
  BY DEF Sole, Hook, Outside, Trouble
<1>8. OneMarkedCave'
  BY DEF OneMarkedCave, Marked, Hook
<1> QED
  BY <1>1, <1>2, <1>3, <1>4, <1>5, <1>6, <1>7, <1>8

LEMMA UseTailStep == IInv /\ UseTail => IInv'
<1> SUFFICES ASSUME IInv, UseTail PROVE IInv'
  OBVIOUS
<1> USE DEF IInv
<1>1. Images'
  BY DEF Images, Data, InTail, Cave, UseTail, Outside, Trouble
<1>2. Places'
  BY DEF Places, UseTail, Outside, Trouble
<1>3. Control'
  BY DEF Control, UseTail, Outside, Trouble
<1>4. HeadMarked'
  <2>1. PICK c \in InTail : data[c] = Zero /\ data' = [data EXCEPT ![c].mark = "foreign"]
    BY DEF UseTail
  <2>2. data[c].mark # "mark"
    BY <2>1 DEF Zero
  <2>3. \A d \in Cave : d # c => data'[d] = data[d]
    BY <2>1 DEF Images
  <2> QED
    BY <2>2, <2>3 DEF HeadMarked, Leads, UseTail, InTail, Cave
<1>5. Snapshot'
  BY DEF Snapshot, UseTail, Outside, Trouble
<1>6. Own'
  BY DEF Own, OwnCode, UseTail, Outside, Trouble
<1>7. Sole'
  BY DEF Sole, UseTail, Outside, Trouble
<1>8. OneMarkedCave'
  BY DEF OneMarkedCave, Marked, UseTail
<1> QED
  BY <1>1, <1>2, <1>3, <1>4, <1>5, <1>6, <1>7, <1>8

LEMMA RestartStep == IInv /\ Restart => IInv'
<1> SUFFICES ASSUME IInv, Restart PROVE IInv'
  OBVIOUS
<1> USE DEF IInv
<1>1. Images'
  <2>1. Stock \in Code /\ Unlike \in Code /\ Zero \in Data
    BY DEF Stock, Unlike, Zero, Code, Heads, Mids, Data
  <2> QED
    BY <2>1 DEF Images, Restart
<1>2. Places'
  BY DEF Places, Restart, Outside, Trouble
<1>3. Control'
  BY DEF Control, Restart, Outside, Trouble
<1>4. HeadMarked'
  <2>1. \A f \in Func : fn'[f] \in {Stock, Unlike}
    BY DEF Restart
  <2> QED
    BY <2>1 DEF HeadMarked, Leads, Stock, Unlike, InTail
<1>5. Snapshot'
  BY DEF Snapshot, Restart, Outside, Trouble
<1>6. Own'
  BY DEF Own, OwnCode, Restart, Outside, Trouble
<1>7. Sole'
  BY DEF Sole, Restart, Outside, Trouble
<1>8. OneMarkedCave'
  <2>1. \A c \in InTail : data'[c].mark = "zero"
    BY DEF Restart, Zero, InTail, Cave
  <2> QED
    BY <2>1 DEF OneMarkedCave, Marked
<1> QED
  BY <1>1, <1>2, <1>3, <1>4, <1>5, <1>6, <1>7, <1>8

\* A run starts with its function and its cave as the locators have found them.
LEMMA BeginStep ==
    ASSUME IInv, NEW mode \in {"global", "whitelist"}, NEW by \in Ways, NEW file \in File,
           Begin(mode, by, file)
    PROVE  IInv'
<1> USE DEF IInv
<1> DEFINE f    == Located(by)
           cave == CaveFor(fn[f])
           list == ReadPkgs(file)
<1>1. \/ pc' = "idle" /\ run' = NoRun /\ at' = 1
      \/ /\ f # NoFunc
         /\ mode = "whitelist" => Capacity(by, fn[f]) >= 76 /\ cave # NoCave
         /\ run' = [mode |-> mode, by |-> by, f |-> f,
                    cave |-> IF mode = "global" THEN NoCave ELSE cave,
                    list |-> list, undo |-> <<>>]
         /\ pc' = (IF mode = "global" THEN "head" ELSE "clear") /\ at' = 1
         /\ before' = <<fn, data>>
  <2>1. Capacity(by, fn[f]) \in Nat
    BY DEF Capacity
  <2> QED
    BY <2>1 DEF Begin, Exit, Goto, image
<1>2. fn' = fn /\ data' = data /\ hint' = hint
  BY DEF Begin, image
<1>3. list \in List
  BY FileList
<1>4. Images' /\ HeadMarked' /\ OneMarkedCave'
  BY <1>2 DEF Images, HeadMarked, OneMarkedCave, Marked
<1>5. CASE pc' = "idle" /\ run' = NoRun /\ at' = 1
  BY <1>2, <1>4, <1>5 DEF Places, Labels, Control, Snapshot, Own, Sole, NoRun
<1>6. CASE ~(pc' = "idle" /\ run' = NoRun /\ at' = 1)
  <2>1. f \in Func /\ fn[f].mid # "foreign" /\ (mode = "whitelist" => fn[f].rest # "foreign")
    BY <1>1, <1>6, FunctionIsOurs
  <2>2. mode = "whitelist" =>
          /\ cave \in InTail /\ data[cave].mark \in {"mark", "zero"}
          /\ \A c \in InTail : c # cave => data[c].mark # "mark"
    BY <1>1, <1>6, <2>1, CaveIsOurs
  <2>3. run'.mode = mode /\ run'.f = f /\ run'.list = list
        /\ run'.cave = IF mode = "global" THEN NoCave ELSE cave
    BY <1>1, <1>6
  <2>4. pc' = (IF mode = "global" THEN "head" ELSE "clear") /\ at' = 1
        /\ before'[1] = fn /\ before'[2] = data
    BY <1>1, <1>6
  <2> HIDE DEF f, cave, list
  <2>5. Places'
    BY <1>2, <1>3, <2>1, <2>2, <2>3, <2>4 DEF Places, Labels
  <2>6. Control'
    BY <2>1, <2>2, <2>3, <2>4 DEF Control, CaveLabels, Slot
  <2>7. Snapshot'
    BY <1>2, <2>3, <2>4 DEF Snapshot, Images, HeadMarked
  <2>8. Own'
    BY <1>2, <2>1, <2>2, <2>3, <2>4 DEF Own, OwnCode
  <2>9. Sole'
    BY <1>2, <2>2, <2>3, <2>4 DEF Sole
  <2> QED
    BY <1>4, <2>5, <2>6, <2>7, <2>8, <2>9
<1> QED
  BY <1>5, <1>6

LEMMA InitInv == Init => IInv
<1> SUFFICES ASSUME Init PROVE IInv
  OBVIOUS
<1>1. PICK start \in Start, twin \in {Stock, Unlike} :
        LET cave == CASE start = "old stub" -> "bss" [] start = "moved cave" -> "other"
                      [] OTHER -> NoCave
        IN  /\ fn = [f \in Func |->
                  IF f = "twin" THEN twin
                  ELSE IF cave # NoCave THEN Stub(cave)
                  ELSE IF start = "old hook" THEN [Stock EXCEPT !.head = "jump", !.mid = "ours"]
                  ELSE Stock]
            /\ data = [c \in Cave |-> IF c = cave THEN Filled(Default) ELSE Zero]
  BY DEF Init
<1>2. \E cave \in {"bss", "other", NoCave} :
        /\ fn["twin"] \in {Stock, Unlike}
        /\ fn["real"] \in IF cave # NoCave THEN {Stub(cave)}
                          ELSE {Stock, [Stock EXCEPT !.head = "jump", !.mid = "ours"]}
        /\ fn = [f \in Func |-> fn[f]]
        /\ data = [c \in Cave |-> IF c = cave THEN Filled(Default) ELSE Zero]
  <2>1. CASE start = "old stub"
    BY <1>1, <2>1 DEF Func, NoCave
  <2>2. CASE start = "moved cave"
    BY <1>1, <2>2 DEF Func, NoCave
  <2>3. CASE start \notin {"old stub", "moved cave"}
    BY <1>1, <2>3 DEF Func
  <2> QED
    BY <2>1, <2>2, <2>3
<1>3. PICK cave \in {"bss", "other", NoCave} :
        /\ fn["twin"] \in {Stock, Unlike}
        /\ fn["real"] \in IF cave # NoCave THEN {Stub(cave)}
                          ELSE {Stock, [Stock EXCEPT !.head = "jump", !.mid = "ours"]}
        /\ fn = [f \in Func |-> fn[f]]
        /\ data = [c \in Cave |-> IF c = cave THEN Filled(Default) ELSE Zero]
  BY <1>2
<1>4. Filled(Default) \in Data /\ Zero \in Data
  BY DEF Filled, Zero, Data, List
<1>5. data \in [Cave -> Data]
  BY <1>3, <1>4
<1>6. fn["twin"] \in Code /\ fn["real"] \in Code
  <2>1. Stock \in Code /\ Unlike \in Code
        /\ [Stock EXCEPT !.head = "jump", !.mid = "ours"] \in Code
    BY DEF Stock, Unlike, Code, Heads, Mids
  <2>2. \A c \in Cave : Stub(c) \in Code
    BY DEF Stub, Code, Heads, Mids
  <2>3. cave # NoCave => cave \in Cave
    BY DEF Cave
  <2> QED
    BY <1>3, <2>1, <2>2, <2>3
<1>7. Images
  BY <1>3, <1>5, <1>6 DEF Images, Func
<1>8. HeadMarked
  <2>1. CASE cave = NoCave
    <3>1. \A f \in Func : fn[f].head \notin InTail
      <4>1. fn["twin"].head \in {"stock", "foreign"} /\ fn["real"].head \in {"stock", "jump"}
        <5>1. fn["real"] \in {Stock, [Stock EXCEPT !.head = "jump", !.mid = "ours"]}
          BY <1>3, <2>1
        <5>2. Stock.head = "stock" /\ Unlike.head = "foreign"
              /\ [Stock EXCEPT !.head = "jump", !.mid = "ours"].head = "jump"
          BY DEF Stock, Unlike
        <5> QED
          BY <1>3, <5>1, <5>2
      <4> QED
        BY <4>1 DEF Func, InTail
    <3> QED
      BY <3>1 DEF HeadMarked, Leads
  <2>2. CASE cave # NoCave
    <3>1. fn["twin"].head \notin InTail /\ fn["real"].head = cave
      BY <1>3, <2>2 DEF Stock, Unlike, Stub, InTail
    <3>2. cave \in Cave /\ data[cave].mark = "mark"
      BY <1>3, <2>2 DEF Filled, Cave
    <3> QED
      BY <3>1, <3>2 DEF HeadMarked, Leads, Func
  <2> QED
    BY <2>1, <2>2
<1>9. OneMarkedCave
  BY <1>3 DEF OneMarkedCave, Marked, Zero, InTail, Cave
<1>10. pc = "idle" /\ Places
  <2>1. PICK old \in Cave \cup {NoCave} : hint = [i \in {1, 2} |-> old]
    BY DEF Init
  <2>2. hint \in [{1, 2} -> Cave \cup {NoCave}]
    BY <2>1
  <2>3. NoRun.f = NoFunc /\ NoRun.cave = NoCave /\ NoRun.list \in List
    BY DEF NoRun
  <2> QED
    <3>1. pc = "idle" /\ at = 1 /\ run = NoRun
      BY DEF Init
    <3> QED
      BY <2>2, <2>3, <3>1 DEF Places, Labels
<1> QED
  BY <1>7, <1>8, <1>9, <1>10 DEF IInv, Control, Snapshot, Own, Sole

LEMMA NextInv == IInv /\ [Next]_vars => IInv'
<1> SUFFICES ASSUME IInv, [Next]_vars PROVE IInv'
  OBVIOUS
<1>1. CASE \E mode \in {"global", "whitelist"}, by \in Ways, file \in File : Begin(mode, by, file)
  BY <1>1, BeginStep
<1>2. CASE Clear \/ Fill \/ WriteTable \/ WriteMarker
  BY <1>2, ClearStep, FillStep, WriteTableStep, WriteMarkerStep
<1>3. CASE WriteHead \/ WriteMid \/ WriteRest \/ Verify \/ SaveHint
  BY <1>3, WriteHeadStep, WriteMidStep, WriteRestStep, VerifyStep, SaveHintStep
<1>4. CASE Fail \/ UndoHead \/ UndoMid \/ UndoRest \/ UndoCave
  BY <1>4, FailStep, UndoHeadStep, UndoMidStep, UndoRestStep, UndoCaveStep
<1>5. CASE Kill \/ Hook \/ UseTail \/ Restart
  BY <1>5, KillStep, HookStep, UseTailStep, RestartStep
<1>6. CASE UNCHANGED vars
  BY <1>6 DEF vars, image, IInv, Images, Places, Control, HeadMarked, Snapshot, Own, OwnCode, Sole,
              OneMarkedCave, Marked
<1> QED
  BY <1>1, <1>2, <1>3, <1>4, <1>5, <1>6 DEF Next

LEMMA Invariance == Spec => []IInv
  BY InitInv, NextInv, PTL DEF Spec

\* TypeOK: the functions and the caves only ever hold recognised parts, and a
\* run that writes knows its function and its cave.
THEOREM Typing == Spec => []TypeOK
<1>1. IInv => TypeOK
  BY DEF IInv, Images, Places, Control, CaveLabels, TypeOK
<1> QED
  BY <1>1, Invariance, PTL

\* OneMarkedCave: the search for the marker (find_unique_marked_cave) never
\* meets two, because a run that would mark a second cave has found the first.
THEOREM OneMarked == Spec => []OneMarkedCave
<1>1. IInv => OneMarkedCave
  BY DEF IInv
<1> QED
  BY <1>1, Invariance, PTL

\* ForeignIntact: what a run overwrites was stock or its own when it began, and
\* neither its writes nor its rollback reach further.
THEOREM ForeignBytesStay == Spec => ForeignIntact
<1> DEFINE Same ==
      pc # "idle" =>
        /\ data'["bss"] = data["bss"]
        /\ \A c \in Cave : data[c].mark = "foreign" => data'[c] = data[c]
        /\ \A f \in Func :
              /\ fn[f].mid = "foreign" => fn'[f].head = fn[f].head /\ fn'[f].mid = "foreign"
              /\ fn[f].rest = "foreign" => fn'[f].rest = "foreign"
              /\ fn'[f].body = fn[f].body
<1>1. ASSUME IInv, pc # "idle", Next PROVE Same
  <2> USE <1>1 DEF IInv
  <2>1. CASE Clear \/ Fill \/ WriteTable \/ WriteMarker \/ UndoCave
    <3>1. fn' = fn
      BY <2>1 DEF Clear, Fill, WriteTable, WriteMarker, UndoCave
    <3>2. \A c \in Cave : c # run.cave => data'[c] = data[c]
      BY <2>1 DEF Clear, Fill, WriteTable, WriteMarker, UndoCave, Images
    <3>3. run.cave \in InTail /\ data[run.cave].mark # "foreign"
      BY <2>1 DEF Clear, Fill, WriteTable, WriteMarker, UndoCave, Control, CaveLabels, Own
    <3> QED
      BY <3>1, <3>2, <3>3 DEF InTail, Cave
  <2>2. CASE WriteHead \/ WriteMid \/ WriteRest \/ UndoHead \/ UndoMid \/ UndoRest
    <3>1. data' = data
      BY <2>2 DEF WriteHead, WriteMid, WriteRest, UndoHead, UndoMid, UndoRest
    <3>2. \A f \in Func : f # run.f => fn'[f] = fn[f]
      BY <2>2 DEF WriteHead, WriteMid, WriteRest, UndoHead, UndoMid, UndoRest, Images
    <3>3. fn'[run.f].body = fn[run.f].body
      BY <2>2 DEF WriteHead, WriteMid, WriteRest, UndoHead, UndoMid, UndoRest, Images, Code, Control
    <3>4. fn[run.f].rest = "foreign" => fn'[run.f].rest = "foreign"
      BY <2>2 DEF WriteHead, WriteMid, WriteRest, UndoHead, UndoMid, UndoRest, Images, Code,
                  Control, CaveLabels, Own, OwnCode
    <3>5. fn[run.f].mid # "foreign"
      BY DEF Own, OwnCode
    <3> QED
      BY <3>1, <3>2, <3>3, <3>4, <3>5
  <2>3. CASE fn' = fn /\ data' = data
    BY <2>3
  <2> QED
    BY <2>1, <2>2, <2>3 DEF Next, Begin, Verify, SaveHint, Fail, Kill, Hook, UseTail, Restart, Outside, image
<1>2. IInv /\ [Next]_vars => [Same]_vars
  BY <1>1
<1> QED
  BY <1>2, Invariance, PTL DEF Spec, ForeignIntact
-----------------------------------------------------------------------------
(* Success is true                                                         *)

Filling  == {"clear", "fill"}
Complete == {"mark", "head", "mid", "rest", "verify", "hint"}  \* strings and pointers are

\* What a run has written so far is still there.
Strings ==
    run.mode = "whitelist" =>
        /\ pc \in Filling => \A i \in Slot : i < at => data[run.cave].str[i] = run.list[i]
        /\ pc \in Complete \cup {"table"} =>
              \A i \in Slot : data[run.cave].str[i] = run.list[i]
Pointers ==
    run.mode = "whitelist" =>
        \A i \in Slot :
            pc \in Complete \/ (pc = "table" /\ i < at) =>
                (data[run.cave].ptr[i] = "set" <=> run.list[i] # Blank)
Entry ==
    /\ run.mode = "whitelist" =>
          /\ pc \in {"mid", "rest", "verify", "hint"} => fn[run.f].head = run.cave
          /\ pc \in {"rest", "verify", "hint"} => fn[run.f].mid = "stub"
          /\ pc \in {"verify", "hint"} => fn[run.f].rest = "stub"
    /\ run.mode = "global" /\ pc \in {"mid", "verify"} => fn[run.f].head = "global"

\* Only a run that has ended says something, and an image that changes ends that.
Truth ==
    /\ pc # "idle" => result.ask = "nothing"
    /\ result.rc = 0 /\ result.ask # "nothing" =>
          Answers(fn[result.f]) = Asked(result.ask, result.list)

WInv == Strings /\ Pointers /\ Entry /\ Truth

\* The names behind the set pointers are the names of the list.
LEMMA ListedNames ==
    ASSUME NEW str, NEW ptr, NEW list,
           \A i \in Slot : ptr[i] = "set" <=> list[i] # Blank,
           \A i \in Slot : list[i] # Blank => str[i] = list[i]
    PROVE  {str[i] : i \in {j \in Slot : ptr[j] = "set"}} = {list[i] : i \in Slot} \ {Blank}
<1> DEFINE set == {j \in Slot : ptr[j] = "set"}
<1>1. ASSUME NEW x \in {str[i] : i \in set} PROVE x \in {list[i] : i \in Slot} \ {Blank}
  <2>1. PICK i \in set : x = str[i]
    BY <1>1
  <2> QED
    BY <2>1
<1>2. ASSUME NEW x \in {list[i] : i \in Slot} \ {Blank} PROVE x \in {str[i] : i \in set}
  <2>1. PICK i \in Slot : x = list[i] /\ x # Blank
    BY <1>2
  <2>2. i \in set /\ x = str[i]
    BY <2>1
  <2> QED
    BY <2>2
<1> QED
  BY <1>1, <1>2

\* A complete stub over a complete cave answers for the list.
LEMMA StubAnswers ==
    ASSUME NEW f, NEW list, ExactStub(f),
           \A i \in Slot : data[f.head].ptr[i] = "set" <=> list[i] # Blank,
           \A i \in Slot : list[i] # Blank => data[f.head].str[i] = list[i]
    PROVE  Answers(f) = Asked("whitelist", list)
<1>1. f.head # "global"
  BY DEF ExactStub, Cave
<1>2. {data[f.head].str[i] : i \in {j \in Slot : data[f.head].ptr[j] = "set"}}
        = {list[i] : i \in Slot} \ {Blank}
  BY ListedNames
<1> QED
  BY <1>1, <1>2 DEF Answers, Asked

\* What --check accepts is what was asked for.
LEMMA CheckIsTrue ==
    ASSUME Images, NEW mode \in {"global", "whitelist"}, NEW by \in Ways, NEW list,
           Check(mode, by, list) = 0
    PROVE  Answers(fn[Located(by)]) = Asked(mode, list)
<1> DEFINE f == fn[Located(by)]
<1>1. Located(by) # NoFunc
  BY DEF Check
<1>2. CASE mode = "global"
  BY <1>1, <1>2 DEF Check, Answers, Asked
<1>3. CASE mode = "whitelist"
  <2>1. TableOk(f) /\ ~Mismatch(f.head, list)
    BY <1>1, <1>3 DEF Check
  <2>2. ExactStub(f) /\ f.head \in InTail
    BY <2>1 DEF TableOk
  <2>3. \A i \in Slot : data[f.head].ptr[i] \in {"null", "set"}
    BY <2>2 DEF Images, Data, InTail, Cave
  <2>4. \A i \in Slot :
          /\ data[f.head].ptr[i] = "set" <=> list[i] # Blank
          /\ list[i] # Blank => data[f.head].str[i] = list[i]
    BY <2>1, <2>3 DEF Mismatch
  <2> QED
    BY <1>3, <2>2, <2>4, StubAnswers
<1> QED
  BY <1>2, <1>3

\* Again one lemma for each action.

LEMMA ClearTruth == IInv /\ WInv /\ Clear => WInv'
<1> SUFFICES ASSUME IInv, WInv, Clear PROVE WInv'
  OBVIOUS
<1> USE DEF IInv, WInv
<1>1. Strings'
  BY DEF Strings, Filling, Complete, Images, Data, InTail, Cave, Control, CaveLabels, Slot,
         Clear, Goto, Writing
<1>2. Pointers'
  BY DEF Pointers, Strings, Complete, Clear, Goto, Writing
<1>3. Entry'
  BY DEF Entry, Clear, Goto, Writing
<1>4. Truth'
  BY DEF Truth, Clear, Goto, Writing
<1> QED
  BY <1>1, <1>2, <1>3, <1>4

LEMMA FillTruth == IInv /\ WInv /\ Fill => WInv'
<1> SUFFICES ASSUME IInv, WInv, Fill PROVE WInv'
  OBVIOUS
<1> USE DEF IInv, WInv
<1>1. Strings'
  <2>1. data'[run.cave].str[at] = run.list[at]
        /\ \A i \in Slot : i # at => data'[run.cave].str[i] = data[run.cave].str[i]
    BY DEF Images, Data, Control, CaveLabels, InTail, Cave, Fill
  <2>2. run' = run /\ at \in Slot /\ run.mode = "whitelist"
        /\ \A i \in Slot : i < at => data[run.cave].str[i] = run.list[i]
    BY DEF Fill, Writing, Control, CaveLabels, Strings, Filling
  <2>3. CASE at < Slots
    <3>1. pc' = "clear" /\ at' = at + 1
      BY <2>3 DEF Fill, Goto
    <3> QED
      BY <2>1, <2>2, <3>1 DEF Strings, Complete, Slot
  <2>4. CASE ~(at < Slots)
    <3>1. pc' = "table" /\ \A i \in Slot : i < at \/ i = at
      BY <2>2, <2>4 DEF Fill, Goto, Slot
    <3> QED
      BY <2>1, <2>2, <3>1 DEF Strings, Filling
  <2> QED
    BY <2>3, <2>4
<1>2. Pointers'
  BY DEF Pointers, Complete, Images, Data, InTail, Cave, Control, CaveLabels, Slot, Fill,
         Goto, Writing
<1>3. Entry'
  BY DEF Entry, Fill, Goto, Writing
<1>4. Truth'
  BY DEF Truth, Fill, Goto, Writing
<1> QED
  BY <1>1, <1>2, <1>3, <1>4

LEMMA WriteTableTruth == IInv /\ WInv /\ WriteTable => WInv'
<1> SUFFICES ASSUME IInv, WInv, WriteTable PROVE WInv'
  OBVIOUS
<1> USE DEF IInv, WInv
<1>1. Strings'
  BY DEF Strings, WriteTable, Goto, Writing
<1>2. Pointers'
  BY DEF Pointers, Strings, Complete, Images, Data, InTail, Cave, Control, CaveLabels, Slot,
         WriteTable, Goto, Writing
<1>3. Entry'
  BY DEF Entry, WriteTable, Goto, Writing
<1>4. Truth'
  BY DEF Truth, WriteTable, Goto, Writing
<1> QED
  BY <1>1, <1>2, <1>3, <1>4

LEMMA WriteMarkerTruth == IInv /\ WInv /\ WriteMarker => WInv'
<1> SUFFICES ASSUME IInv, WInv, WriteMarker PROVE WInv'
  OBVIOUS
<1> USE DEF IInv, WInv
<1>1. Strings'
  BY DEF Strings, Filling, Complete, WriteMarker, Goto, Writing
<1>2. Pointers'
  BY DEF Pointers, Strings, Complete, WriteMarker, Goto, Writing
<1>3. Entry'
  BY DEF Entry, WriteMarker, Goto, Writing
<1>4. Truth'
  BY DEF Truth, WriteMarker, Goto, Writing
<1> QED
  BY <1>1, <1>2, <1>3, <1>4

LEMMA WriteHeadTruth == IInv /\ WInv /\ WriteHead => WInv'
<1> SUFFICES ASSUME IInv, WInv, WriteHead PROVE WInv'
  OBVIOUS
<1> USE DEF IInv, WInv
<1>1. Strings'
  BY DEF Strings, Filling, Complete, WriteHead, Goto, Writing
<1>2. Pointers'
  BY DEF Pointers, Strings, Complete, WriteHead, Goto, Writing
<1>3. Entry'
  BY DEF Entry, Images, Control, WriteHead, Goto, Writing
<1>4. Truth'
  BY DEF Truth, WriteHead, Goto, Writing
<1> QED
  BY <1>1, <1>2, <1>3, <1>4

LEMMA WriteMidTruth == IInv /\ WInv /\ WriteMid => WInv'
<1> SUFFICES ASSUME IInv, WInv, WriteMid PROVE WInv'
  OBVIOUS
<1> USE DEF IInv, WInv
<1>1. Strings'
  BY DEF Strings, Filling, Complete, WriteMid, Goto, Writing
<1>2. Pointers'
  BY DEF Pointers, Strings, Complete, WriteMid, Goto, Writing
<1>3. Entry'
  BY DEF Entry, Images, Control, WriteMid, Goto, Writing
<1>4. Truth'
  BY DEF Truth, WriteMid, Goto, Writing
<1> QED
  BY <1>1, <1>2, <1>3, <1>4

LEMMA WriteRestTruth == IInv /\ WInv /\ WriteRest => WInv'
<1> SUFFICES ASSUME IInv, WInv, WriteRest PROVE WInv'
  OBVIOUS
<1> USE DEF IInv, WInv
<1>1. Strings'
  BY DEF Strings, Filling, Complete, WriteRest, Goto, Writing
<1>2. Pointers'
  BY DEF Pointers, Strings, Complete, WriteRest, Goto, Writing
<1>3. Entry'
  BY DEF Images, Code, Control, Entry, CaveLabels, WriteRest, Goto, Writing
<1>4. Truth'
  BY DEF Truth, WriteRest, Goto, Writing
<1> QED
  BY <1>1, <1>2, <1>3, <1>4

LEMMA VerifyTruth == IInv /\ WInv /\ Verify => WInv'
<1> SUFFICES ASSUME IInv, WInv, Verify PROVE WInv'
  OBVIOUS
<1> USE DEF IInv, WInv
<1>1. Strings'
  BY DEF Strings, Filling, Complete, Verify, Goto, Exit, NoRun, image
<1>2. Pointers'
  BY DEF Pointers, Strings, Complete, Verify, Goto, Exit, NoRun, image
<1>3. Entry'
  BY DEF Entry, Verify, Goto, Exit, NoRun, image
<1>4. Truth'
  <2>1. CASE run.mode = "whitelist"
    BY <2>1 DEF Truth, Verify, Goto, image, Answers
  <2>2. CASE run.mode = "global"
    <3>1. fn[run.f].head = "global" /\ fn' = fn
      BY <2>2 DEF Entry, Verify, image
    <3>2. result'.ask = "global" /\ result'.f = run.f /\ pc' = "idle"
      BY <2>2 DEF Verify, Exit, Goto
    <3> QED
      BY <3>1, <3>2 DEF Truth, Answers, Asked
  <2> QED
    BY <2>1, <2>2 DEF Verify
<1> QED
  BY <1>1, <1>2, <1>3, <1>4

LEMMA SaveHintTruth == IInv /\ WInv /\ SaveHint => WInv'
<1> SUFFICES ASSUME IInv, WInv, SaveHint PROVE WInv'
  OBVIOUS
<1> USE DEF IInv, WInv
<1>1. Strings'
  BY DEF Strings, Filling, Complete, SaveHint, Goto, Exit, NoRun, image
<1>2. Pointers'
  BY DEF Pointers, SaveHint, Goto, Exit, NoRun, image
<1>3. Entry'
  BY DEF Entry, SaveHint, Goto, Exit, NoRun, image
<1>4. Truth'
  <2>1. CASE at < 4 /\ UNCHANGED <<run, before, result>>
    BY <2>1 DEF Truth, SaveHint, Answers, image
  <2>2. CASE at = 4 /\ Exit("whitelist", 0, run.by, run.f, run.list)
    <3>1. run.mode = "whitelist" /\ run.cave \in Cave /\ fn[run.f].head = run.cave
      BY DEF SaveHint, Control, CaveLabels, Entry, InTail, Cave
    <3>2. ExactStub(fn[run.f])
      BY <3>1 DEF SaveHint, Entry, ExactStub
    <3>3. \A i \in Slot :
            /\ data[run.cave].ptr[i] = "set" <=> run.list[i] # Blank
            /\ run.list[i] # Blank => data[run.cave].str[i] = run.list[i]
      BY <3>1 DEF SaveHint, Strings, Pointers, Complete
    <3>4. Answers(fn[run.f]) = Asked("whitelist", run.list)
      BY <3>1, <3>2, <3>3, StubAnswers
    <3>5. pc' = "idle" /\ fn' = fn /\ data' = data /\ result'.ask = "whitelist"
          /\ result'.f = run.f /\ result'.list = run.list
      BY <2>2 DEF SaveHint, Exit, Goto, image
    <3> QED
      BY <3>4, <3>5 DEF Truth, Answers
  <2> QED
    BY <2>1, <2>2 DEF SaveHint
<1> QED
  BY <1>1, <1>2, <1>3, <1>4

LEMMA FailTruth == IInv /\ WInv /\ Fail => WInv'
<1> SUFFICES ASSUME IInv, WInv, Fail PROVE WInv'
  OBVIOUS
<1> USE DEF IInv, WInv
<1>1. Strings'
  BY DEF Strings, Filling, Complete, Fail, Goto, Trouble, image
<1>2. Pointers'
  BY DEF Pointers, Strings, Complete, Fail, Goto, Trouble, image
<1>3. Entry'
  BY DEF Entry, Fail, Goto, Trouble, image
<1>4. Truth'
  BY DEF Truth, Fail
<1> QED
  BY <1>1, <1>2, <1>3, <1>4

LEMMA UndoHeadTruth == IInv /\ WInv /\ UndoHead => WInv'
<1> SUFFICES ASSUME IInv, WInv, UndoHead PROVE WInv'
  OBVIOUS
<1> USE DEF IInv, WInv
<1>1. Strings'
  BY DEF Strings, Filling, Complete, UndoHead, Goto, Writing
<1>2. Pointers'
  BY DEF Pointers, Strings, Complete, UndoHead, Goto, Writing
<1>3. Entry'
  BY DEF Entry, UndoHead, Goto, Writing
<1>4. Truth'
  BY DEF Truth, UndoHead, Goto, Writing
<1> QED
  BY <1>1, <1>2, <1>3, <1>4

LEMMA UndoMidTruth == IInv /\ WInv /\ UndoMid => WInv'
<1> SUFFICES ASSUME IInv, WInv, UndoMid PROVE WInv'
  OBVIOUS
<1> USE DEF IInv, WInv
<1>1. Strings'
  BY DEF Strings, Filling, Complete, UndoMid, Goto, Writing
<1>2. Pointers'
  BY DEF Pointers, Strings, Complete, UndoMid, Goto, Writing
<1>3. Entry'
  BY DEF Entry, UndoMid, Goto, Writing
<1>4. Truth'
  BY DEF Truth, UndoMid, Goto, Writing
<1> QED
  BY <1>1, <1>2, <1>3, <1>4

LEMMA UndoRestTruth == IInv /\ WInv /\ UndoRest => WInv'
<1> SUFFICES ASSUME IInv, WInv, UndoRest PROVE WInv'
  OBVIOUS
<1> USE DEF IInv, WInv
<1>1. Strings'
  BY DEF Strings, Filling, Complete, UndoRest, Goto, Exit, NoRun
<1>2. Pointers'
  BY DEF Pointers, Strings, Complete, UndoRest, Goto, Exit, NoRun
<1>3. Entry'
  BY DEF Entry, UndoRest, Goto, Exit, NoRun
<1>4. Truth'
  BY DEF Truth, UndoRest, Goto, Exit, NoRun
<1> QED
  BY <1>1, <1>2, <1>3, <1>4

LEMMA UndoCaveTruth == IInv /\ WInv /\ UndoCave => WInv'
<1> SUFFICES ASSUME IInv, WInv, UndoCave PROVE WInv'
  OBVIOUS
<1> USE DEF IInv, WInv
<1>1. Strings'
  BY DEF Strings, Filling, Complete, UndoCave, Goto, NoRun
<1>2. Pointers'
  BY DEF Pointers, Strings, Complete, UndoCave, Goto, NoRun
<1>3. Entry'
  BY DEF Entry, UndoCave, Goto, NoRun
<1>4. Truth'
  BY DEF Truth, UndoCave, Goto, NoRun
<1> QED
  BY <1>1, <1>2, <1>3, <1>4

LEMMA KillTruth == IInv /\ WInv /\ Kill => WInv'
<1> SUFFICES ASSUME IInv, WInv, Kill PROVE WInv'
  OBVIOUS
<1> USE DEF IInv, WInv
<1>1. Strings'
  BY DEF Strings, Kill, Goto, Trouble, NoRun, image
<1>2. Pointers'
  BY DEF Pointers, Kill, Goto, Trouble, NoRun, image
<1>3. Entry'
  BY DEF Entry, Kill, Goto, Trouble, NoRun, image
<1>4. Truth'
  BY DEF Truth, Nothing, Kill, Goto, Trouble, NoRun, image
<1> QED
  BY <1>1, <1>2, <1>3, <1>4

LEMMA HookTruth == IInv /\ WInv /\ Hook => WInv'
<1> SUFFICES ASSUME IInv, WInv, Hook PROVE WInv'
  OBVIOUS
<1> USE DEF IInv, WInv
<1>1. Strings'
  BY DEF Strings, Hook, Outside, Trouble
<1>2. Pointers'
  BY DEF Pointers, Hook, Outside, Trouble
<1>3. Entry'
  BY DEF Entry, Hook, Outside, Trouble
<1>4. Truth'
  BY DEF Truth, Nothing, Hook, Outside, Trouble
<1> QED
  BY <1>1, <1>2, <1>3, <1>4

LEMMA UseTailTruth == IInv /\ WInv /\ UseTail => WInv'
<1> SUFFICES ASSUME IInv, WInv, UseTail PROVE WInv'
  OBVIOUS
<1> USE DEF IInv, WInv
<1>1. Strings'
  BY DEF Strings, UseTail, Outside, Trouble
<1>2. Pointers'
  BY DEF Pointers, UseTail, Outside, Trouble
<1>3. Entry'
  BY DEF Entry, UseTail, Outside, Trouble
<1>4. Truth'
  BY DEF Truth, Nothing, UseTail, Outside, Trouble
<1> QED
  BY <1>1, <1>2, <1>3, <1>4

LEMMA RestartTruth == IInv /\ WInv /\ Restart => WInv'
<1> SUFFICES ASSUME IInv, WInv, Restart PROVE WInv'
  OBVIOUS
<1> USE DEF IInv, WInv
<1>1. Strings'
  BY DEF Strings, Filling, Complete, Restart, Outside, Trouble
<1>2. Pointers'
  BY DEF Pointers, Strings, Complete, Restart, Outside, Trouble
<1>3. Entry'
  BY DEF Entry, Restart, Outside, Trouble
<1>4. Truth'
  BY DEF Truth, Nothing, Restart, Outside, Trouble
<1> QED
  BY <1>1, <1>2, <1>3, <1>4

LEMMA BeginTruth ==
    ASSUME IInv, WInv, NEW mode \in {"global", "whitelist"}, NEW by \in Ways, NEW file \in File,
           Begin(mode, by, file)
    PROVE  WInv'
<1> DEFINE f == Located(by)
<1>1. CASE pc' = "idle"
  <2>1. Strings' /\ Pointers' /\ Entry'
    BY <1>1 DEF Strings, Filling, Pointers, Entry, Complete
  <2>2. fn' = fn /\ result'.ask = mode /\ result'.f = f
        /\ (result'.rc = 0 => mode = "global" /\ GlobalDone(fn[f]))
    BY <1>1 DEF Begin, Exit, Goto, image
  <2>3. Truth'
    BY <1>1, <2>2 DEF Truth, GlobalDone, Answers, Asked
  <2> QED
    BY <2>1, <2>3 DEF WInv
<1>2. CASE pc' # "idle"
  <2>1. /\ pc' = (IF mode = "global" THEN "head" ELSE "clear") /\ at' = 1
        /\ run'.mode = mode /\ result' = Nothing
    BY <1>2 DEF Begin, Exit, Goto
  <2> QED
    BY <2>1 DEF WInv, Strings, Filling, Pointers, Entry, Complete, Truth, Nothing, Slot
<1> QED
  BY <1>1, <1>2

LEMMA TruthInvariance == Spec => [](IInv /\ WInv)
<1>1. Init => WInv
  <2>1. Init => pc = "idle" /\ result = Nothing
    BY DEF Init
  <2> QED
    BY <2>1 DEF WInv, Strings, Filling, Pointers, Entry, Complete, Truth, Nothing
<1>2. ASSUME IInv, WInv, [Next]_vars PROVE WInv'
  <2>1. CASE \E mode \in {"global", "whitelist"}, by \in Ways, file \in File :
               Begin(mode, by, file)
    BY <1>2, <2>1, BeginTruth
  <2>2. CASE Clear \/ Fill \/ WriteTable \/ WriteMarker
    BY <1>2, <2>2, ClearTruth, FillTruth, WriteTableTruth, WriteMarkerTruth
  <2>3. CASE WriteHead \/ WriteMid \/ WriteRest \/ Verify \/ SaveHint
    BY <1>2, <2>3, WriteHeadTruth, WriteMidTruth, WriteRestTruth, VerifyTruth, SaveHintTruth
  <2>4. CASE Fail \/ UndoHead \/ UndoMid \/ UndoRest \/ UndoCave
    BY <1>2, <2>4, FailTruth, UndoHeadTruth, UndoMidTruth, UndoRestTruth, UndoCaveTruth
  <2>5. CASE Kill \/ Hook \/ UseTail \/ Restart
    BY <1>2, <2>5, KillTruth, HookTruth, UseTailTruth, RestartTruth
  <2>6. CASE UNCHANGED vars
    BY <1>2, <2>6 DEF vars, image, WInv, Strings, Pointers, Entry, Truth, Answers
  <2> QED
    BY <1>2, <2>1, <2>2, <2>3, <2>4, <2>5, <2>6 DEF Next
<1> QED
  BY <1>1, <1>2, Invariance, PTL DEF Spec

\* SuccessIsTrue: a run ends with success only behind its own complete table
\* and entry, and --check compares every slot with what the stub reads.
THEOREM SuccessTold == Spec => []SuccessIsTrue
<1>1. IInv /\ WInv => SuccessIsTrue
  <2> SUFFICES ASSUME IInv, WInv PROVE SuccessIsTrue
    OBVIOUS
  <2>1. result.rc = 0 /\ result.ask # "nothing" =>
          Answers(fn[result.f]) = Asked(result.ask, result.list)
    BY DEF WInv, Truth
  <2>2. \A mode \in {"global", "whitelist"}, by \in Ways,
           list \in {ReadPkgs(file) : file \in File} :
          Check(mode, by, list) = 0 => Answers(fn[Located(by)]) = Asked(mode, list)
    BY CheckIsTrue DEF IInv
  <2> QED
    BY <2>1, <2>2 DEF SuccessIsTrue
<1> QED
  BY <1>1, TruthInvariance, PTL
-----------------------------------------------------------------------------
(* Success is seen by the next run                                         *)

Forward == {"clear", "fill", "table", "mark", "head", "mid", "rest", "verify", "hint"}
Like(f) == f \in StockLike \cup PatchedLike

\* The stub is never written over the twin: without the symbol nobody knows
\* that the function has room for it.
Plain(f) == f.mid # "stub" /\ f.rest # "stub"
TwinPlain ==
    /\ Plain(fn["twin"])
    /\ pc # "idle" =>
          Plain(before[1]["twin"]) /\ run.by \in Ways /\ (run.mode = "whitelist" => run.f = "real")

\* A run that goes forward has found the only function that it could find.
Sought ==
    /\ run.by = "symbol" =>
          /\ run.f = "real" /\ fn["real"].body = "stock"
          /\ run.mode = "global" => fn["real"].rest \in {"stock", "stub"}
    /\ run.by = "scan" => \A g \in Func : g # run.f => ~Like(g)
    /\ run.mode = "global" /\ pc = "verify" => fn[run.f].mid = "nops"
TInv == TwinPlain /\ (pc \in Forward => Sought)

\* What the locators take for the twin does not depend on caves and hints.
LEMMA TwinByItself ==
    ASSUME Plain(fn["twin"])
    PROVE  Like("twin") <=> \/ fn["twin"].head = "stock" /\ fn["twin"].mid = "stock"
                            \/ fn["twin"].head = "global" /\ fn["twin"].mid \in {"stock", "nops"}
  BY DEF Plain, Like, StockLike, PatchedLike, GlobalCandidate, ExactStub, Func

\* The candidates only depend on the image and the hints.
LEMMA SameImage ==
    ASSUME fn' = fn, data' = data, hint' = hint
    PROVE  StockLike' = StockLike /\ PatchedLike' = PatchedLike
<1>1. LoadHint' = LoadHint /\ UniqueMarked' = UniqueMarked
  BY DEF LoadHint, UniqueMarked, Marked
<1>2. PatchedLike' = PatchedLike
  BY <1>1 DEF PatchedLike, GlobalCandidate, ExactStub, OwnedSuffix, Overlay, Marked
<1> QED
  BY <1>2 DEF StockLike

\* What the locators return is the only candidate, or has passed for it.
LEMMA FoundIsOnly ==
    ASSUME NEW by \in Ways, Located(by) # NoFunc
    PROVE  /\ by = "symbol" => /\ Located(by) = "real" /\ fn["real"].body = "stock"
                               /\ fn["real"].rest \in {"stock", "stub"}
           /\ by = "scan" => \A g \in Func : g # Located(by) => ~Like(g)
<1>1. ASSUME by = "symbol" PROVE Located(by) = "real" /\ Recognised(fn["real"])
  BY <1>1 DEF Located
<1>2. by = "symbol" => fn["real"].body = "stock" /\ fn["real"].rest \in {"stock", "stub"}
  BY <1>1 DEF Recognised, Stock, OwnedSuffix, Overlay, ExactStub
<1>3. ASSUME by = "scan", NEW g \in Func, Like(g) PROVE g = Located(by)
  <2>1. Located(by) = TheOnly(StockLike \cup PatchedLike)
    BY <1>3 DEF Located, Scanned
  <2> QED
    BY <1>3, <2>1 DEF TheOnly, Like
<1> QED
  BY <1>1, <1>2, <1>3

\* A complete global entry is found again and passes --check.
LEMMA GlobalSeen ==
    ASSUME NEW f \in Func, NEW by \in Ways, NEW list,
           fn[f].head = "global", fn[f].mid = "nops", ~Orphan(fn[f]),
           by = "symbol" => f = "real" /\ fn[f].body = "stock" /\ fn[f].rest \in {"stock", "stub"},
           by = "scan" => \A g \in Func : g # f => ~Like(g)
    PROVE  Located(by) = f /\ Check("global", by, list) = 0
<1>1. GlobalCandidate(fn[f])
  BY DEF Orphan, Overlay, GlobalCandidate
<1>2. Located(by) = f
  <2>1. CASE by = "symbol"
    BY <1>1, <2>1 DEF Recognised, Located, Orphan, Overlay
  <2>2. CASE by = "scan"
    <3>1. f \in StockLike \cup PatchedLike
      BY <1>1 DEF PatchedLike
    <3>2. StockLike \cup PatchedLike = {f}
      BY <2>2, <3>1 DEF Like, StockLike, PatchedLike
    <3> QED
      BY <2>2, <3>2 DEF Located, Scanned, TheOnly
  <2> QED
    BY <2>1, <2>2 DEF Ways
<1> QED
  BY <1>2 DEF Check, Func, NoFunc

\* And so is a complete stub with its table.
LEMMA StubSeen ==
    ASSUME Images, NEW f \in Func, NEW by \in Ways, NEW list \in List,
           ExactStub(fn[f]), fn[f].head \in InTail, data[fn[f].head].mark = "mark",
           \A i \in Slot : data[fn[f].head].ptr[i] = "set" <=> list[i] # Blank,
           \A i \in Slot : data[fn[f].head].str[i] = list[i],
           by = "symbol" => f = "real" /\ fn[f].body = "stock",
           by = "scan" => \A g \in Func : g # f => ~Like(g)
    PROVE  Located(by) = f /\ Check("whitelist", by, list) = 0
<1>1. Located(by) = f
  <2>1. CASE by = "symbol"
    BY <2>1 DEF Recognised, Located
  <2>2. CASE by = "scan"
    <3>1. f \in StockLike \cup PatchedLike
      BY DEF PatchedLike
    <3>2. StockLike \cup PatchedLike = {f}
      BY <2>2, <3>1 DEF Like, StockLike, PatchedLike
    <3> QED
      BY <2>2, <3>2 DEF Located, Scanned, TheOnly
  <2> QED
    BY <2>1, <2>2 DEF Ways
<1>2. \A i \in Slot : data[fn[f].head].ptr[i] \in {"null", "set"} /\ list[i] \in Name \cup {Blank}
  BY DEF Images, Data, InTail, Cave, List
<1>3. TableOk(fn[f])
  BY <1>2 DEF TableOk
<1>4. ~Mismatch(fn[f].head, list)
  BY <1>2 DEF Mismatch
<1> QED
  BY <1>1, <1>3, <1>4 DEF Check, Func, NoFunc

\* Who writes only the run's own function, and the caves and hints only for a
\* stub, leaves the others as they were found.
LEMMA OthersStay ==
    ASSUME Images, Images', TInv, pc \in Forward, run.f \in Func,
           run.mode \in {"global", "whitelist"},
           run'.f = run.f, run'.by = run.by, run'.mode = run.mode,
           \A g \in Func : g # run.f => fn'[g] = fn[g],
           run.mode = "global" => data' = data /\ hint' = hint
    PROVE  run.by = "scan" => \A g \in Func : g # run.f => ~Like(g)'
<1> SUFFICES ASSUME run.by = "scan", NEW g \in Func, g # run.f PROVE ~Like(g)'
  OBVIOUS
<1>1. fn'[g] = fn[g] /\ ~Like(g)
  BY DEF TInv, Sought
<1>2. CASE run.mode = "global"
  BY <1>1, <1>2 DEF Like, StockLike, PatchedLike, GlobalCandidate, ExactStub, OwnedSuffix, Overlay,
                    Marked, LoadHint, UniqueMarked
<1>3. CASE run.mode = "whitelist"
  <2>1. g = "twin" /\ fn'["twin"] = fn["twin"] /\ Plain(fn["twin"]) /\ Plain(fn'["twin"])
    BY <1>1, <1>3 DEF TInv, TwinPlain, Func, Forward, Plain
  <2>2. Like("twin") <=> \/ fn["twin"].head = "stock" /\ fn["twin"].mid = "stock"
                         \/ fn["twin"].head = "global" /\ fn["twin"].mid \in {"stock", "nops"}
    BY <2>1, TwinByItself
  <2>3. ~Like("twin")'
    BY <1>1, <2>1, <2>2 DEF Plain, Like, StockLike, PatchedLike, GlobalCandidate, ExactStub, Func
  <2> QED
    BY <2>1, <2>3
<1> QED
  BY <1>2, <1>3
\* A step of a run that goes on forward.
LEMMA ForwardStep ==
    ASSUME IInv, IInv', TInv, pc \in Forward, pc' \in Forward,
           Clear \/ Fill \/ WriteTable \/ WriteMarker \/ WriteHead \/ WriteMid \/ WriteRest
              \/ Verify \/ SaveHint
    PROVE  Sought'
<1> USE DEF IInv
<1>1. run.f \in Func /\ run.mode \in {"global", "whitelist"} /\ Sought
  BY DEF Control, Forward, TInv
<1>2. run' = run
  BY DEF Clear, Fill, WriteTable, WriteMarker, WriteHead, WriteMid, WriteRest, Verify, SaveHint,
         Writing, Exit, Goto, Forward
<1>3. \A g \in Func : g # run.f => fn'[g] = fn[g]
  BY <1>1 DEF Clear, Fill, WriteTable, WriteMarker, WriteHead, WriteMid, WriteRest, Verify, SaveHint,
         Images, image
<1>4. run.mode = "global" => data' = data /\ hint' = hint
  BY DEF Clear, Fill, WriteTable, WriteMarker, WriteHead, WriteMid, WriteRest, Verify, SaveHint,
         Control, CaveLabels, Writing, image
<1>5. run.by = "scan" => \A g \in Func : g # run.f => ~Like(g)'
  BY <1>1, <1>2, <1>3, <1>4, OthersStay
<1>6. fn'[run.f].body = fn[run.f].body
  BY <1>1 DEF Clear, Fill, WriteTable, WriteMarker, WriteHead, WriteMid, WriteRest, Verify, SaveHint,
         Images, Code, image
<1>7. run.mode = "global" => fn'[run.f].rest = fn[run.f].rest
  BY <1>1 DEF Clear, Fill, WriteTable, WriteMarker, WriteHead, WriteMid, WriteRest, Verify, SaveHint,
         Images, Code, image, Control, CaveLabels
<1>8. run.mode = "global" /\ pc' = "verify" => fn'[run.f].mid = "nops"
  <2>1. ASSUME run.mode = "global", pc' = "verify" PROVE WriteMid
    BY <2>1 DEF Clear, Fill, WriteTable, WriteMarker, WriteHead, WriteMid, WriteRest, Verify, SaveHint,
           Goto, Exit, Control, CaveLabels
  <2> QED
    BY <1>1, <2>1 DEF WriteMid, Images, Code
<1> QED
  BY <1>1, <1>2, <1>5, <1>6, <1>7, <1>8 DEF Sought

\* The twin stays without a stub, in the image and in the snapshot.
LEMMA TwinStays ==
    ASSUME IInv, TInv, pc # "idle", Next
    PROVE  TwinPlain'
<1> USE DEF IInv, TInv
<1>1. "twin" \in Func /\ run.f \in Func /\ run.mode \in {"global", "whitelist"}
  BY DEF Control, Func
<1>2. \/ run'.mode = run.mode /\ run'.f = run.f /\ run'.by = run.by /\ before' = before
      \/ pc' = "idle"
  <2>1. CASE Clear \/ Fill \/ WriteTable \/ WriteMarker \/ WriteHead \/ WriteMid \/ WriteRest
               \/ UndoHead \/ UndoMid
    BY <2>1 DEF Clear, Fill, WriteTable, WriteMarker, WriteHead, WriteMid, WriteRest, UndoHead,
       UndoMid, Writing
  <2>2. CASE Verify \/ SaveHint \/ UndoRest \/ UndoCave \/ Kill
    BY <2>2 DEF Verify, SaveHint, UndoRest, UndoCave, Kill, Exit, Goto
  <2>3. CASE Fail
    BY <2>3 DEF Fail
  <2> QED
    BY <2>1, <2>2, <2>3 DEF Next, Begin, Hook, UseTail, Restart, Outside
<1>3. Plain(fn'["twin"])
  <2>1. CASE WriteRest \/ UndoRest
    BY <1>1, <2>1 DEF WriteRest, UndoRest, Control, CaveLabels, TwinPlain, Images, Code, Plain, Exit
  <2>2. CASE WriteHead \/ WriteMid \/ UndoHead
    BY <1>1, <2>2 DEF WriteHead, WriteMid, UndoHead, TwinPlain, Images, Code, Plain
  <2>3. CASE UndoMid
    BY <1>1, <2>3 DEF UndoMid, TwinPlain, Images, Code, Plain
  <2>4. CASE fn' = fn
    BY <2>4 DEF TwinPlain
  <2> QED
    BY <2>1, <2>2, <2>3, <2>4 DEF Next, Begin, Clear, Fill, WriteTable, WriteMarker, Verify, SaveHint,
       Writing, Fail, UndoCave, Kill, Hook, UseTail, Restart, Outside, image
<1> QED
  BY <1>2, <1>3 DEF TwinPlain

\* A run begins with what it has found.
LEMMA BeginSought ==
    ASSUME IInv, TInv, NEW mode \in {"global", "whitelist"}, NEW by \in Ways, NEW file \in File,
           Begin(mode, by, file)
    PROVE  TInv'
<1> USE DEF IInv, TInv
<1> DEFINE f == Located(by)
<1>1. fn' = fn /\ data' = data /\ hint' = hint
  BY DEF Begin, image
<1>2. CASE pc' = "idle"
  BY <1>1, <1>2 DEF TwinPlain, Forward
<1>3. CASE pc' # "idle"
  <2>1. /\ f # NoFunc /\ run'.mode = mode /\ run'.by = by /\ run'.f = f /\ before'[1] = fn
        /\ pc' \in {"head", "clear"}
        /\ mode = "whitelist" => Capacity(by, fn[f]) >= 76
    <3>1. Capacity(by, fn[f]) \in Nat
      BY DEF Capacity
    <3> QED
      BY <1>3, <3>1 DEF Begin, Exit, Goto, image
  <2>2. f \in Func
    BY <2>1, FunctionIsOurs
  <2>5. /\ by = "symbol" => /\ f = "real" /\ fn["real"].body = "stock"
                            /\ fn["real"].rest \in {"stock", "stub"}
        /\ by = "scan" => \A g \in Func : g # f => ~Like(g)
    BY <2>1, FoundIsOnly
  <2>6. mode = "whitelist" => f = "real"
    <3>1. CASE by = "symbol"
      BY <2>5, <3>1
    <3>2. CASE by = "scan"
      BY <2>1, <2>2, <3>2 DEF Capacity, Overlay, ExactStub, TwinPlain, Plain, Func
    <3> QED
      BY <3>1, <3>2 DEF Ways
  <2>7. TwinPlain'
    BY <1>1, <2>1, <2>6 DEF TwinPlain
  <2>8. \A g \in Func : Like(g)' <=> Like(g)
    BY <1>1, SameImage DEF Like
  <2>9. Sought'
    BY <1>1, <2>1, <2>5, <2>8 DEF Sought
  <2> QED
    BY <2>7, <2>9
<1> QED
  BY <1>2, <1>3

LEMMA TwinInvariance == Spec => [](IInv /\ WInv /\ TInv)
<1>1. ASSUME Init PROVE TInv
  <2>1. pc = "idle" /\ fn["twin"] \in {Stock, Unlike}
    <3>1. PICK start \in Start, twin \in {Stock, Unlike} :
            LET cave == CASE start = "old stub" -> "bss" [] start = "moved cave" -> "other"
                          [] OTHER -> NoCave
            IN  fn = [f \in Func |->
                      IF f = "twin" THEN twin
                      ELSE IF cave # NoCave THEN Stub(cave)
                      ELSE IF start = "old hook" THEN [Stock EXCEPT !.head = "jump", !.mid = "ours"]
                      ELSE Stock]
      BY <1>1 DEF Init
    <3>2. fn["twin"] = twin
      BY <3>1 DEF Func
    <3> QED
      BY <1>1, <3>2 DEF Init
  <2> QED
    BY <2>1 DEF TInv, TwinPlain, Forward, Plain, Stock, Unlike
<1>2. ASSUME IInv, IInv', TInv, [Next]_vars PROVE TInv'
  <2>1. CASE UNCHANGED vars
    BY <1>2, <2>1 DEF vars, image, TInv, TwinPlain, Sought, Like, StockLike, PatchedLike,
       GlobalCandidate, ExactStub, OwnedSuffix, Overlay, Marked, LoadHint, UniqueMarked
  <2>2. CASE Next /\ pc # "idle"
    <3>1. TwinPlain'
      BY <1>2, <2>2, TwinStays
    <3>2. ASSUME pc' \in Forward PROVE Sought'
      <4>1. /\ pc \in Forward
            /\ Clear \/ Fill \/ WriteTable \/ WriteMarker \/ WriteHead \/ WriteMid \/ WriteRest
                 \/ Verify \/ SaveHint
        BY <2>2, <3>2 DEF Next, Begin, Clear, Fill, WriteTable, WriteMarker, WriteHead, WriteMid,
           WriteRest, Verify, SaveHint, Fail, UndoHead, UndoMid, UndoRest, UndoCave, Kill, Hook,
           UseTail, Restart, Outside, Goto, Exit, Forward
      <4> QED
        BY <1>2, <3>2, <4>1, ForwardStep
    <3> QED
      BY <3>1, <3>2 DEF TInv
  <2>3. CASE Next /\ pc = "idle"
    <3>1. CASE \E mode \in {"global", "whitelist"}, by \in Ways, file \in File :
                 Begin(mode, by, file)
      BY <1>2, <3>1, BeginSought
    <3>2. CASE Hook \/ UseTail \/ Restart
      <4>1. pc' = "idle"
        BY <3>2 DEF Hook, UseTail, Restart, Outside
      <4>2. fn'["twin"] \in {fn["twin"], Stock, Unlike}
        BY <1>2, <3>2 DEF Hook, UseTail, Restart, IInv, Images, Func
      <4>3. Plain(fn'["twin"])
        BY <1>2, <4>2 DEF Plain, Stock, Unlike, TInv, TwinPlain
      <4> QED
        BY <4>1, <4>3 DEF TInv, TwinPlain, Forward
    <3> QED
      BY <2>3, <3>1, <3>2 DEF Next, Clear, Fill, WriteTable, WriteMarker, WriteHead, WriteMid,
         WriteRest, Verify, SaveHint, Fail, UndoHead, UndoMid, UndoRest, UndoCave, Kill
  <2> QED
    BY <1>2, <2>1, <2>2, <2>3
<1> QED
  BY <1>1, <1>2, Invariance, TruthInvariance, PTL DEF Spec

\* TwinIntact: nobody who has the symbol takes the twin for the function, and a
\* scan does only where the right one is not among the candidates.
THEOREM TwinIsLeft == Spec => TwinIntact
<1> DEFINE Left == run'.f = "twin" /\ run'.f # run.f =>
                     run'.by = "scan" /\ "real" \notin StockLike \cup PatchedLike
<1>1. ASSUME Next PROVE Left
  <2> SUFFICES ASSUME run'.f = "twin", run'.f # run.f
               PROVE  run'.by = "scan" /\ "real" \notin StockLike \cup PatchedLike
    OBVIOUS
  <2>1. PICK mode \in {"global", "whitelist"}, by \in Ways, file \in File : Begin(mode, by, file)
    <3>1. ~(Clear \/ Fill \/ WriteTable \/ WriteMarker \/ WriteHead \/ WriteMid \/ WriteRest
            \/ UndoHead \/ UndoMid)
      BY DEF Clear, Fill, WriteTable, WriteMarker, WriteHead, WriteMid, WriteRest, UndoHead,
         UndoMid, Writing
    <3>2. ~(Verify \/ SaveHint \/ UndoRest \/ UndoCave \/ Kill)
      BY DEF Verify, SaveHint, UndoRest, UndoCave, Kill, Exit, NoRun, NoFunc
    <3>3. ~(Hook \/ UseTail \/ Restart)
      BY DEF Hook, UseTail, Restart, Outside
    <3>4. Fail => run'.f = run.f
      BY DEF Fail
    <3> QED
      BY <1>1, <3>1, <3>2, <3>3, <3>4 DEF Next
  <2>2. run'.f = Located(by) /\ run'.by = by
    BY <2>1 DEF Begin, Exit, NoRun, NoFunc
  <2>3. by = "scan"
    BY <2>2 DEF Located, Ways, NoFunc
  <2>4. TheOnly(StockLike \cup PatchedLike) = "twin"
    BY <2>2, <2>3 DEF Located, Scanned
  <2>5. \A g \in StockLike \cup PatchedLike : g = "twin"
    BY <2>4 DEF TheOnly, NoFunc
  <2> QED
    BY <2>2, <2>3, <2>5
<1>2. [Next]_vars => [Left]_vars
  BY <1>1
<1> QED
  BY <1>2, PTL DEF Spec, TwinIntact

\* What a run that ended with success has found and written is still so.
Proved ==
    result.ask # "nothing" /\ result.rc = 0 =>
        /\ result.f \in Func /\ result.by \in Ways
        /\ result.by = "symbol" =>
              /\ result.f = "real" /\ fn["real"].body = "stock"
              /\ result.ask = "global" => fn["real"].rest \in {"stock", "stub"}
        /\ result.by = "scan" => \A g \in Func : g # result.f => ~Like(g)
        /\ result.ask = "global" => GlobalDone(fn[result.f])
        /\ result.ask = "whitelist" =>
              LET f == fn[result.f]
              IN  /\ ExactStub(f) /\ f.head \in InTail /\ data[f.head].mark = "mark"
                  /\ result.list \in List
                  /\ \A i \in Slot : /\ data[f.head].ptr[i] = "set" <=> result.list[i] # Blank
                                     /\ data[f.head].str[i] = result.list[i]

LEMMA ProvedStep == IInv /\ IInv' /\ WInv /\ TInv /\ Proved /\ [Next]_vars => Proved'
<1> SUFFICES ASSUME IInv, IInv', WInv, TInv, Proved, [Next]_vars PROVE Proved'
  OBVIOUS
<1>1. CASE UNCHANGED vars
  <2>1. fn' = fn /\ data' = data /\ hint' = hint /\ result' = result
    BY <1>1 DEF vars, image
  <2> QED
    BY <2>1, SameImage DEF Proved, Like, GlobalDone, ExactStub
<1>2. CASE result'.ask = "nothing" \/ result'.rc # 0
  BY <1>2 DEF Proved
<1>3. ASSUME NEW mode \in {"global", "whitelist"}, NEW by \in Ways, NEW file \in File,
             Begin(mode, by, file)
      PROVE  Proved'
  <2>1. fn' = fn /\ data' = data /\ hint' = hint
    BY <1>3 DEF Begin, image
  <2>2. CASE result' = Nothing \/ result'.rc # 0
    BY <2>2 DEF Nothing, Proved
  <2>3. CASE result' # Nothing /\ result'.rc = 0
    <3>1. /\ result'.ask = "global" /\ result'.by = by /\ result'.f = Located(by)
          /\ Located(by) # NoFunc /\ GlobalDone(fn[Located(by)])
      BY <1>3, <2>3 DEF Begin, Exit
    <3>2. Located(by) \in Func
      BY <3>1, FunctionIsOurs DEF IInv
    <3>3. /\ by = "symbol" => /\ Located(by) = "real" /\ fn["real"].body = "stock"
                              /\ fn["real"].rest \in {"stock", "stub"}
          /\ by = "scan" => \A g \in Func : g # Located(by) => ~Like(g)
      BY <3>1, FoundIsOnly
    <3> QED
      BY <2>1, <3>1, <3>2, <3>3, SameImage DEF Proved, Like, GlobalDone
  <2> QED
    BY <2>2, <2>3
<1>4. CASE Verify /\ result'.ask # "nothing"
  <2>1. /\ fn' = fn /\ data' = data /\ hint' = hint /\ run.mode = "global"
        /\ result'.ask = "global" /\ result'.by = run.by /\ result'.f = run.f
    BY <1>4 DEF Verify, Exit, image, WInv, Truth
  <2>2. /\ run.f \in Func /\ run.by \in Ways /\ Sought
        /\ fn[run.f].head = "global" /\ fn[run.f].mid = "nops"
    BY <1>4, <2>1 DEF IInv, Verify, Control, TInv, TwinPlain, Forward, WInv, Entry, Sought
  <2> QED
    BY <2>1, <2>2, SameImage DEF Proved, Sought, Like, GlobalDone
<1>5. CASE SaveHint /\ result'.ask # "nothing"
  <2>1. /\ fn' = fn /\ data' = data /\ run.mode = "whitelist" /\ result'.ask = "whitelist"
        /\ result'.by = run.by /\ result'.f = run.f /\ result'.list = run.list
    BY <1>5 DEF IInv, SaveHint, Exit, image, WInv, Truth, Control, CaveLabels
  <2>2. /\ run.f = "real" /\ run.f \in Func /\ run.by \in Ways /\ Sought
        /\ run.list \in List /\ run.cave \in InTail
    BY <1>5, <2>1 DEF IInv, SaveHint, Control, Places, TInv, TwinPlain, Forward
  <2>3. /\ fn[run.f].head = run.cave /\ ExactStub(fn[run.f]) /\ data[run.cave].mark = "mark"
    BY <1>5, <2>1, <2>2 DEF IInv, SaveHint, WInv, Entry, ExactStub, InTail, Cave, HeadMarked, Leads
  <2>4. \A i \in Slot : /\ data[run.cave].ptr[i] = "set" <=> run.list[i] # Blank
                        /\ data[run.cave].str[i] = run.list[i]
    BY <1>5, <2>1 DEF SaveHint, WInv, Strings, Pointers, Complete
  <2>5. ~Like("twin") => ~Like("twin")'
    <3>1. Plain(fn["twin"])
      BY DEF TInv, TwinPlain
    <3> QED
      BY <2>1, <3>1, TwinByItself DEF Plain, Like, StockLike, PatchedLike, GlobalCandidate, ExactStub, Func
  <2>6. run.by = "scan" => \A g \in Func : g # run.f => ~Like(g)'
    BY <2>2, <2>5 DEF Sought, Func
  <2> QED
    BY <2>1, <2>2, <2>3, <2>4, <2>6 DEF Proved, Sought, ExactStub
<1>6. CASE Next
  <2>1. pc # "idle" => result.ask = "nothing"
    BY DEF WInv, Truth
  <2>2. CASE Clear \/ Fill \/ WriteTable \/ WriteMarker \/ WriteHead \/ WriteMid \/ WriteRest
               \/ Fail \/ UndoHead \/ UndoMid
    BY <1>2, <2>1, <2>2 DEF Clear, Fill, WriteTable, WriteMarker, WriteHead, WriteMid, WriteRest,
       Fail, UndoHead, UndoMid, Writing
  <2>3. CASE UndoRest \/ UndoCave
    BY <1>2, <2>1, <2>3 DEF UndoRest, UndoCave, Exit
  <2>4. CASE Kill \/ Hook \/ UseTail \/ Restart
    BY <1>2, <2>4 DEF Kill, Hook, UseTail, Restart, Outside, Nothing
  <2> QED
    BY <1>2, <1>3, <1>4, <1>5, <1>6, <2>2, <2>3, <2>4 DEF Next
<1> QED
  BY <1>1, <1>6

\* SuccessIsSeen: what a run has completed is what the locators look for, and
\* nothing that the run has not written can be taken for it.
THEOREM SuccessAgrees == Spec => []SuccessIsSeen
<1>1. Init => Proved
  <2>1. Init => result = Nothing
    BY DEF Init
  <2> QED
    BY <2>1 DEF Nothing, Proved
<1>2. IInv /\ Proved => SuccessIsSeen
  <2> SUFFICES ASSUME IInv, Proved, result.ask \in {"global", "whitelist"}, result.rc = 0,
                      ~Orphan(fn[result.f])
               PROVE  /\ Located(result.by) = result.f
                      /\ Check(result.ask, result.by, result.list) = 0
    BY DEF SuccessIsSeen
  <2>1. CASE result.ask = "global"
    <3>1. /\ result.f \in Func /\ result.by \in Ways
          /\ fn[result.f].head = "global" /\ fn[result.f].mid = "nops"
          /\ result.by = "symbol" =>
                /\ result.f = "real" /\ fn[result.f].body = "stock"
                /\ fn[result.f].rest \in {"stock", "stub"}
          /\ result.by = "scan" => \A g \in Func : g # result.f => ~Like(g)
      BY <2>1 DEF Proved, GlobalDone
    <3> QED
      BY <2>1, <3>1, GlobalSeen
  <2>2. CASE result.ask = "whitelist"
    BY <2>2, StubSeen DEF Proved, IInv
  <2> QED
    BY <2>1, <2>2
<1> QED
  BY <1>1, <1>2, ProvedStep, TwinInvariance, PTL DEF Spec
-----------------------------------------------------------------------------
(* What a killed run leaves                                                *)

Old == before[1][run.f]

\* What the locators have accepted.
Accepted ==
    /\ \/ Old.head = "stock" /\ Old.mid = "stock"
       \/ Old.head = "global" /\ Old.mid \in {"stock", "nops"} /\ Old.rest # "stub"
       \/ Old.head = "jump" /\ Old.mid = "ours" /\ run.by = "symbol"
       \/ Overlay(Old) \/ ExactStub(Old)
    /\ run.mode = "whitelist" /\ run.by = "scan" => Overlay(Old) \/ ExactStub(Old)
    /\ run.by = "symbol" =>
          /\ Old.body = "stock" /\ Old.rest \in {"stock", "stub"}
          /\ Old.rest = "stub" => Overlay(Old) \/ ExactStub(Old)
    /\ Overlay(Old) => \E c \in InTail : before[2][c].mark = "mark"

\* How far the function has been written.
Written ==
    /\ pc \in {"clear", "fill", "table", "mark", "head"} => fn[run.f] = Old
    /\ fn[run.f].body = Old.body
    /\ run.mode = "global" => /\ fn[run.f].rest = Old.rest
                              /\ pc = "mid" => fn[run.f].mid = Old.mid
    /\ run.mode = "whitelist" => /\ fn[run.f].head \in {Old.head, run.cave}
                                 /\ fn[run.f].mid \in {Old.mid, "stub"}
                                 /\ fn[run.f].rest \in {Old.rest, "stub"}
KInv ==
    /\ pc = "idle" => run.f = NoFunc
    /\ pc \in Forward => Accepted /\ Written

\* A marked cave proves that a suffix is ours, wherever the hints lead.
LEMMA MarkedOwns ==
    ASSUME OneMarkedCave, NEW f
    PROVE  OwnedSuffix(f) <=> Overlay(f) /\ \E c \in InTail : data[c].mark = "mark"
<1>1. ASSUME NEW c \in InTail, data[c].mark = "mark" PROVE UniqueMarked # NoCave
  <2>1. \E x \in InTail : Marked(x) /\ \A d \in InTail : Marked(d) => d = x
    BY <1>1 DEF OneMarkedCave, Marked
  <2>2. UniqueMarked \in InTail
    BY <2>1 DEF UniqueMarked
  <2> QED
    BY <2>2 DEF InTail, NoCave
<1>2. ASSUME OwnedSuffix(f) PROVE \E c \in InTail : data[c].mark = "mark"
  <2>1. CASE Marked(LoadHint)
    BY <2>1 DEF Marked
  <2>2. CASE UniqueMarked # NoCave
    BY <2>2 DEF UniqueMarked, Marked
  <2> QED
    BY <1>2, <2>1, <2>2 DEF OwnedSuffix
<1> QED
  BY <1>1, <1>2 DEF OwnedSuffix

LEMMA BeginAccepted ==
    ASSUME IInv, NEW mode \in {"global", "whitelist"}, NEW by \in Ways, NEW file \in File,
           Begin(mode, by, file)
    PROVE  KInv'
<1> USE DEF IInv
<1> DEFINE f == Located(by)
<1>1. CASE pc' = "idle"
  <2>1. run' = NoRun
    BY <1>1 DEF Begin, Exit, Goto
  <2> QED
    BY <1>1, <2>1 DEF KInv, NoRun, Forward
<1>2. CASE pc' # "idle"
  <2>1. /\ f # NoFunc /\ run'.mode = mode /\ run'.by = by /\ run'.f = f /\ before' = <<fn, data>>
        /\ pc' \in {"head", "clear"} /\ fn' = fn
        /\ mode = "whitelist" => Capacity(by, fn[f]) >= 76
    <3>1. Capacity(by, fn[f]) \in Nat
      BY DEF Capacity
    <3> QED
      BY <1>2, <3>1 DEF Begin, Exit, Goto, image
  <2>2. Old' = fn[f] /\ f \in Func
    BY <2>1, FunctionIsOurs DEF Old
  <2>3. Written'
    BY <2>1, <2>2 DEF Written
  <2>4. OwnedSuffix(fn[f]) => Overlay(fn[f]) /\ \E c \in InTail : before'[2][c].mark = "mark"
    BY <2>1, MarkedOwns
  <2>5. CASE by = "symbol"
    <3>1. f = "real" /\ Recognised(fn[f])
      BY <2>1, <2>5 DEF Located
    <3>2. Accepted'
      BY <2>1, <2>2, <2>4, <2>5, <3>1 DEF Accepted, Recognised, Stock, GlobalCandidate, Overlay, ExactStub,
         OwnedSuffix, Cave
    <3> QED
      BY <1>2, <2>3, <3>2 DEF KInv
  <2>6. CASE by = "scan"
    <3>1. f \in StockLike \cup PatchedLike
      BY <2>1, <2>6 DEF Located, Scanned, TheOnly
    <3>2. \/ fn[f].head = "stock" /\ fn[f].mid = "stock"
          \/ GlobalCandidate(fn[f]) \/ ExactStub(fn[f])
      BY <3>1 DEF StockLike, PatchedLike
    <3>3. mode = "whitelist" => Overlay(fn[f]) \/ ExactStub(fn[f])
      BY <2>1, <2>6 DEF Capacity
    <3>4. Accepted'
      BY <2>1, <2>2, <2>4, <2>6, <3>2, <3>3 DEF Accepted, GlobalCandidate, Overlay, ExactStub,
         OwnedSuffix, Cave
    <3> QED
      BY <1>2, <2>3, <3>4 DEF KInv
  <2> QED
    BY <2>5, <2>6 DEF Ways
<1> QED
  BY <1>1, <1>2

LEMMA KilledStep == IInv /\ IInv' /\ WInv /\ KInv /\ [Next]_vars => KInv'
<1> SUFFICES ASSUME IInv, IInv', WInv, KInv, [Next]_vars PROVE KInv'
  OBVIOUS
<1> USE DEF IInv
<1>1. CASE \E mode \in {"global", "whitelist"}, by \in Ways, file \in File : Begin(mode, by, file)
  BY <1>1, BeginAccepted
<1>2. CASE UNCHANGED vars
  BY <1>2 DEF vars, image, KInv, Accepted, Written, Old
<1>3. CASE Fail \/ UndoHead \/ UndoMid
  BY <1>3 DEF Fail, UndoHead, UndoMid, Goto, KInv, Forward
<1>4. CASE UndoRest \/ UndoCave \/ Kill
  BY <1>4 DEF UndoRest, UndoCave, Kill, Goto, Exit, KInv, Forward, NoRun
<1>5. CASE Hook \/ UseTail \/ Restart
  BY <1>5 DEF Hook, UseTail, Restart, Outside, KInv, Forward
<1>6. CASE Clear \/ Fill \/ WriteTable \/ WriteMarker \/ WriteHead \/ WriteMid \/ WriteRest
             \/ Verify \/ SaveHint
  <2>1. pc \in Forward /\ pc' \in Forward \cup {"idle"}
    BY <1>6 DEF Clear, Fill, WriteTable, WriteMarker, WriteHead, WriteMid, WriteRest, Verify, SaveHint,
       Goto, Exit, Forward
  <2>2. CASE pc' = "idle"
    <3>1. run' = NoRun
      BY <1>6, <2>2 DEF Clear, Fill, WriteTable, WriteMarker, WriteHead, WriteMid, WriteRest, Verify,
         SaveHint, Goto, Exit
    <3> QED
      BY <2>2, <3>1 DEF KInv, Forward, NoRun
  <2>3. CASE pc' # "idle"
    <3>1. run' = run /\ before' = before
      BY <1>6, <2>3 DEF Clear, Fill, WriteTable, WriteMarker, WriteHead, WriteMid, WriteRest, Verify,
         SaveHint, Writing, Goto, Exit
    <3>2. Old' = Old /\ Accepted'
      BY <2>1, <3>1 DEF KInv, Accepted, Old
    <3>3. run.f \in Func /\ Written /\ run.mode \in {"global", "whitelist"}
      BY <2>1 DEF KInv, Control, Forward
    <3>4. CASE fn' = fn
      <4>1. pc' \in {"clear", "fill", "table", "mark", "head"} =>
              pc \in {"clear", "fill", "table", "mark", "head"}
        BY <1>6 DEF Clear, Fill, WriteTable, WriteMarker, WriteHead, WriteMid, WriteRest, Verify,
           SaveHint, Goto, Exit
      <4>2. pc' = "mid" => pc = "head"
        BY <1>6 DEF Clear, Fill, WriteTable, WriteMarker, WriteHead, WriteMid, WriteRest, Verify,
           SaveHint, Goto, Exit
      <4>3. Written'
        BY <3>1, <3>2, <3>3, <3>4, <4>1, <4>2 DEF Written
      <4> QED
        BY <2>3, <3>2, <4>3 DEF KInv
    <3>5. CASE WriteHead
      <4>1. Written'
        BY <3>1, <3>2, <3>3, <3>5 DEF Written, WriteHead, Goto, Images, Code
      <4> QED
        BY <2>3, <3>2, <4>1 DEF KInv
    <3>6. CASE WriteMid \/ WriteRest
      <4>1. pc' \notin {"clear", "fill", "table", "mark", "head", "mid"}
        BY <3>3, <3>6 DEF WriteMid, WriteRest, Goto
      <4>2. WriteRest => run.mode = "whitelist"
        BY DEF WriteRest, Control, CaveLabels
      <4>3. Written'
        BY <3>1, <3>2, <3>3, <3>6, <4>1, <4>2 DEF Written, WriteMid, WriteRest, Images, Code
      <4> QED
        BY <2>3, <3>2, <4>3 DEF KInv
    <3> QED
      BY <1>6, <3>4, <3>5, <3>6 DEF Clear, Fill, WriteTable, WriteMarker, Verify, SaveHint, image
  <2> QED
    BY <2>2, <2>3
<1> QED
  BY <1>1, <1>2, <1>3, <1>4, <1>5, <1>6 DEF Next
\* A function by itself, its candidates and those of the others.
LEMMA FoundAgain ==
    ASSUME run.f \in Func, run.by \in Ways,
           run.by = "symbol" => run.f = "real" /\ Recognised(fn["real"]),
           run.by = "scan" => /\ run.f \in StockLike \cup PatchedLike
                              /\ \A g \in Func : g # run.f => ~Like(g)
    PROVE  Located(run.by) = run.f
<1>1. CASE run.by = "symbol"
  BY <1>1 DEF Located
<1>2. CASE run.by = "scan"
  <2>1. StockLike \cup PatchedLike = {run.f}
    BY <1>2 DEF Like, StockLike, PatchedLike
  <2> QED
    BY <1>2, <2>1 DEF Located, Scanned, TheOnly
<1> QED
  BY <1>1, <1>2 DEF Ways

\* A run whose cave is marked has a cave for the next one.
LEMMA CaveAgain ==
    ASSUME OneMarkedCave, NEW f, NEW c \in InTail, data[c].mark = "mark"
    PROVE  CaveFor(f) # NoCave
<1>1. UniqueMarked \in InTail
  <2>1. \E x \in InTail : Marked(x) /\ \A d \in InTail : Marked(d) => d = x
    BY DEF OneMarkedCave, Marked
  <2> QED
    BY <2>1 DEF UniqueMarked
<1> QED
  BY <1>1 DEF CaveFor, Marked, InTail, NoCave

\* KilledIsRecovered: the parts that a run has not yet written are the ones it
\* has recognised, those it has written are its own, and a marker that was
\* there stays.
THEOREM KilledIsFound == Spec => []KilledIsRecovered
<1>1. ASSUME IInv, WInv, TInv, KInv PROVE KilledIsRecovered
  <2> USE <1>1 DEF IInv
  <2> DEFINE old     == before[1][run.f]
             proved  == ExactStub(old) => old.head \in InTail /\ before[2][old.head].mark = "mark"
             undone  == old.mid = "stock" => old.rest # "stub"
             found   == \/ CaveStep \/ (run.mode = "whitelist" /\ pc \in {"verify", "hint"})
                        \/ CodeStep /\ run.mode = "whitelist" /\ ExactStub(old)
                        \/ CodeStep /\ run.mode = "global" /\ old.head # "jump" /\ proved /\ undone
             usable  == \/ CodeStep \/ pc = "hint"
                        \/ before[2][run.cave].mark = "mark"
  <2>1. CASE run.f = NoFunc
    BY <2>1 DEF KilledIsRecovered
  <2>2. CASE run.f # NoFunc
    <3>1. pc # "idle" /\ run.f \in Func /\ run.mode \in {"global", "whitelist"} /\ Old = old
      BY <2>2 DEF KInv, Control, Old
    <3>2. ASSUME run.mode = "whitelist", usable PROVE CaveFor(fn[run.f]) # NoCave
      <4>1. run.cave \in InTail
        BY <3>1, <3>2 DEF Control
      <4>2. data[run.cave].mark = "mark"
        <5>1. CASE pc = "head"
          BY <3>1, <3>2, <5>1 DEF Sole
        <5>2. CASE pc \in {"mid", "rest", "verify", "hint"}
          BY <3>1, <3>2, <4>1, <5>2 DEF WInv, Entry, HeadMarked, Leads
        <5>3. CASE before[2][run.cave].mark = "mark"
          BY <3>1, <4>1, <5>3 DEF Snapshot
        <5> QED
          BY <3>2, <5>1, <5>2, <5>3 DEF CodeStep
      <4> QED
        BY <4>1, <4>2, CaveAgain
    <3>3. ASSUME found PROVE Located(run.by) = run.f
      <4>1. pc \in Forward /\ run.by \in Ways /\ Accepted /\ Written /\ Sought
        BY <3>1, <3>3 DEF CaveStep, CodeStep, Forward, TInv, TwinPlain, KInv
      <4>2. \A f : Overlay(f) /\ Overlay(old) => OwnedSuffix(f)
        <5>1. Overlay(old) => \E c \in InTail : data[c].mark = "mark"
          BY <3>1, <4>1 DEF Accepted, Snapshot
        <5> QED
          BY <5>1, MarkedOwns
      <4>3. fn[run.f] = old =>
              /\ run.by = "symbol" => Recognised(fn[run.f])
              /\ run.by = "scan" => run.f \in StockLike \cup PatchedLike
        <5>1. CASE fn[run.f] = old /\ run.by = "symbol"
          <6>1. old \in Code
            BY <3>1 DEF Snapshot
          <6>2. old.head = "stock" /\ old.mid = "stock" => old = Stock
            BY <3>1, <4>1, <5>1, <6>1 DEF Accepted, Code, Stock, Overlay, ExactStub, Cave
          <6> QED
            BY <3>1, <4>1, <4>2, <5>1, <6>2 DEF Accepted, Recognised, GlobalCandidate, Overlay
        <5>2. CASE fn[run.f] = old /\ run.by = "scan"
          BY <3>1, <4>1, <4>2, <5>2 DEF Accepted, StockLike, PatchedLike, GlobalCandidate, Overlay
        <5> QED
          BY <4>1, <5>1, <5>2 DEF Ways
      <4>4. ExactStub(fn[run.f]) =>
              /\ run.by = "symbol" => Recognised(fn[run.f])
              /\ run.by = "scan" => run.f \in StockLike \cup PatchedLike
        BY <3>1, <4>1 DEF Accepted, Written, Recognised, PatchedLike
      <4>5. \/ fn[run.f] = old \/ ExactStub(fn[run.f])
            \/ /\ run.mode = "global" /\ pc \in {"mid", "verify"} /\ old.head # "jump"
               /\ proved /\ undone
        <5>1. CASE CaveStep \/ pc = "head"
          BY <3>1, <4>1, <5>1 DEF CaveStep, Written
        <5>2. CASE run.mode = "whitelist" /\ pc \in {"verify", "hint"}
          BY <3>1, <5>2 DEF WInv, Entry, ExactStub, Control, InTail, Cave
        <5>3. CASE CodeStep /\ run.mode = "whitelist" /\ ExactStub(old)
          BY <3>1, <4>1, <5>3 DEF Written, ExactStub, Control, InTail, Cave
        <5>4. CASE CodeStep /\ run.mode = "global" /\ old.head # "jump" /\ proved /\ undone
          BY <3>1, <5>1, <5>4 DEF CodeStep, Control, CaveLabels
        <5> QED
          BY <3>3, <5>1, <5>2, <5>3, <5>4
      <4>6. ASSUME run.mode = "global", pc \in {"mid", "verify"}, old.head # "jump", proved, undone
            PROVE  /\ run.by = "symbol" => Recognised(fn[run.f])
                   /\ run.by = "scan" => run.f \in StockLike \cup PatchedLike
        <5>1. /\ fn[run.f].head = "global" /\ fn[run.f].rest = old.rest
              /\ fn[run.f].mid \in {old.mid, "nops"} /\ fn[run.f].body = old.body
          BY <4>1, <4>6, <3>1 DEF WInv, Entry, Written, Sought
        <5>2. old.rest = "stub" => Overlay(old) \/ ExactStub(old)
          BY <3>1, <4>1, <4>6 DEF Accepted
        <5>3. Overlay(fn[run.f]) => OwnedSuffix(fn[run.f])
          <6>1. Overlay(fn[run.f]) => Overlay(old) \/ ExactStub(old)
            BY <5>1, <5>2 DEF Overlay
          <6>2. ExactStub(old) => \E c \in InTail : data[c].mark = "mark"
            BY <3>1, <4>6 DEF Snapshot
          <6> QED
            BY <4>2, <6>1, <6>2, MarkedOwns
        <5>4. GlobalCandidate(fn[run.f])
          BY <3>1, <4>1, <4>6, <5>1, <5>2, <5>3 DEF Accepted, GlobalCandidate, Overlay, ExactStub
        <5>5. run.by = "symbol" => Recognised(fn[run.f])
          BY <3>1, <4>1, <5>1, <5>3, <5>4 DEF Accepted, Recognised, GlobalCandidate, Overlay
        <5> QED
          BY <3>1, <5>4, <5>5 DEF PatchedLike
      <4>7. /\ run.by = "symbol" => run.f = "real" /\ Recognised(fn["real"])
            /\ run.by = "scan" => /\ run.f \in StockLike \cup PatchedLike
                                  /\ \A g \in Func : g # run.f => ~Like(g)
        BY <4>1, <4>3, <4>4, <4>5, <4>6 DEF Sought
      <4> QED
        BY <3>1, <4>1, <4>7, FoundAgain
    <3> QED
      BY <3>2, <3>3 DEF KilledIsRecovered
  <2> QED
    BY <2>1, <2>2
<1>2. Init => KInv
  <2>1. Init => pc = "idle" /\ run = NoRun
    BY DEF Init
  <2> QED
    BY <2>1 DEF KInv, NoRun, Forward
<1> QED
  BY <1>1, <1>2, KilledStep, TwinInvariance, PTL DEF Spec
=============================================================================
