----------------------- MODULE PatchTransactionProofs -----------------------
(***************************************************************************)
(* Proofs about PatchTransaction, for every list of packages, every set of *)
(* requests and any number of runs, failing calls and kills.               *)
(***************************************************************************)
EXTENDS PatchTransaction, TLAPS

-----------------------------------------------------------------------------
(* The sites and the two orders.                                           *)

\* What the orders list, spelt out.
LEMMA Orders ==
    /\ Len(ApplyOrder) = 12 /\ Len(UndoOrder) = 12 /\ Len(Spans) = 7
    /\ ApplyOrder[1] = "helper"
    /\ \A i \in 1 .. 12 : ApplyOrder[i] \in Aux /\ UndoOrder[i] \in Aux
    /\ \A i \in 2 .. 12 : ApplyOrder[i] # "helper"
    /\ Spans[3] = {"helper"}
<1>1. Len(ApplyOrder) = 12 /\ Len(UndoOrder) = 12 /\ Len(Spans) = 7
  BY DEF ApplyOrder, UndoOrder, Spans
<1>2. ApplyOrder[1] = "helper" /\ Spans[3] = {"helper"}
  BY DEF ApplyOrder, Spans
<1>3. \A i \in 2 .. 12 : ApplyOrder[i] # "helper"
  BY DEF ApplyOrder
<1>4. \A i \in 1 .. 12 : ApplyOrder[i] \in Aux
  BY DEF Aux
<1>5. \A i \in 1 .. 12 : \E j \in 1 .. 12 : UndoOrder[i] = ApplyOrder[j]
  <2>1. /\ UndoOrder[1] = ApplyOrder[12] /\ UndoOrder[2] = ApplyOrder[5]
        /\ UndoOrder[3] = ApplyOrder[3] /\ UndoOrder[4] = ApplyOrder[6]
        /\ UndoOrder[5] = ApplyOrder[2] /\ UndoOrder[6] = ApplyOrder[8]
        /\ UndoOrder[7] = ApplyOrder[9] /\ UndoOrder[8] = ApplyOrder[10]
        /\ UndoOrder[9] = ApplyOrder[11] /\ UndoOrder[10] = ApplyOrder[7]
        /\ UndoOrder[11] = ApplyOrder[1] /\ UndoOrder[12] = ApplyOrder[4]
    BY DEF UndoOrder, ApplyOrder
  <2> QED BY <2>1
<1> QED BY <1>1, <1>2, <1>3, <1>4, <1>5 DEF Aux

\* The sites that the branches into the helper involve are auxiliary code.
LEMMA UsersAreCode ==
    "helper" \in Code /\ HelperUsers \subseteq Aux /\ Aux \subseteq Code
    /\ Code \subseteq Site /\ "helper" \notin HelperUsers
<1>1. "helper" \in Aux
  BY Orders
<1>2. HelperUsers \subseteq Aux
  <2>1. ApplyOrder[2] = "idle_count" /\ ApplyOrder[3] = "update"
        /\ ApplyOrder[5] = "policy" /\ ApplyOrder[12] = "stream_open"
    BY DEF ApplyOrder
  <2> QED BY <2>1 DEF HelperUsers, Aux
<1> QED BY <1>1, <1>2 DEF Code, Site, HelperUsers

-----------------------------------------------------------------------------
(* Type correctness.                                                       *)

\* What the constants contribute to the contents of a site.
LEMMA Contents ==
    /\ Torn \in Content /\ None \in Content /\ List \subseteq Content
    /\ {"stock", "patched", "alternate", "global", "stub", "mark"} \subseteq Content
BY DEF Content, Overlay, Func, Torn, None

\* A write keeps the types of the image.
LEMMA MemWTypes ==
    ASSUME TypeOK, NEW s \in Site, NEW c \in Content, NEW ok \in BOOLEAN, MemW(s, c, ok)
    PROVE  /\ mem' \in [Site -> Content] /\ fetch' \in [Code -> SUBSET Content]
           /\ faults' \in Nat
<1>1. \A new \in [Site -> Content] : Image(new) =>
          mem' \in [Site -> Content] /\ fetch' \in [Code -> SUBSET Content]
  BY UsersAreCode DEF Image, TypeOK
<1>2. \A x \in Content : [mem EXCEPT ![s] = x] \in [Site -> Content]
  BY DEF TypeOK
<1>3. CASE ok /\ ~compromised /\ Image([mem EXCEPT ![s] = c]) /\ UNCHANGED faults
  BY <1>1, <1>2, <1>3 DEF TypeOK
<1>4. CASE ~ok /\ compromised /\ UNCHANGED <<image, faults>>
  BY <1>4 DEF TypeOK, image
<1>5. CASE /\ ~ok /\ ~compromised /\ Fault
           /\ \E x \in {mem[s], c} \cup Partial(s, c) : Image([mem EXCEPT ![s] = x])
  <2>1. PICK x \in {mem[s], c} \cup Partial(s, c) : Image([mem EXCEPT ![s] = x])
    BY <1>5
  <2>2. [mem EXCEPT ![s] = x] \in [Site -> Content]
    <3>1. CASE x = mem[s]
      BY <3>1 DEF TypeOK
    <3>2. CASE x # mem[s]
      BY <1>2, <2>1, <3>2, Contents DEF Partial
    <3> QED BY <3>1, <3>2
  <2>3. faults' \in Nat
    BY <1>5 DEF Fault, TypeOK
  <2> QED BY <1>1, <2>1, <2>2, <2>3
<1> QED BY <1>3, <1>4, <1>5 DEF MemW

\* So does cache maintenance.
LEMMA FlushTypes ==
    ASSUME TypeOK, NEW S, NEW ok \in BOOLEAN, Flush(S, ok)
    PROVE  /\ mem' \in [Site -> Content] /\ fetch' \in [Code -> SUBSET Content]
           /\ faults' \in Nat /\ compromised' \in BOOLEAN
<1> USE DEF TypeOK
<1>1. CASE /\ ok /\ ~compromised
           /\ fetch' = [s \in Code |-> IF s \in S THEN {mem[s]} ELSE fetch[s]]
           /\ UNCHANGED <<mem, faults, compromised>>
  BY <1>1, UsersAreCode
<1>2. CASE ~ok /\ compromised /\ UNCHANGED <<image, faults, compromised>>
  BY <1>2 DEF image
<1>3. CASE /\ ~ok /\ ~compromised /\ Fault /\ compromised' \in {FALSE, MayCompromise}
           /\ UNCHANGED image
  <2>1. mem' \in [Site -> Content] /\ fetch' \in [Code -> SUBSET Content]
    BY <1>3 DEF image
  <2>2. faults' \in Nat
    BY <1>3 DEF Fault
  <2>3. compromised' \in BOOLEAN
    BY <1>3, BoundsAssumption, Zenon
  <2> QED BY <2>1, <2>2, <2>3
<1> QED BY <1>1, <1>2, <1>3 DEF Flush

ImageTypes == mem \in [Site -> Content] /\ fetch \in [Code -> SUBSET Content] /\ faults \in Nat

ControlTypes ==
    /\ before \in [Site -> Content] /\ inner \in [Site -> Content]
    /\ pc \in Label /\ at \in 1 .. 12 /\ pass \in 1 .. 3 /\ req \in Request
    /\ fine \in BOOLEAN /\ main \in BOOLEAN /\ compromised \in BOOLEAN
    /\ ready \subseteq Aux /\ undone \subseteq Site
    /\ result \in [rc : {0, 1, 2, 137}, rollback : {None, "OK", "FAIL"}]
    /\ runs \in Nat /\ crashes \in Nat

LEMMA Types == TypeOK <=> ImageTypes /\ ControlTypes
BY DEF TypeOK, ImageTypes, ControlTypes

\* What an auxiliary site is brought to is among the contents.
LEMMA WantedTypes == \A s : Wanted(s) \in Content
BY Contents DEF Wanted

\* The sites and contents that the main function's steps name.
LEMMA MainSites ==
    ASSUME TypeOK
    PROVE  /\ {"func", "strings", "table", "marker"} \subseteq Site
           /\ {mem["strings"], before["strings"], before["func"], inner["func"],
               inner["table"], inner["marker"], req.list} \subseteq Content
<1>1. {"func", "strings", "table", "marker"} \subseteq Site
  BY DEF Site, Code, Cave
<1>2. req.list \in Content
  BY RequestAssumption, Contents DEF TypeOK
<1> QED BY <1>1, <1>2 DEF TypeOK

\* Type correctness: every step of the patcher stays within the recognised
\* contents and labels.
THEOREM Typing == Spec => []TypeOK
<1>1. Init => TypeOK
  <2> SUFFICES ASSUME Init PROVE TypeOK
    OBVIOUS
  <2>1. mem = Left(origin)
    BY DEF Init
  <2>2. mem \in [Site -> Content]
    BY <2>1, Contents DEF Left, Content, Overlay, Func
  <2>3. fetch \in [Code -> SUBSET Content]
    BY <2>2, UsersAreCode DEF Init
  <2>4. pc \in Label /\ at \in 1 .. 12 /\ pass \in 1 .. 3
    BY DEF Init, Label
  <2>5. result \in [rc : {0, 1, 2, 137}, rollback : {None, "OK", "FAIL"}]
    BY DEF Init
  <2> QED BY <2>2, <2>3, <2>4, <2>5 DEF Init, TypeOK
<1>2. TypeOK /\ [Next]_vars => TypeOK'
  <2> SUFFICES ASSUME TypeOK, [Next]_vars PROVE ImageTypes' /\ ControlTypes'
    BY DEF TypeOK, ImageTypes, ControlTypes
  <2>w. \A s \in Site, c \in Content, ok \in BOOLEAN : MemW(s, c, ok) => ImageTypes'
    BY MemWTypes DEF ImageTypes
  <2>f. \A S : \A ok \in BOOLEAN :
            Flush(S, ok) => ImageTypes' /\ compromised' \in BOOLEAN
    BY FlushTypes DEF ImageTypes
  <2>u. UNCHANGED <<image, faults>> => ImageTypes'
    BY DEF ImageTypes, TypeOK, image
  <2>c. ControlTypes /\ (faults' = faults => faults' \in Nat)
    BY DEF ControlTypes, TypeOK
  <2>1. CASE Begin
    <3>2. ImageTypes'
      BY <2>1, <2>u DEF Begin, ImageTypes, TypeOK, image, Fault
    <3>3. ControlTypes'
      <4>1. mem \in [Site -> Content]
        BY DEF TypeOK
      <4>2. "resolve" \in Label /\ 1 \in 1 .. 12 /\ 1 \in 1 .. 3
        BY DEF Label
      <4>3. runs' \in Nat
        BY <2>1 DEF Begin, TypeOK
      <4> QED BY <2>1, <2>c, <4>1, <4>2, <4>3 DEF Begin, ControlTypes, Goto
    <3> QED BY <3>2, <3>3
  <2>2. CASE Resolve
    <3>2. ImageTypes'
      BY <2>2, <2>u DEF Resolve, ImageTypes, TypeOK, image, Fault
    <3>3. ControlTypes'
      BY <2>2, <2>c DEF Resolve, Exit, ControlTypes, Goto, Label, process
    <3> QED BY <3>2, <3>3
  <2>3. CASE Preflight
    <3>2. ImageTypes' /\ compromised' \in BOOLEAN /\ fine' \in BOOLEAN
      BY <2>3, <2>f, <2>u, <2>c DEF Preflight, ControlTypes
    <3>3. ControlTypes'
      BY <2>3, <2>c, <3>2, Orders DEF Preflight, ControlTypes, Goto, Label, process
    <3> QED BY <3>2, <3>3
  <2>4. CASE Snapshot
    <3>2. ImageTypes'
      BY <2>4, <2>u DEF Snapshot, ImageTypes, TypeOK, image, Fault
    <3>3. ControlTypes'
      BY <2>4, <2>c, Types DEF Snapshot, Exit, ControlTypes, Goto, Label, process, TypeOK
    <3> QED BY <3>2, <3>3
  <2>5. CASE ApplySite
    <3>1. ApplyOrder[at] \in Site
      BY Orders, UsersAreCode DEF TypeOK
    <3>2. ImageTypes'
      BY <2>5, <2>w, <2>u, <3>1, WantedTypes DEF ApplySite
    <3>3. ControlTypes'
      BY <2>5, <2>c, Orders DEF ApplySite, Advance, ControlTypes, Goto, Label, process
    <3> QED BY <3>2, <3>3
  <2>6. CASE SyncSite
    <3>2. ImageTypes' /\ compromised' \in BOOLEAN
      BY <2>6, <2>f DEF SyncSite
    <3>3. ControlTypes'
      BY <2>6, <2>c, <3>2, Orders DEF SyncSite, Advance, ControlTypes, Goto, Label, process
    <3> QED BY <3>2, <3>3
  <2>7. CASE WriteAgain
    <3>1. ApplyOrder[at] \in Site
      BY Orders, UsersAreCode DEF TypeOK
    <3>2. ImageTypes'
      BY <2>7, <2>w, <3>1, WantedTypes DEF WriteAgain
    <3>3. ControlTypes'
      BY <2>7, <2>c, Orders DEF WriteAgain, Advance, ControlTypes, Goto, Label, process
    <3> QED BY <3>2, <3>3
  <2>8. CASE Main
    <3>2. ImageTypes'
      BY <2>8, <2>u DEF Main, ImageTypes, TypeOK, image, Fault
    <3>3. ControlTypes'
      BY <2>8, <2>c DEF Main, ControlTypes, Goto, Label, process
    <3> QED BY <3>2, <3>3
  <2>9. CASE Enable
    <3>2. ImageTypes'
      BY <2>9, <2>w, MainSites, Contents DEF Enable
    <3>3. ControlTypes'
      BY <2>9, <2>c DEF Enable, ControlTypes, Goto, Label, process
    <3> QED BY <3>2, <3>3
  <2>10. CASE EnableSync
    <3>2. ImageTypes' /\ compromised' \in BOOLEAN
      BY <2>10, <2>f DEF EnableSync
    <3>3. ControlTypes'
      BY <2>10, <2>c, <3>2 DEF EnableSync, ControlTypes, Goto, Label, process
    <3> QED BY <3>2, <3>3
  <2>11. CASE Clear
    <3>2. ImageTypes'
      BY <2>11, <2>w, MainSites, Contents DEF Clear
    <3>3. ControlTypes'
      BY <2>11, <2>c DEF Clear, ControlTypes, Goto, Label, process
    <3> QED BY <3>2, <3>3
  <2>12. CASE Fill
    <3>2. ImageTypes'
      BY <2>12, <2>w, MainSites, Contents DEF Fill
    <3>3. ControlTypes'
      BY <2>12, <2>c, Types DEF Fill, ControlTypes, Goto, Label, process, TypeOK
    <3> QED BY <3>2, <3>3
  <2>13. CASE Refill
    <3>2. ImageTypes'
      BY <2>13, <2>w, MainSites, Contents DEF Refill
    <3>3. ControlTypes'
      BY <2>13, <2>c DEF Refill, ControlTypes, Goto, Label, process
    <3> QED BY <3>2, <3>3
  <2>14. CASE WriteTable
    <3>2. ImageTypes'
      BY <2>14, <2>w, MainSites, Contents DEF WriteTable
    <3>3. ControlTypes'
      BY <2>14, <2>c DEF WriteTable, ControlTypes, Goto, Label, process
    <3> QED BY <3>2, <3>3
  <2>15. CASE WriteMarker
    <3>2. ImageTypes'
      BY <2>15, <2>w, MainSites, Contents DEF WriteMarker
    <3>3. ControlTypes'
      BY <2>15, <2>c DEF WriteMarker, ControlTypes, Goto, Label, process
    <3> QED BY <3>2, <3>3
  <2>16. CASE WriteStub
    <3>2. ImageTypes'
      BY <2>16, <2>w, MainSites, Contents DEF WriteStub
    <3>3. ControlTypes'
      BY <2>16, <2>c DEF WriteStub, ControlTypes, Goto, Label, process
    <3> QED BY <3>2, <3>3
  <2>17. CASE StubSync
    <3>2. ImageTypes' /\ compromised' \in BOOLEAN
      BY <2>17, <2>f DEF StubSync
    <3>3. ControlTypes'
      BY <2>17, <2>c, <3>2, Types DEF StubSync, ControlTypes, Goto, Label, process, TypeOK
    <3> QED BY <3>2, <3>3
  <2>18. CASE RestoreStub
    <3>2. ImageTypes'
      BY <2>18, <2>w, MainSites, Contents DEF RestoreStub
    <3>3. ControlTypes'
      BY <2>18, <2>c DEF RestoreStub, ControlTypes, Goto, Label, process
    <3> QED BY <3>2, <3>3
  <2>19. CASE RestoreStubSync
    <3>2. ImageTypes' /\ compromised' \in BOOLEAN
      BY <2>19, <2>f DEF RestoreStubSync
    <3>3. ControlTypes'
      BY <2>19, <2>c, <3>2 DEF RestoreStubSync, ControlTypes, Goto, Label, process
    <3> QED BY <3>2, <3>3
  <2>20. CASE RestoreTable
    <3>2. ImageTypes'
      BY <2>20, <2>w, MainSites, Contents DEF RestoreTable
    <3>3. ControlTypes'
      BY <2>20, <2>c DEF RestoreTable, ControlTypes, Goto, Label, process
    <3> QED BY <3>2, <3>3
  <2>21. CASE RestoreMarker
    <3>2. ImageTypes'
      BY <2>21, <2>w, MainSites, Contents DEF RestoreMarker
    <3>3. ControlTypes'
      BY <2>21, <2>c DEF RestoreMarker, ControlTypes, Goto, Label, process
    <3> QED BY <3>2, <3>3
  <2>22. CASE Verify
    <3>2. ImageTypes'
      BY <2>22, <2>u DEF Verify, ImageTypes, TypeOK, image, Fault
    <3>3. ControlTypes'
      BY <2>22, <2>c DEF Verify, Exit, ControlTypes, Goto, Label, process
    <3> QED BY <3>2, <3>3
  <2>23. CASE RestoreFunc
    <3>2. ImageTypes'
      BY <2>23, <2>w, MainSites, Contents DEF RestoreFunc
    <3>3. ControlTypes'
      BY <2>23, <2>c DEF RestoreFunc, AfterFunc, ControlTypes, Goto, Label, process
    <3> QED BY <3>2, <3>3
  <2>24. CASE RestoreFuncSync
    <3>2. ImageTypes' /\ compromised' \in BOOLEAN
      BY <2>24, <2>f DEF RestoreFuncSync
    <3>3. ControlTypes'
      <4>1. undone' \subseteq Site
        BY <2>24, <2>c, MainSites DEF RestoreFuncSync, ControlTypes
      <4>2. pc' \in Label
        BY <2>24 DEF RestoreFuncSync, AfterFunc, Goto, Label
      <4> QED BY <2>24, <2>c, <3>2, <4>1, <4>2 DEF RestoreFuncSync, ControlTypes
    <3> QED BY <3>2, <3>3
  <2>25. CASE RestoreCave
    <3>1. \A new \in [Site -> Content] : Image(new) =>
              mem' \in [Site -> Content] /\ fetch' \in [Code -> SUBSET Content]
      BY UsersAreCode DEF Image, TypeOK
    <3>2. ImageTypes'
      <4>1. CASE UNCHANGED <<image, faults>>
        BY <4>1, <2>u
      <4>2. CASE /\ Image([s \in Site |-> IF s \in Cave THEN before[s] ELSE mem[s]])
                 /\ UNCHANGED faults
        BY <4>2, <3>1 DEF ImageTypes, TypeOK
      <4>3. CASE Fault /\ UNCHANGED image
        BY <4>3 DEF ImageTypes, TypeOK, Fault, image
      <4>4. CASE Fault /\ Image([s \in Site |->
                     IF s \in Cave /\ mem[s] # before[s] THEN Torn ELSE mem[s]])
        <5>1. [s \in Site |-> IF s \in Cave /\ mem[s] # before[s] THEN Torn ELSE mem[s]]
                  \in [Site -> Content]
          BY Contents DEF TypeOK
        <5>2. faults' \in Nat
          BY <4>4 DEF Fault, TypeOK
        <5> QED BY <4>4, <3>1, <5>1, <5>2 DEF ImageTypes
      <4> QED BY <2>25, <4>1, <4>2, <4>3, <4>4 DEF RestoreCave
    <3>3. ControlTypes'
      <4>1. undone' \subseteq Site
        BY <2>25, <2>c DEF RestoreCave, ControlTypes, Site
      <4>2. pc' \in Label
        BY <2>25 DEF RestoreCave, Goto, Label
      <4> QED BY <2>25, <2>c, <4>1, <4>2 DEF RestoreCave, ControlTypes
    <3> QED BY <3>2, <3>3
  <2>26. CASE Undo
    <3>1. UndoOrder[at] \in Site /\ before[UndoOrder[at]] \in Content
      BY Orders, UsersAreCode DEF TypeOK
    <3>2. ImageTypes'
      BY <2>26, <2>w, <2>u, <3>1 DEF Undo
    <3>3. ControlTypes'
      BY <2>26, <2>c, Orders DEF Undo, UndoNext, Exit, ControlTypes, Goto, Label, process
    <3> QED BY <3>2, <3>3
  <2>27. CASE UndoSync
    <3>2. ImageTypes' /\ compromised' \in BOOLEAN
      BY <2>27, <2>f DEF UndoSync
    <3>3. ControlTypes'
      <4>1. PICK ok \in BOOLEAN :
                UndoNext(IF ok THEN undone \cup {UndoOrder[at]} ELSE undone)
        BY <2>27 DEF UndoSync
      <4>2. undone' \subseteq Site
        BY <4>1, <2>c, Orders, UsersAreCode DEF UndoNext, ControlTypes
      <4>3. pc' \in Label /\ at' \in 1 .. 12
        BY <4>1, <2>c, Orders DEF UndoNext, Exit, Goto, Label, ControlTypes
      <4>4. result' \in [rc : {0, 1, 2, 137}, rollback : {None, "OK", "FAIL"}]
        BY <4>1, <2>c DEF UndoNext, Exit, ControlTypes
      <4> QED BY <2>27, <2>c, <3>2, <4>2, <4>3, <4>4 DEF UndoSync, ControlTypes
    <3> QED BY <3>2, <3>3
  <2>28. CASE Crash
    <3>2. ImageTypes'
      BY <2>28, <2>u DEF Crash, ImageTypes, TypeOK, image, Fault
    <3>3. ControlTypes'
      BY <2>28, <2>c DEF Crash, Exit, ControlTypes, Goto, Label, process
    <3> QED BY <3>2, <3>3
  <2>29. CASE UNCHANGED vars
    BY <2>29, <2>u, <2>c DEF vars, process, ControlTypes
  <2> QED BY <2>1, <2>2, <2>3, <2>4, <2>5, <2>6, <2>7, <2>8, <2>9, <2>10, <2>11, <2>12, <2>13, <2>14, <2>15, <2>16, <2>17, <2>18, <2>19, <2>20, <2>21, <2>22, <2>23, <2>24, <2>25, <2>26, <2>27, <2>28, <2>29
          DEF Next, Step, Apply, Strings, Stub, StubBack, Rollback
<1> QED BY <1>1, <1>2, PTL DEF Spec

-----------------------------------------------------------------------------
(* The helper outlives the branches into it.                               *)

Protected == (\E s \in HelperUsers : MayBranch(s)) => Solid("helper")

Critical == HelperUsers \cup {"helper"}
Branch   == {"patched", Torn}
Writing  == {"apply", "sync"}
Early    == {"rest", "resolve", "preflight", "snapshot"}
Restoring == {"rest", "unfunc", "unfuncsync", "uncave", "undo", "undosync"}

\* What a debugger reads is among what a CPU may execute.
SeenInv == \A s \in Critical : mem[s] \in fetch[s]

\* Once the snapshots are taken: an owned helper is intact, a branch in a
\* snapshot led to an owned helper, a branch that differs from its snapshot
\* has an intact helper, and a disconnected one is as it was.
SnapshotInv ==
    pc \notin Early =>
        /\ before["helper"] = "patched" => Solid("helper")
        /\ \A s \in HelperUsers :
              /\ before[s] \in Branch => before["helper"] = "patched"
              /\ mem[s] # before[s] => Solid("helper")
              /\ s \in undone => fetch[s] = {before[s]}
        /\ pc = "undosync" => mem[UndoOrder[at]] = before[UndoOrder[at]]

\* Before anything is written no CPU may execute an older helper.
PreflightInv ==
    /\ pc \in {"resolve", "preflight", "snapshot"} => ready = {}
    /\ pc = "resolve" => at = 1
    /\ pc \notin Restoring => undone = {}
    /\ fine /\ (pc = "snapshot" \/ (pc = "preflight" /\ at > 3))
           => fetch["helper"] = {mem["helper"]}

\* The helper is written first; who branches into it waits for it.
ApplyInv ==
    /\ pc \in Writing /\ "helper" \in ready => Solid("helper")
    /\ pc \in Writing /\ at = 1 =>
           ready = {} /\ \A s \in HelperUsers : mem[s] = before[s]
    /\ pc = "apply" /\ at = 1 => fetch["helper"] = {mem["helper"]}
    /\ pc = "sync" /\ at = 1 => mem["helper"] = "patched" /\ before["helper"] # "patched"
    /\ pc = "sync" /\ ApplyOrder[at] \in HelperUsers \cup Event => "helper" \in ready
    /\ pc \in Writing /\ Event \cap ready # {} => "helper" \in ready

HelperInv ==
    SeenInv /\ Protected /\ SnapshotInv /\ PreflightInv /\ ApplyInv

\* The critical sites are untouched, or at most synchronised.
Quiet == \A s \in Critical : mem'[s] = mem[s] /\ fetch'[s] \in {fetch[s], {mem[s]}}

LEMMA CriticalSites ==
    /\ Critical \subseteq Code /\ Critical \subseteq Site /\ "helper" \in Critical
    /\ HelperUsers \subseteq Critical /\ "func" \notin Critical
    /\ Critical \cap Cave = {} /\ Event \cap Critical = {}
BY UsersAreCode DEF Critical, HelperUsers, Cave, Event

\* A quiet step keeps what is known of the image.
LEMMA QuietKeeps ==
    ASSUME SeenInv, Protected, Quiet
    PROVE  /\ SeenInv' /\ Protected'
           /\ Solid("helper") => Solid("helper")'
           /\ \A s \in Critical : mem'[s] = mem[s]
           /\ \A s \in Critical : \A v : fetch[s] = {v} => fetch'[s] = {v}
<1>1. \A s \in Critical : mem'[s] = mem[s] /\ fetch'[s] \subseteq fetch[s] /\ mem[s] \in fetch'[s]
  BY DEF Quiet, SeenInv
<1>2. \A s \in Critical : \A v : fetch[s] = {v} => fetch'[s] = {v}
  BY <1>1
<1>3. Solid("helper") => Solid("helper")'
  BY <1>2, CriticalSites DEF Solid
<1>4. Protected'
  BY <1>1, <1>3, CriticalSites DEF Protected, MayBranch
<1>5. SeenInv'
  BY <1>1 DEF SeenInv
<1> QED BY <1>1, <1>2, <1>3, <1>4, <1>5

\* Cache maintenance is quiet, ...
LEMMA FlushQuiet ==
    ASSUME TypeOK, NEW S, NEW ok \in BOOLEAN, Flush(S, ok)
    PROVE  /\ Quiet /\ mem' = mem
           /\ ok => \A s \in S \cap Code : fetch'[s] = {mem[s]}
BY CriticalSites DEF Flush, Quiet, image

LEMMA StillQuiet == ASSUME UNCHANGED image PROVE Quiet
BY DEF Quiet, image

\* ... and a write concerns one site only: the others keep their bytes.
LEMMA MemWOthers ==
    ASSUME TypeOK, SeenInv, NEW s \in Site, NEW c \in Content, NEW ok \in BOOLEAN,
           MemW(s, c, ok)
    PROVE  /\ \A t \in Critical \ {s} : mem'[t] = mem[t] /\ fetch'[t] = fetch[t]
           /\ SeenInv'
           /\ ok => mem'[s] = c
           /\ mem[s] = c => Quiet
<1>1. \A x : Image([mem EXCEPT ![s] = x]) =>
          /\ \A t \in Critical \ {s} : mem'[t] = mem[t] /\ fetch'[t] = fetch[t]
          /\ SeenInv' /\ mem'[s] = x
          /\ x = mem[s] => Quiet
  <2> SUFFICES ASSUME NEW x, Image([mem EXCEPT ![s] = x])
               PROVE  /\ \A t \in Critical \ {s} : mem'[t] = mem[t] /\ fetch'[t] = fetch[t]
                      /\ SeenInv' /\ mem'[s] = x
                      /\ x = mem[s] => Quiet
    OBVIOUS
  <2>1. mem' = [mem EXCEPT ![s] = x] /\ mem'[s] = x
    BY DEF Image, TypeOK
  <2>2. \A t \in Critical : t # s => mem'[t] = mem[t]
    BY <2>1, CriticalSites DEF TypeOK
  <2>3. \A t \in Critical : fetch'[t] = fetch[t] \cup {mem'[t]}
    BY <2>1, CriticalSites DEF Image
  <2>4. \A t \in Critical : t # s => fetch'[t] = fetch[t]
    BY <2>2, <2>3 DEF SeenInv
  <2>5. SeenInv'
    BY <2>3 DEF SeenInv
  <2>6. x = mem[s] => Quiet
    <3> SUFFICES ASSUME x = mem[s], NEW t \in Critical
                 PROVE  mem'[t] = mem[t] /\ fetch'[t] = fetch[t]
      BY DEF Quiet
    <3>1. mem'[t] = mem[t]
      BY <2>1, <2>2
    <3> QED BY <2>3, <3>1 DEF SeenInv
  <2> QED BY <2>1, <2>2, <2>4, <2>5, <2>6
<1>2. UNCHANGED image => Quiet /\ SeenInv'
                         /\ \A t \in Critical : mem'[t] = mem[t] /\ fetch'[t] = fetch[t]
  BY StillQuiet DEF image, SeenInv
<1>3. \/ UNCHANGED image /\ ~ok
      \/ \E x \in {mem[s], c} \cup Partial(s, c) :
            Image([mem EXCEPT ![s] = x]) /\ (ok => x = c)
  BY DEF MemW, image
<1>4. mem[s] = c => {mem[s], c} \cup Partial(s, c) = {mem[s]}
  BY DEF Partial
<1> QED BY <1>1, <1>2, <1>3, <1>4

\* A write elsewhere, or of what is there, is quiet.
LEMMA MemWQuiet ==
    ASSUME TypeOK, SeenInv, NEW s \in Site, NEW c \in Content, NEW ok \in BOOLEAN,
           MemW(s, c, ok), s \notin Critical \/ mem[s] = c
    PROVE  Quiet
BY MemWOthers DEF Quiet

\* Whatever a write leaves at a branch, the helper that was intact still is.
LEMMA BranchWrite ==
    ASSUME TypeOK, SeenInv, Solid("helper"), NEW s \in HelperUsers, NEW c \in Content,
           NEW ok \in BOOLEAN, MemW(s, c, ok)
    PROVE  /\ Solid("helper")' /\ Protected' /\ SeenInv'
           /\ \A t \in Critical \ {s} : mem'[t] = mem[t] /\ fetch'[t] = fetch[t]
<1>1. s \in Site /\ "helper" \in Critical \ {s}
  BY UsersAreCode, CriticalSites
<1>2. fetch'["helper"] = fetch["helper"]
  BY <1>1, MemWOthers
<1>3. Solid("helper")'
  BY <1>2 DEF Solid
<1> QED BY <1>1, <1>3, MemWOthers DEF Protected

\* A quiet step that leaves the snapshots keeps what is known of them.
LEMMA SnapshotKept ==
    ASSUME SeenInv, Protected, SnapshotInv, Quiet, before' = before,
           undone' \cap HelperUsers \subseteq undone, pc \notin Early \/ pc' \in Early,
           pc' = "undosync" => pc = "undosync" /\ at' = at /\ mem' = mem
    PROVE  SnapshotInv'
<1> SUFFICES ASSUME pc' \notin Early PROVE SnapshotInv'
  BY DEF SnapshotInv
<1>1. before["helper"] = "patched" => Solid("helper")'
  BY QuietKeeps DEF SnapshotInv
<1>2. ASSUME NEW s \in HelperUsers
      PROVE  /\ before[s] \in Branch => before["helper"] = "patched"
             /\ mem'[s] # before[s] => Solid("helper")'
             /\ s \in undone' => fetch'[s] = {before[s]}
  BY <1>2, QuietKeeps, CriticalSites DEF SnapshotInv
<1>3. pc' = "undosync" => mem'[UndoOrder[at']] = before[UndoOrder[at']]
  BY DEF SnapshotInv
<1> QED BY <1>1, <1>2, <1>3 DEF SnapshotInv

\* The main function's steps, and the ends of the run.
LEMMA MainStep ==
    ASSUME HelperInv, Quiet, before' = before, undone' = undone,
           pc \notin Early, pc \notin Restoring,
           pc' \notin Early \cup Writing \cup {"undosync"}
    PROVE  HelperInv'
<1>1. SeenInv' /\ Protected'
  BY QuietKeeps DEF HelperInv
<1>2. SnapshotInv'
  BY SnapshotKept DEF HelperInv
<1>3. PreflightInv'
  BY DEF HelperInv, PreflightInv, Early
<1>4. ApplyInv'
  BY DEF ApplyInv, Writing
<1> QED BY <1>1, <1>2, <1>3, <1>4 DEF HelperInv

\* The rollback's steps that do not touch a branch or the helper.
LEMMA RollbackStep ==
    ASSUME HelperInv, Quiet, before' = before, undone' \cap HelperUsers \subseteq undone,
           pc \notin Early, pc' \in Restoring \ {"undosync"}
    PROVE  HelperInv'
<1>1. SeenInv' /\ Protected'
  BY QuietKeeps DEF HelperInv
<1>2. SnapshotInv'
  BY SnapshotKept DEF HelperInv
<1>3. PreflightInv' /\ ApplyInv'
  BY DEF PreflightInv, ApplyInv, Writing, Restoring
<1> QED BY <1>1, <1>2, <1>3 DEF HelperInv

LEMMA HelperInit == ASSUME Init, Clean0 PROVE HelperInv
<1>1. mem = Left(origin) /\ origin \in {"fresh", "current"}
  BY DEF Init, Clean0
<1>2. \A s \in Critical : mem[s] = IF origin = "fresh" THEN "stock" ELSE "patched"
  <2>1. \A s \in Critical : s \in Site /\ s \notin Cave /\ s # "func"
    BY CriticalSites
  <2> QED BY <1>1, <2>1 DEF Left
<1>3. \A s \in Critical : fetch[s] = {mem[s]}
  BY CriticalSites DEF Init
<1>4. Protected
  BY <1>2, <1>3, CriticalSites DEF Protected, MayBranch, Solid, Torn
<1>5. SeenInv
  BY <1>3 DEF SeenInv
<1>6. pc = "rest"
  BY DEF Init
<1> QED BY <1>4, <1>5, <1>6
        DEF HelperInv, SnapshotInv, PreflightInv, ApplyInv, Early, Restoring, Writing

\* Preparation: the helper is synchronised before the snapshots are taken.
LEMMA HelperPrepared ==
    ASSUME TypeOK, HelperInv, Begin \/ Resolve \/ Preflight \/ Snapshot \/ Crash
    PROVE  HelperInv'
<1> USE DEF Goto
<1>1. CASE Begin \/ Resolve \/ Crash
  <2>1. Quiet
    BY <1>1, StillQuiet DEF Begin, Resolve, Crash
  <2>2. SeenInv' /\ Protected'
    BY <2>1, QuietKeeps DEF HelperInv
  <2>3. CASE Begin
    <3>1. pc' = "resolve" /\ at' = 1 /\ ready' = {} /\ undone' = {}
      BY <2>3 DEF Begin
    <3> QED BY <2>2, <3>1
            DEF HelperInv, SnapshotInv, PreflightInv, ApplyInv, Early, Writing, Restoring
  <2>4. CASE Resolve
    <3>1. /\ pc = "resolve" /\ pc' \in {"preflight", "rest"}
          /\ ready' = ready /\ undone' = undone /\ at' = at
      BY <2>4 DEF Resolve, Exit, process
    <3>2. ready' = {} /\ undone' = {}
      BY <3>1 DEF HelperInv, PreflightInv, Restoring
    <3>3. at' = 1
      BY <3>1 DEF HelperInv, PreflightInv
    <3> QED BY <2>2, <3>1, <3>2, <3>3
            DEF HelperInv, SnapshotInv, PreflightInv, ApplyInv, Early, Writing, Restoring
  <2>5. CASE Crash
    <3>1. pc' = "rest"
      BY <2>5 DEF Crash, Exit
    <3> QED BY <2>2, <3>1
            DEF HelperInv, SnapshotInv, PreflightInv, ApplyInv, Early, Writing, Restoring
  <2> QED BY <1>1, <2>3, <2>4, <2>5
<1>2. CASE Preflight
  <2>1. PICK ok \in BOOLEAN :
            \/ UNCHANGED image /\ Spans[at] = {"func"} /\ fine' = fine
            \/ Flush(Spans[at], ok) /\ fine' = (fine /\ ok)
    BY <1>2 DEF Preflight
  <2>2. Quiet
    BY <2>1, StillQuiet, FlushQuiet
  <2>3. SeenInv' /\ Protected'
    BY <2>2, QuietKeeps DEF HelperInv
  <2>4. pc = "preflight" /\ pc' \in {"preflight", "snapshot"}
        /\ ready' = ready /\ undone' = undone
    BY <1>2 DEF Preflight
  <2>5. ready' = {} /\ undone' = {}
    BY <2>4 DEF HelperInv, PreflightInv, Restoring
  <2>6. ASSUME fine', pc' = "snapshot" \/ at' > 3
        PROVE  fetch'["helper"] = {mem'["helper"]}
    <3>1. at \in 1 .. 12 /\ at >= 3
      BY <1>2, <2>6, Orders DEF Preflight, TypeOK
    <3>2. CASE at > 3
      <4>1. fetch["helper"] = {mem["helper"]}
        BY <2>1, <2>4, <2>6, <3>2 DEF HelperInv, PreflightInv
      <4> QED BY <2>2, <4>1, QuietKeeps, CriticalSites DEF HelperInv
    <3>3. CASE at = 3
      <4>1. Spans[at] = {"helper"}
        BY <3>3, Orders
      <4>2. Flush({"helper"}, ok) /\ ok
        BY <2>1, <2>6, <4>1
      <4> QED BY <4>2, FlushQuiet, UsersAreCode
    <3> QED BY <3>1, <3>2, <3>3
  <2> QED BY <2>3, <2>4, <2>5, <2>6
          DEF HelperInv, SnapshotInv, PreflightInv, ApplyInv, Early, Writing, Restoring
<1>3. CASE Snapshot
  <2>1. Quiet /\ mem' = mem /\ fetch' = fetch
    BY <1>3, StillQuiet DEF Snapshot, image
  <2>2. SeenInv' /\ Protected'
    BY <2>1, QuietKeeps DEF HelperInv
  <2>3. pc = "snapshot" /\ ready = {} /\ undone = {} /\ ready' = {} /\ undone' = {}
    BY <1>3 DEF Snapshot, HelperInv, PreflightInv, Restoring
  <2>4. CASE pc' = "rest"
    BY <2>2, <2>4 DEF HelperInv, SnapshotInv, PreflightInv, ApplyInv, Early, Writing,
                      Restoring
  <2>5. CASE fine /\ pc' = "apply" /\ before' = mem
    <3>1. fetch["helper"] = {mem["helper"]}
      BY <2>3, <2>5 DEF HelperInv, PreflightInv
    <3>2. mem["helper"] = "patched" => Solid("helper")'
      BY <2>1, <3>1 DEF Solid
    <3>3. ASSUME NEW s \in HelperUsers, mem[s] \in Branch
          PROVE  mem["helper"] = "patched"
      <4>1. MayBranch(s)
        BY <3>3, CriticalSites DEF MayBranch, HelperInv, SeenInv, Branch
      <4> QED BY <3>1, <4>1 DEF HelperInv, Protected, Solid
    <3>4. SnapshotInv'
      BY <2>1, <2>3, <2>5, <3>2, <3>3 DEF SnapshotInv
    <3>5. PreflightInv' /\ ApplyInv'
      BY <2>1, <2>3, <2>5, <3>1 DEF PreflightInv, ApplyInv
    <3> QED BY <2>2, <3>4, <3>5 DEF HelperInv
  <2> QED BY <1>3, <2>4, <2>5 DEF Snapshot, Exit
<1> QED BY <1>1, <1>2, <1>3

\* The steps on the main function and its cave.
LEMMA HelperThroughMain ==
    ASSUME TypeOK, HelperInv,
           Main \/ Enable \/ EnableSync \/ Strings \/ Stub \/ StubBack \/ Verify
    PROVE  HelperInv'
<1> USE DEF Goto
<1>1. /\ pc \notin Early /\ pc \notin Restoring
      /\ before' = before /\ undone' = undone
  BY DEF Main, Enable, EnableSync, Strings, Clear, Fill, Refill, Stub, WriteTable,
         WriteMarker, WriteStub, StubSync, StubBack, RestoreStub, RestoreStubSync,
         RestoreTable, RestoreMarker, Verify, process, Early, Restoring
<1>2. pc' \notin Early \cup Writing \cup {"undosync"} \/ pc' = "rest"
  BY DEF Main, Enable, EnableSync, Strings, Clear, Fill, Refill, Stub, WriteTable,
         WriteMarker, WriteStub, StubSync, StubBack, RestoreStub, RestoreStubSync,
         RestoreTable, RestoreMarker, Verify, Exit, Early, Writing
<1>3. Quiet
  <2>1. {"func", "strings", "table", "marker"} \subseteq Site \ Critical
    BY MainSites, CriticalSites DEF Cave
  <2>2. \A s \in Site, c \in Content, ok \in BOOLEAN :
            MemW(s, c, ok) /\ s \notin Critical => Quiet
    BY MemWQuiet DEF HelperInv
  <2>3. \A S : \A ok \in BOOLEAN : Flush(S, ok) => Quiet
    BY FlushQuiet
  <2>4. CASE Main \/ Verify
    BY <2>4, StillQuiet DEF Main, Verify
  <2>5. CASE EnableSync \/ StubSync \/ RestoreStubSync
    BY <2>5, <2>3 DEF EnableSync, StubSync, RestoreStubSync
  <2>6. CASE Enable \/ WriteStub \/ RestoreStub
    BY <2>6, <2>1, <2>2, MainSites, Contents DEF Enable, WriteStub, RestoreStub
  <2>7. CASE Strings
    BY <2>7, <2>1, <2>2, MainSites, Contents DEF Strings, Clear, Fill, Refill
  <2>8. CASE WriteTable \/ WriteMarker \/ RestoreTable \/ RestoreMarker
    BY <2>8, <2>1, <2>2, MainSites, Contents
       DEF WriteTable, WriteMarker, RestoreTable, RestoreMarker
  <2> QED BY <2>4, <2>5, <2>6, <2>7, <2>8 DEF Stub, StubBack
<1>4. CASE pc' # "rest"
  BY <1>1, <1>2, <1>3, <1>4, MainStep
<1>5. CASE pc' = "rest"
  BY <1>1, <1>3, <1>5, RollbackStep DEF Restoring
<1> QED BY <1>4, <1>5

\* A step of apply_auxiliary_targets that is on to the next site, or that has
\* started to write one, without touching a critical site.
LEMMA ApplyQuiet ==
    ASSUME TypeOK, HelperInv, Quiet, pc \in Writing,
           before' = before, undone' = undone,
           \/ pc' \in {"apply", "main"} /\ (pc' = "apply" => at' # 1)
           \/ pc' = "sync" /\ at' = at /\ ready' = ready /\ (at = 1 => pc = "sync"),
           pc' = "sync" /\ ApplyOrder[at'] \in HelperUsers \cup Event => "helper" \in ready,
           ready' # ready => \E s : /\ ready' = ready \cup {s}
                                    /\ s = "helper" => Solid("helper")'
                                    /\ s \in Event => "helper" \in ready
    PROVE  HelperInv'
<1>1. SeenInv' /\ Protected'
  BY QuietKeeps DEF HelperInv
<1>2. SnapshotInv'
  BY SnapshotKept DEF HelperInv, Writing, Early
<1>3. PreflightInv'
  BY DEF HelperInv, PreflightInv, Writing, Restoring
<1>4. ApplyInv'
  <2>1. "helper" \in ready' => Solid("helper")'
    <3>1. "helper" \in ready => Solid("helper")'
      BY QuietKeeps DEF HelperInv, ApplyInv
    <3>2. CASE ready' = ready
      BY <3>1, <3>2
    <3>3. CASE ready' # ready
      <4>1. PICK e : /\ ready' = ready \cup {e}
                     /\ e = "helper" => Solid("helper")'
                     /\ e \in Event => "helper" \in ready
        BY <3>3
      <4> QED BY <3>1, <4>1 DEF Solid
    <3> QED BY <3>2, <3>3
  <2>2. pc' \in Writing /\ at' = 1 => pc = "sync" /\ pc' = "sync" /\ at = 1 /\ ready' = ready
    BY DEF Writing
  <2>3. pc' \in Writing /\ at' = 1 =>
            ready' = {} /\ \A s \in HelperUsers : mem'[s] = before[s]
    BY <2>2, QuietKeeps, CriticalSites DEF HelperInv, ApplyInv
  <2>4. pc' = "sync" /\ at' = 1 => mem'["helper"] = "patched" /\ before["helper"] # "patched"
    BY <2>2, QuietKeeps, CriticalSites DEF HelperInv, ApplyInv, Writing
  <2>5. Event \cap ready' # {} => "helper" \in ready'
    <3>1. Event \cap ready # {} => "helper" \in ready
      BY DEF HelperInv, ApplyInv
    <3>2. CASE ready' = ready
      BY <3>1, <3>2
    <3>3. CASE ready' # ready
      <4>1. PICK e : /\ ready' = ready \cup {e}
                     /\ e = "helper" => Solid("helper")'
                     /\ e \in Event => "helper" \in ready
        BY <3>3
      <4> QED BY <3>1, <4>1 DEF Solid
    <3> QED BY <3>2, <3>3
  <2>6. ~(pc' = "apply" /\ at' = 1)
    OBVIOUS
  <2>7. pc' = "sync" /\ ApplyOrder[at'] \in HelperUsers \cup Event => "helper" \in ready'
    OBVIOUS
  <2> QED BY <2>1, <2>3, <2>4, <2>5, <2>6, <2>7 DEF ApplyInv
<1> QED BY <1>1, <1>2, <1>3, <1>4 DEF HelperInv

\* A step that writes a branch, the helper being ready.
LEMMA ApplyBranch ==
    ASSUME TypeOK, HelperInv, pc \in Writing, at \in 2 .. 12,
           ApplyOrder[at] \in HelperUsers, "helper" \in ready,
           NEW c \in Content, NEW ok \in BOOLEAN, MemW(ApplyOrder[at], c, ok),
           before' = before, undone' = undone, ready' = ready,
           \/ pc' \in {"apply", "main"} /\ (pc' = "apply" => at' # 1)
           \/ pc' = "sync" /\ at' = at
    PROVE  HelperInv'
<1>1. Solid("helper")
  BY DEF HelperInv, ApplyInv
<1>2. /\ Solid("helper")' /\ Protected' /\ SeenInv'
      /\ \A t \in Critical \ {ApplyOrder[at]} : mem'[t] = mem[t] /\ fetch'[t] = fetch[t]
  BY <1>1, BranchWrite DEF HelperInv
<1>3. undone = {}
  BY DEF HelperInv, PreflightInv, Writing, Restoring
<1>4. SnapshotInv'
  BY <1>2, <1>3 DEF HelperInv, SnapshotInv, Writing, Early
<1>5. PreflightInv' /\ ApplyInv'
  BY <1>2, <1>3 DEF PreflightInv, ApplyInv, Writing
<1> QED BY <1>2, <1>4, <1>5 DEF HelperInv

\* What the code asks for before it writes a branch or an event site, ...
LEMMA NeedsHelper ==
    ASSUME HelperInv, pc \in Writing, NEW s \in HelperUsers \cup Event,
           Needs(s) \subseteq ready
    PROVE  "helper" \in ready
<1>1. CASE s \in {"idle_count", "update", "policy", "event0"}
  BY <1>1 DEF Needs
<1>2. CASE s \in {"event1", "event2", "stream_open"}
  <2>1. Event \cap ready # {}
    BY <1>2 DEF Needs, Event
  <2> QED BY <2>1 DEF HelperInv, ApplyInv
<1> QED BY <1>1, <1>2 DEF HelperUsers, Event

\* ... and before it leaves an event site alone.
LEMMA EventSkips == \A s \in Event \cup {"helper"} : SkipNeeds(s) = Needs(s)
BY DEF Event, SkipNeeds

LEMMA AdvanceMoves ==
    ASSUME TypeOK, Advance
    PROVE  pc' \in {"apply", "main"} /\ (pc' = "apply" => at' # 1)
BY Orders DEF TypeOK, Advance, Goto

\* The auxiliary sites are brought to what is wanted.
LEMMA HelperThroughApply ==
    ASSUME TypeOK, HelperInv, ApplySite \/ SyncSite \/ WriteAgain
    PROVE  HelperInv'
<1> DEFINE s == ApplyOrder[at]
<1>1. /\ pc \in Writing /\ before' = before /\ undone' = undone /\ at \in 1 .. 12
      /\ s \in Site /\ Wanted(s) \in Content /\ (s = "helper" <=> at = 1)
  BY Orders, UsersAreCode, WantedTypes DEF ApplySite, SyncSite, WriteAgain, Writing, TypeOK
<1>2. Wanted("helper") = "patched"
  BY DEF Wanted
<1> HIDE DEF s
<1>3. CASE ApplySite
  <2>1. pc = "apply"
    BY <1>3 DEF ApplySite
  <2>2. CASE /\ SkipNeeds(s) \subseteq ready /\ mem[s] = Wanted(s)
             /\ ready' = ready \cup {s} /\ Advance /\ UNCHANGED image
    <3>1. Quiet /\ (Solid("helper") => Solid("helper")')
      BY <2>2, StillQuiet, QuietKeeps DEF HelperInv
    <3>2. s = "helper" => Solid("helper")'
      BY <1>1, <1>2, <2>1, <2>2, <3>1 DEF HelperInv, ApplyInv, Solid
    <3>3. s \in Event => "helper" \in ready
      BY <1>1, <2>2, EventSkips, NeedsHelper
    <3> QED BY <1>1, <2>2, <3>1, <3>2, <3>3, AdvanceMoves, ApplyQuiet
  <2>3. CASE Advance /\ UNCHANGED image /\ ready' = ready
    BY <1>1, <2>3, StillQuiet, AdvanceMoves, ApplyQuiet
  <2>4. CASE /\ SkipNeeds(s) \subseteq ready => mem[s] # Wanted(s)
             /\ Needs(s) \subseteq ready /\ ready' = ready
             /\ \E ok \in BOOLEAN : /\ MemW(s, Wanted(s), ok)
                                   /\ \/ ok /\ pc' = "sync" /\ at' = at
                                      \/ ~ok /\ Advance
    <3>1. PICK ok \in BOOLEAN : /\ MemW(s, Wanted(s), ok)
                                /\ \/ ok /\ pc' = "sync" /\ at' = at
                                   \/ /\ ~ok /\ pc' \in {"apply", "main"}
                                      /\ pc' = "apply" => at' # 1
      BY <2>4, AdvanceMoves
    <3>2. CASE s = "helper"
      <4>1. at = 1 /\ mem["helper"] # "patched" /\ ready = {} /\ undone = {}
        BY <1>1, <1>2, <2>1, <2>4, <3>2, EventSkips
           DEF HelperInv, ApplyInv, PreflightInv, Restoring
      <4>2. ~Solid("helper")
        BY <4>1, CriticalSites DEF HelperInv, SeenInv, Solid
      <4>3. before["helper"] # "patched"
            /\ \A u \in HelperUsers : mem[u] = before[u] /\ before[u] \notin Branch
        BY <2>1, <4>1, <4>2 DEF HelperInv, SnapshotInv, ApplyInv, Early, Writing
      <4>4. /\ \A u \in HelperUsers : mem'[u] = mem[u] /\ fetch'[u] = fetch[u]
            /\ SeenInv' /\ (ok => mem'["helper"] = "patched")
        BY <1>1, <1>2, <3>1, <3>2, MemWOthers, CriticalSites, UsersAreCode DEF HelperInv
      <4>5. Protected'
        BY <4>2, <4>4 DEF HelperInv, Protected, MayBranch
      <4>6. SnapshotInv'
        BY <1>1, <3>1, <4>1, <4>3, <4>4 DEF SnapshotInv
      <4>7. PreflightInv'
        BY <1>1, <3>1, <4>1 DEF PreflightInv
      <4>8. ApplyInv'
        BY <1>1, <2>4, <3>1, <4>1, <4>3, <4>4, UsersAreCode, Orders
           DEF ApplyInv, Writing, Event
      <4> QED BY <4>4, <4>5, <4>6, <4>7, <4>8 DEF HelperInv
    <3>3. CASE s \in HelperUsers
      <4>1. at \in 2 .. 12 /\ "helper" \in ready
        BY <1>1, <2>4, <3>3, NeedsHelper, UsersAreCode
      <4> QED BY <1>1, <2>4, <3>1, <3>3, <4>1, ApplyBranch DEF s
    <3>4. CASE s \notin Critical
      <4>1. Quiet /\ at # 1
        BY <1>1, <3>1, <3>4, MemWQuiet, CriticalSites DEF HelperInv
      <4>2. s \in Event => "helper" \in ready
        BY <1>1, <2>4, NeedsHelper
      <4>3. s \notin HelperUsers
        BY <3>4, CriticalSites
      <4> QED BY <1>1, <2>4, <3>1, <4>1, <4>2, <4>3, ApplyQuiet DEF s
    <3> QED BY <3>2, <3>3, <3>4 DEF Critical
  <2> QED BY <1>3, <2>2, <2>3, <2>4 DEF ApplySite, Goto, s
<1>4. CASE SyncSite
  <2>1. PICK ok \in BOOLEAN :
            /\ Flush({s}, ok)
            /\ \/ ok /\ pc' = pc /\ at' = at /\ ready' = ready
               \/ ok /\ ready' = ready \cup {s} /\ Advance
               \/ ~ok /\ ready' = ready /\ Advance
    BY <1>4 DEF SyncSite, s
  <2>2. pc = "sync"
    BY <1>4 DEF SyncSite
  <2>3. Quiet /\ (ok => \A t \in {s} \cap Code : fetch'[t] = {mem[t]})
    BY <2>1, FlushQuiet
  <2>4. s = "helper" /\ ok => Solid("helper")'
    BY <1>1, <2>2, <2>3, UsersAreCode DEF HelperInv, ApplyInv, Solid
  <2>5. s \in HelperUsers \cup Event => "helper" \in ready
    BY <2>2 DEF HelperInv, ApplyInv, s
  <2>6. CASE ok /\ pc' = pc /\ at' = at /\ ready' = ready
    BY <1>1, <2>2, <2>3, <2>5, <2>6, ApplyQuiet DEF s
  <2>7. CASE ok /\ ready' = ready \cup {s} /\ Advance
    BY <1>1, <2>3, <2>4, <2>5, <2>7, AdvanceMoves, ApplyQuiet
  <2>8. CASE ~ok /\ ready' = ready /\ Advance
    BY <1>1, <2>3, <2>8, AdvanceMoves, ApplyQuiet
  <2> QED BY <2>1, <2>6, <2>7, <2>8
<1>5. CASE WriteAgain
  <2>1. PICK ok \in BOOLEAN :
            /\ MemW(s, Wanted(s), ok)
            /\ \/ pc' = "sync" /\ at' = at
               \/ pc' \in {"apply", "main"} /\ (pc' = "apply" => at' # 1)
    BY <1>5, AdvanceMoves DEF WriteAgain, s
  <2>2. pc = "sync" /\ ready' = ready
    BY <1>5 DEF WriteAgain
  <2>3. s \in HelperUsers \cup Event => "helper" \in ready
    BY <2>2 DEF HelperInv, ApplyInv, s
  <2>4. CASE s \in HelperUsers
    <3>1. at \in 2 .. 12
      BY <1>1, <2>4, UsersAreCode
    <3> QED BY <1>1, <2>1, <2>2, <2>3, <2>4, <3>1, ApplyBranch DEF s
  <2>5. CASE s \notin HelperUsers
    <3>1. s \notin Critical \/ mem[s] = Wanted(s)
      BY <1>1, <1>2, <2>2, <2>5 DEF Critical, HelperInv, ApplyInv
    <3>2. Quiet
      BY <1>1, <2>1, <3>1, MemWQuiet DEF HelperInv
    <3> QED BY <1>1, <2>1, <2>2, <2>3, <3>2, ApplyQuiet DEF s
  <2> QED BY <2>4, <2>5
<1> QED BY <1>3, <1>4, <1>5

\* The rollback: a branch may come back only while the helper is intact, and
\* the helper is restored only when all branches are as they were.
LEMMA HelperThroughRollback ==
    ASSUME TypeOK, HelperInv, Rollback
    PROVE  HelperInv'
<1> DEFINE s == UndoOrder[at]
<1>1. s \in Site /\ before[s] \in Content
  BY Orders, UsersAreCode DEF TypeOK
<1>2. pc \notin Early /\ before' = before
  BY DEF Rollback, RestoreFunc, RestoreFuncSync, RestoreCave, Undo, UndoSync, process, Early
<1>3. \A done : UndoNext(done) => undone' = done /\ pc' \in Restoring \ {"undosync"}
  BY DEF UndoNext, Exit, Goto, Restoring
<1>4. AfterFunc \in Restoring \ {"undosync"}
  BY DEF AfterFunc, Restoring
<1> HIDE DEF s
<1>5. CASE RestoreFunc
  <2>1. Quiet
    BY <1>5, MemWQuiet, MainSites, CriticalSites DEF RestoreFunc, HelperInv
  <2>2. undone' = undone /\ pc' \in Restoring \ {"undosync"}
    BY <1>4, <1>5 DEF RestoreFunc, process, Goto, Restoring
  <2> QED BY <1>2, <2>1, <2>2, RollbackStep
<1>6. CASE RestoreFuncSync
  <2>1. Quiet
    BY <1>6, FlushQuiet DEF RestoreFuncSync
  <2>2. undone' \cap HelperUsers \subseteq undone
    BY <1>6, CriticalSites DEF RestoreFuncSync
  <2>3. pc' \in Restoring \ {"undosync"}
    BY <1>4, <1>6 DEF RestoreFuncSync, Goto
  <2> QED BY <1>2, <2>1, <2>2, <2>3, RollbackStep
<1>7. CASE RestoreCave
  <2>1. \A new \in [Site -> Content] :
            Image(new) /\ (\A t \in Critical : new[t] = mem[t]) => Quiet
    <3> SUFFICES ASSUME NEW new \in [Site -> Content], Image(new),
                        \A t \in Critical : new[t] = mem[t], NEW t \in Critical
                 PROVE  mem'[t] = mem[t] /\ fetch'[t] = fetch[t]
      BY DEF Quiet
    <3>1. mem'[t] = mem[t] /\ fetch'[t] = fetch[t] \cup {mem[t]}
      BY CriticalSites DEF Image
    <3> QED BY <3>1 DEF HelperInv, SeenInv
  <2>2. Quiet
    <3>1. CASE UNCHANGED image
      BY <3>1, StillQuiet
    <3>2. CASE Image([t \in Site |-> IF t \in Cave THEN before[t] ELSE mem[t]])
      BY <3>2, <2>1, CriticalSites DEF TypeOK
    <3>3. CASE Image([t \in Site |->
                   IF t \in Cave /\ mem[t] # before[t] THEN Torn ELSE mem[t]])
      <4>1. [t \in Site |-> IF t \in Cave /\ mem[t] # before[t] THEN Torn ELSE mem[t]]
                \in [Site -> Content]
        BY Contents DEF TypeOK
      <4> QED BY <3>3, <4>1, <2>1, CriticalSites
    <3> QED BY <1>7, <3>1, <3>2, <3>3 DEF RestoreCave, image
  <2>3. undone' \cap HelperUsers \subseteq undone
    BY <1>7, CriticalSites DEF RestoreCave
  <2>4. pc' \in Restoring \ {"undosync"}
    BY <1>7 DEF RestoreCave, Goto, Restoring
  <2> QED BY <1>2, <2>2, <2>3, <2>4, RollbackStep
<1>8. CASE Undo
  <2>1. CASE UndoNext(undone) /\ UNCHANGED image
    BY <1>2, <1>3, <2>1, StillQuiet, RollbackStep
  <2>2. CASE /\ s # "helper" \/ Disconnected
             /\ \E ok \in BOOLEAN :
                   /\ MemW(s, before[s], ok)
                   /\ \/ ok /\ pc' = "undosync" /\ at' = at /\ undone' = undone
                      \/ ~ok /\ UndoNext(undone)
    <3>1. PICK ok \in BOOLEAN :
              /\ MemW(s, before[s], ok)
              /\ undone' = undone /\ pc' \in Restoring
              /\ pc' = "undosync" => ok /\ at' = at
      BY <1>3, <2>2 DEF Restoring
    <3>2. pc' = "undosync" => mem'[UndoOrder[at']] = before[UndoOrder[at']]
      <4>1. ok => mem'[s] = before[s]
        BY <1>1, <3>1, MemWOthers DEF HelperInv
      <4>2. at' = at => UndoOrder[at'] = s
        BY DEF s
      <4> QED BY <3>1, <4>1, <4>2
    <3>3. PreflightInv' /\ ApplyInv'
      BY <3>1 DEF PreflightInv, ApplyInv, Restoring, Writing
    <3>4. CASE Quiet
      <4>1. SeenInv' /\ Protected'
        BY <3>4, QuietKeeps DEF HelperInv
      <4>2. SnapshotInv'
        BY <1>2, <3>1, <3>2, <3>4, QuietKeeps, CriticalSites DEF HelperInv, SnapshotInv
      <4> QED BY <3>3, <4>1, <4>2 DEF HelperInv
    <3>5. CASE s \in HelperUsers /\ ~Quiet
      <4>1. mem[s] # before[s]
        BY <1>1, <3>1, <3>5, MemWQuiet DEF HelperInv
      <4>2. Solid("helper")
        BY <1>2, <3>5, <4>1 DEF HelperInv, SnapshotInv
      <4>3. /\ Solid("helper")' /\ Protected' /\ SeenInv'
            /\ \A t \in Critical \ {s} : mem'[t] = mem[t] /\ fetch'[t] = fetch[t]
        BY <1>1, <3>1, <3>5, <4>2, BranchWrite DEF HelperInv
      <4>4. s \notin undone
        <5>1. mem[s] \in fetch[s]
          BY <3>5, CriticalSites DEF HelperInv, SeenInv
        <5> QED BY <1>2, <3>5, <4>1, <5>1 DEF HelperInv, SnapshotInv
      <4>5. SnapshotInv'
        BY <1>2, <3>1, <3>2, <4>3, <4>4, CriticalSites DEF HelperInv, SnapshotInv
      <4> QED BY <3>3, <4>3, <4>5 DEF HelperInv
    <3>6. CASE s = "helper" /\ ~Quiet
      <4>1. HelperUsers \subseteq undone
        BY <2>2, <3>6 DEF Disconnected
      <4>2. \A u \in HelperUsers : fetch[u] = {before[u]} /\ mem[u] = before[u]
        BY <1>2, <4>1, CriticalSites DEF HelperInv, SnapshotInv, SeenInv
      <4>3. mem["helper"] # before["helper"]
        BY <1>1, <3>1, <3>6, MemWQuiet DEF HelperInv
      <4>4. before["helper"] # "patched"
        <5>1. mem["helper"] \in fetch["helper"]
          BY CriticalSites DEF HelperInv, SeenInv
        <5> QED BY <1>2, <4>3, <5>1 DEF HelperInv, SnapshotInv, Solid
      <4>5. /\ \A u \in HelperUsers : mem'[u] = mem[u] /\ fetch'[u] = fetch[u]
            /\ SeenInv'
        BY <1>1, <3>1, <3>6, MemWOthers, CriticalSites, UsersAreCode DEF HelperInv
      <4>6. \A u \in HelperUsers : before[u] \notin Branch
        BY <1>2, <4>4 DEF HelperInv, SnapshotInv
      <4>7. Protected'
        BY <4>2, <4>5, <4>6 DEF Protected, MayBranch, Branch
      <4>8. SnapshotInv'
        BY <1>2, <3>1, <3>2, <4>2, <4>4, <4>5, <4>6 DEF SnapshotInv
      <4> QED BY <3>3, <4>5, <4>7, <4>8 DEF HelperInv
    <3>7. s \notin Critical => Quiet
      BY <1>1, <3>1, MemWQuiet DEF HelperInv
    <3> QED BY <3>4, <3>5, <3>6, <3>7 DEF Critical
  <2> QED BY <1>8, <2>1, <2>2 DEF Undo, Goto, s
<1>9. CASE UndoSync
  <2>1. PICK ok \in BOOLEAN :
            Flush({s}, ok) /\ UndoNext(IF ok THEN undone \cup {s} ELSE undone)
    BY <1>9 DEF UndoSync, s
  <2>2. /\ Quiet /\ (ok => \A t \in {s} \cap Code : fetch'[t] = {mem[t]})
        /\ pc' \in Restoring \ {"undosync"}
        /\ undone' = IF ok THEN undone \cup {s} ELSE undone
    BY <1>3, <2>1, FlushQuiet
  <2>3. mem[s] = before[s]
    BY <1>2, <1>9 DEF UndoSync, HelperInv, SnapshotInv, s
  <2>4. SeenInv' /\ Protected'
    BY <2>2, QuietKeeps DEF HelperInv
  <2>5. ASSUME NEW u \in HelperUsers, u \in undone'
        PROVE  fetch'[u] = {before[u]}
    <3>1. CASE u \in undone
      BY <1>2, <2>2, <2>5, <3>1, QuietKeeps, CriticalSites DEF HelperInv, SnapshotInv
    <3>2. CASE u \notin undone
      BY <2>2, <2>3, <2>5, <3>2, UsersAreCode
    <3> QED BY <3>1, <3>2
  <2>6. SnapshotInv'
    BY <1>2, <2>2, <2>5, QuietKeeps, CriticalSites DEF HelperInv, SnapshotInv
  <2>7. PreflightInv' /\ ApplyInv'
    BY <2>2 DEF PreflightInv, ApplyInv, Restoring, Writing
  <2> QED BY <2>4, <2>6, <2>7 DEF HelperInv
<1> QED BY <1>5, <1>6, <1>7, <1>8, <1>9 DEF Rollback

\* What the comment of auxiliary_transaction_restore claims, for any number of
\* runs, failing calls and kills: no CPU may take a branch into the helper
\* unless the helper is there, when the HAL was untouched or completely
\* patched by this release at first.
THEOREM HelperOutlives == Spec => []HelperOutlivesBranches
<1>1. Init => (Clean0 => HelperInv)
  BY HelperInit
<1>2. TypeOK /\ (Clean0 => HelperInv) /\ [Next]_vars => (Clean0 => HelperInv)'
  <2> SUFFICES ASSUME TypeOK, Clean0 => HelperInv, [Next]_vars, Clean0' PROVE HelperInv'
    OBVIOUS
  <2>0. HelperInv
    <3>1. origin' = origin
      BY DEF Next, vars
    <3> QED BY <3>1 DEF Clean0
  <2>1. CASE UNCHANGED vars
    <3>1. Quiet
      BY <2>1, StillQuiet DEF vars
    <3>2. SeenInv' /\ Protected'
      BY <2>0, <3>1, QuietKeeps DEF HelperInv
    <3>3. /\ mem' = mem /\ fetch' = fetch /\ pc' = pc /\ at' = at /\ fine' = fine
          /\ ready' = ready /\ before' = before /\ undone' = undone
      BY <2>1 DEF vars, image, process
    <3> QED BY <2>0, <3>2, <3>3
            DEF HelperInv, SnapshotInv, PreflightInv, ApplyInv, Solid
  <2>2. CASE Step
    BY <2>0, <2>2, HelperPrepared, HelperThroughMain, HelperThroughApply,
       HelperThroughRollback DEF Step, Apply
  <2> QED BY <2>1, <2>2 DEF Next
<1>3. (Clean0 => HelperInv) => HelperOutlivesBranches
  BY DEF HelperInv, Protected, HelperOutlivesBranches
<1> QED BY <1>1, <1>2, <1>3, Typing, PTL DEF Spec

-----------------------------------------------------------------------------
(* What a run leaves: complete success, complete rollback, or a word of it. *)

\* What one write does: the other sites keep their bytes, and a clean cache
\* stays clean; a write that fails is a fault unless the patcher is compromised.
Wrote(s, c, ok) ==
    /\ mem' \in [Site -> Content]
    /\ \A t \in Site \ {s} : mem'[t] = mem[t]
    /\ \A t \in Code \ {s} : fetch[t] = {mem[t]} => fetch'[t] = {mem[t]}
    /\ mem'[s] \in {mem[s], c, Torn}
    /\ ok => mem'[s] = c /\ faults' = faults
    /\ ~ok => compromised \/ faults' = faults + 1

\* What cache maintenance over the sites of S does.
Flushed(S, ok) ==
    /\ mem' = mem
    /\ \A t \in Code : fetch[t] = {mem[t]} => fetch'[t] = {mem[t]}
    /\ ok => /\ \A t \in S \cap Code : fetch'[t] = {mem[t]}
             /\ faults' = faults /\ compromised' = compromised
    /\ ~ok => compromised \/ faults' = faults + 1
    /\ compromised => compromised'

\* Every outcome of the patcher's mem_write is one of Wrote.
LEMMA MemWrote ==
    ASSUME TypeOK, NEW s \in Site, NEW c \in Content, NEW ok \in BOOLEAN, MemW(s, c, ok)
    PROVE  Wrote(s, c, ok)
<1>1. mem' \in [Site -> Content]
  BY MemWTypes
<1>2. ASSUME NEW x \in Content, Image([mem EXCEPT ![s] = x])
      PROVE  /\ \A t \in Site \ {s} : mem'[t] = mem[t]
             /\ \A t \in Code \ {s} : fetch[t] = {mem[t]} => fetch'[t] = {mem[t]}
             /\ mem'[s] = x
  <2>1. mem' = [mem EXCEPT ![s] = x]
    BY <1>2 DEF Image
  <2>2. mem'[s] = x /\ \A t \in Site \ {s} : mem'[t] = mem[t]
    BY <2>1 DEF TypeOK
  <2>3. \A t \in Code : fetch'[t] = fetch[t] \cup {mem'[t]}
    BY <1>2, <2>1 DEF Image
  <2> QED BY <2>2, <2>3, UsersAreCode
<1>3. CASE ok /\ ~compromised /\ Image([mem EXCEPT ![s] = c]) /\ UNCHANGED faults
  BY <1>1, <1>2, <1>3 DEF Wrote
<1>4. CASE ~ok /\ compromised /\ UNCHANGED <<image, faults>>
  BY <1>1, <1>4 DEF Wrote, image
<1>5. CASE /\ ~ok /\ ~compromised /\ Fault
           /\ \E x \in {mem[s], c} \cup Partial(s, c) : Image([mem EXCEPT ![s] = x])
  <2>1. PICK x \in {mem[s], c} \cup Partial(s, c) : Image([mem EXCEPT ![s] = x])
    BY <1>5
  <2>2. x \in {mem[s], c, Torn}
    BY <2>1 DEF Partial
  <2>3. x \in Content
    BY <2>2, Contents DEF TypeOK
  <2> QED BY <1>1, <1>2, <1>5, <2>1, <2>2, <2>3 DEF Wrote, Fault
<1> QED BY <1>3, <1>4, <1>5 DEF MemW

\* Every outcome of a synchronisation is one of Flushed.
LEMMA FlushFlushed ==
    ASSUME NEW S, NEW ok \in BOOLEAN, Flush(S, ok)
    PROVE  Flushed(S, ok)
<1>1. CASE ok
  BY <1>1 DEF Flush, Flushed, image
<1>2. CASE ~ok /\ compromised /\ UNCHANGED <<image, faults, compromised>>
  BY <1>2 DEF Flushed, image
<1>3. CASE ~ok /\ ~compromised /\ Fault /\ UNCHANGED image
  BY <1>3 DEF Flushed, image, Fault
<1> QED BY <1>1, <1>2, <1>3 DEF Flush

\* The phases of a run, by their steps: nothing is written yet, ...
Preparing == {"resolve", "preflight", "snapshot"}
Stubbing  == {"clear", "fill", "refill", "table", "marker", "code", "stubsync",
              "uncode", "uncodesync", "untable", "unmarker"}
\* ... the main function is being patched, the stub or the global flag, ...
Installing == Stubbing \cup {"enable", "enablesync"}
\* ... and what was written is being restored.
RollingBack == {"unfunc", "unfuncsync", "uncave", "undo", "undosync"}

\* Which steps a request leads through.
ModeInv ==
    /\ pc \in {"enable", "enablesync"} => req.mode = "global" /\ MainNeeded
    /\ pc \in Stubbing \cup {"uncave"} => req.mode = "whitelist"
    /\ pc \in {"unfunc", "unfuncsync"} => MainNeeded
    /\ pc \in {"resolve", "main", "unfunc", "unfuncsync", "uncave"} => at = 1
    /\ pc = "preflight" => at \in 1 .. 7
    /\ pc = "snapshot" => at = 1
    /\ pc \in Installing => ~main /\ pass \in {1, 2}

\* What is asked for, and what is needed for it, changes between runs only.
LEMMA SameRequest ==
    ASSUME UNCHANGED <<req, before>>
    PROVE  /\ MainNeeded' = MainNeeded /\ Whole' = Whole
           /\ AfterFunc' = AfterFunc
           /\ \A s : (IF req'.relaxed /\ s \in {"app_policy", "policy"}
                      THEN "alternate" ELSE "patched") = Wanted(s)
BY DEF MainNeeded, Whole, AfterFunc, Wanted

\* Every step keeps to the way that the request prescribes.
LEMMA ModeStep == TypeOK /\ ModeInv /\ Step => ModeInv'
<1> SUFFICES ASSUME TypeOK, ModeInv, Step PROVE ModeInv'
  OBVIOUS
<1> USE DEF Goto, ModeInv, Installing, Stubbing
<1>1. CASE Begin \/ Crash
  BY <1>1 DEF Begin, Crash, Exit
<1>2. CASE Resolve \/ Preflight \/ Snapshot
  BY <1>2, Orders DEF TypeOK, Resolve, Preflight, Snapshot, Exit, process
<1>3. CASE ApplySite \/ SyncSite \/ WriteAgain
  BY <1>3, Orders DEF ApplySite, SyncSite, WriteAgain, Advance
<1>4. CASE Main
  <2>1. MainNeeded' = MainNeeded
    BY <1>4, SameRequest DEF Main
  <2>2. /\ pc' \in {"verify", "clear", "enable"}
        /\ pc' = "clear" => req.mode = "whitelist" /\ MainNeeded
        /\ pc' = "enable" => req.mode # "whitelist" /\ MainNeeded
    BY <1>4 DEF Main, MainNeeded
  <2>3. req.mode \in {"global", "whitelist"}
    BY RequestAssumption DEF TypeOK
  <2>4. MainNeeded => ~main'
    BY <1>4 DEF Main
  <2> QED BY <1>4, <2>1, <2>2, <2>3, <2>4 DEF Main
<1>5. CASE Enable \/ EnableSync
  <2>1. MainNeeded' = MainNeeded
    BY <1>5, SameRequest DEF Enable, EnableSync, process
  <2>2. CASE Enable
    BY <2>1, <2>2 DEF Enable, process
  <2>3. CASE EnableSync
    <3>1. pc' = "enable" => pass # 2
      BY <2>3 DEF EnableSync
    <3>2. pass # 2 => ~main'
      BY <2>3, Zenon DEF EnableSync
    <3> QED BY <2>1, <2>3, <3>1, <3>2 DEF EnableSync
  <2> QED BY <1>5, <2>2, <2>3
<1>6. CASE Strings
  BY <1>6 DEF Strings, Clear, Fill, Refill, process
<1>7. CASE Stub
  <2>1. CASE StubSync
    <3>1. pc' = "table" => pass # 2
      BY <2>1 DEF StubSync
    <3>2. pass # 2 => ~main'
      BY <2>1, Zenon DEF StubSync
    <3> QED BY <2>1, <3>1, <3>2 DEF StubSync
  <2> QED BY <1>7, <2>1 DEF Stub, WriteTable, WriteMarker, WriteStub
<1>8. CASE StubBack
  BY <1>8 DEF StubBack, RestoreStub, RestoreStubSync, RestoreTable, RestoreMarker, process
<1>9. CASE Verify
  <2>1. MainNeeded' = MainNeeded
    BY <1>9, SameRequest DEF Verify
  <2> QED BY <1>9, <2>1 DEF Verify, Exit
<1>10. CASE RestoreFunc \/ RestoreFuncSync
  <2>1. MainNeeded' = MainNeeded
    BY <1>10, SameRequest DEF RestoreFunc, RestoreFuncSync, process
  <2> QED BY <1>10, <2>1 DEF RestoreFunc, RestoreFuncSync, AfterFunc, process
<1>11. CASE RestoreCave
  BY <1>11 DEF RestoreCave
<1>12. CASE Undo \/ UndoSync
  <2>1. pc' \in {"undo", "undosync", "rest"}
    BY <1>12 DEF Undo, UndoSync, UndoNext, Exit
  <2> QED BY <2>1
<1> QED BY <1>1, <1>2, <1>3, <1>4, <1>5, <1>6, <1>7, <1>8, <1>9, <1>10, <1>11, <1>12
        DEF Step, Apply, Rollback

\* Whatever a site holds while a run works is old, new or torn.
Allowed(b, r, s) == {b[s], Installed(b, r)[s], Torn}

\* ... also in the copy that a failing stub puts back, and the sites that the
\* run is not about are untouched.
Mixed ==
    \A s \in Site : /\ {mem[s], inner[s]} \subseteq Allowed(before, req, s)
                    /\ s \notin Whole => mem[s] = before[s]

\* The image against the snapshot.
BytesInv ==
    /\ pc \in Preparing => mem = before /\ inner = before
    /\ pc \notin Early => Mixed
    /\ pc \in {"table", "marker", "code", "stubsync"} => mem["strings"] = req.list

\* The image that a request leads to, site by site.
LEMMA InstalledSites ==
    ASSUME NEW b, NEW r
    PROVE  /\ \A s \in Aux : Installed(b, r)[s] =
                 IF r.relaxed /\ s \in {"app_policy", "policy"} THEN "alternate" ELSE "patched"
           /\ Installed(b, r)["func"] = IF r.mode = "global" THEN "global" ELSE "stub"
           /\ r.mode = "global" => \A s \in Cave : Installed(b, r)[s] = b[s]
           /\ r.mode # "global" => /\ Installed(b, r)["strings"] = r.list
                                   /\ Installed(b, r)["table"] = r.list
                                   /\ Installed(b, r)["marker"] = "mark"
<1>1. "func" \notin Aux /\ "func" \notin Cave /\ "func" \in Site
  BY DEF Aux, ApplyOrder, Cave, Site, Code
<1>2. Aux \subseteq Site /\ Cave \subseteq Site
  BY DEF Site, Code
<1>3. Cave \cap Aux = {} /\ {"strings", "table", "marker"} = Cave
  BY DEF Aux, ApplyOrder, Cave
<1> QED BY <1>1, <1>2, <1>3 DEF Installed

\* What a run wants at a site is what complete success leaves there.
LEMMA WantedInstalled == \A s \in Aux : Wanted(s) = Installed(before, req)[s]
BY InstalledSites DEF Wanted

\* The auxiliary sites, the main function and its cave are apart.
LEMMA SiteKinds ==
    /\ Aux \subseteq Whole /\ Site = Aux \cup {"func", "strings", "table", "marker"}
    /\ {"func", "strings", "table", "marker"} \cap Aux = {}
    /\ MainNeeded => "func" \in Whole
    /\ req.mode = "whitelist" => Cave \subseteq Whole /\ MainNeeded
<1>1. {"func", "strings", "table", "marker"} \cap Aux = {}
  BY DEF Aux, ApplyOrder
<1> QED BY <1>1 DEF Site, Code, Cave, Whole, MainNeeded

\* A write of something allowed, at a site that the run is about.
LEMMA WriteStays ==
    ASSUME TypeOK, Mixed, UNCHANGED <<req, before>>, inner' \in {inner, mem},
           NEW s \in Site, s \in Whole, NEW c \in Allowed(before, req, s),
           NEW ok \in BOOLEAN, Wrote(s, c, ok)
    PROVE  Mixed'
<1>1. Whole' = Whole
  BY SameRequest
<1>2. ASSUME NEW t \in Site
      PROVE  /\ {mem'[t], inner'[t]} \subseteq Allowed(before, req, t)
             /\ t \notin Whole => mem'[t] = before[t]
  <2>1. {mem[t], inner[t], Torn} \subseteq Allowed(before, req, t)
    BY DEF Mixed, Allowed
  <2>2. inner'[t] \in Allowed(before, req, t)
    BY <2>1
  <2>3. CASE t = s
    BY <2>1, <2>2, <2>3 DEF Wrote
  <2>4. CASE t # s
    BY <2>1, <2>2, <2>4 DEF Wrote, Mixed
  <2> QED BY <2>3, <2>4
<1> QED BY <1>1, <1>2 DEF Mixed, Allowed

\* A step that leaves the image.
LEMMA ImageStays ==
    ASSUME TypeOK, Mixed, UNCHANGED <<req, before, mem>>, inner' \in {inner, mem}
    PROVE  Mixed'
<1>1. Whole' = Whole
  BY SameRequest
<1>2. \A t \in Site : {mem'[t], inner'[t]} \subseteq Allowed(before, req, t)
  BY DEF Mixed
<1> QED BY <1>1, <1>2 DEF Mixed

\* Writes and maintenance on the run's own sites keep every site to what is
\* allowed.
LEMMA MixedWrites ==
    ASSUME TypeOK, NEW t \in Site, NEW c, NEW ok \in BOOLEAN,
           MemW(t, c, ok), c \in Allowed(before, req, t), t \in Whole,
           Mixed, UNCHANGED <<req, before>>, inner' \in {inner, mem}
    PROVE  Mixed' /\ Wrote(t, c, ok)
<1>1. Installed(before, req)[t] \in Content
  <2>1. before[t] \in Content /\ req.list \in Content
    BY MainSites DEF TypeOK
  <2>2. t \in Cave \/ t \in Aux \/ t = "func"
    BY DEF Site, Code
  <2> QED BY <2>1, <2>2, Contents, InstalledSites DEF Cave
<1>2. c \in Content
  BY <1>1, Contents DEF Allowed, TypeOK
<1>3. Wrote(t, c, ok)
  BY <1>2, MemWrote
<1> QED BY <1>3, WriteStays

\* Cache maintenance writes nothing.
LEMMA MixedFlushes ==
    ASSUME TypeOK, NEW S, NEW ok \in BOOLEAN, Flush(S, ok),
           Mixed, UNCHANGED <<req, before>>, inner' \in {inner, mem}
    PROVE  Mixed' /\ mem' = mem
BY ImageStays, FlushFlushed DEF Flushed

\* Restoring a site writes what the snapshot holds.
LEMMA UndoMixed ==
    ASSUME TypeOK, BytesInv, Undo \/ UndoSync
    PROVE  Mixed'
<1> DEFINE u == UndoOrder[at]
<1>1. u \in Site /\ u \in Whole /\ before[u] \in Allowed(before, req, u)
  <2>1. u \in Aux
    BY Orders DEF TypeOK
  <2> QED BY <2>1, SiteKinds DEF Allowed
<1> HIDE DEF u
<1>2. UNCHANGED <<req, before, inner>> /\ Mixed
  BY DEF Undo, UndoSync, BytesInv, Early
<1>3. \/ mem' = mem
      \/ \E ok \in BOOLEAN : MemW(u, before[u], ok)
      \/ \E ok \in BOOLEAN : Flush({u}, ok)
  BY DEF Undo, UndoSync, u, image
<1> QED BY <1>1, <1>2, <1>3, MixedWrites, MixedFlushes, ImageStays

\* Every step leaves each site old, new or torn.
LEMMA BytesStep == TypeOK /\ ModeInv /\ BytesInv /\ Step => BytesInv'
<1> SUFFICES ASSUME TypeOK, ModeInv, BytesInv, Step PROVE BytesInv'
  OBVIOUS
<1> USE DEF Goto
<1> DEFINE s == ApplyOrder[at]
<1>1. /\ s \in Aux /\ s \in Site /\ s \in Whole /\ Wanted(s) \in Allowed(before, req, s)
  <2>1. s \in Aux
    BY Orders DEF TypeOK
  <2> QED BY <2>1, SiteKinds, WantedInstalled DEF Allowed
<1>2. \A t \in Site : \A c : \A ok \in BOOLEAN :
          /\ MemW(t, c, ok) /\ c \in Allowed(before, req, t) /\ t \in Whole
          /\ Mixed /\ UNCHANGED <<req, before>> /\ inner' \in {inner, mem}
          => Mixed' /\ Wrote(t, c, ok)
  BY MixedWrites
<1>3. \A S : \A ok \in BOOLEAN :
          /\ Flush(S, ok) /\ Mixed /\ UNCHANGED <<req, before>> /\ inner' \in {inner, mem}
          => Mixed' /\ mem' = mem
  BY MixedFlushes
<1>4. /\ \A t \in Site : before[t] \in Allowed(before, req, t) /\ Torn \in Allowed(before, req, t)
      /\ Mixed => \A t \in Site : inner[t] \in Allowed(before, req, t)
      /\ {"func", "strings", "table", "marker"} \subseteq Site
  BY SiteKinds DEF Allowed, Mixed
<1>5. /\ req.mode = "whitelist" =>
             /\ {"strings", "table", "marker", "func"} \subseteq Whole
             /\ req.list \in Allowed(before, req, "strings")
             /\ req.list \in Allowed(before, req, "table")
             /\ "mark" \in Allowed(before, req, "marker")
             /\ "stub" \in Allowed(before, req, "func")
      /\ req.mode = "global" => "global" \in Allowed(before, req, "func")
      /\ MainNeeded => "func" \in Whole
  BY SiteKinds, InstalledSites DEF Cave, Allowed
<1> HIDE DEF s
<1>6. CASE Begin \/ Crash
  BY <1>6 DEF Begin, Crash, Exit, image, BytesInv, Preparing, Early
<1>7. CASE Resolve
  BY <1>7 DEF Resolve, Exit, process, image, BytesInv, Preparing, Early
<1>8. CASE Preflight
  <2>1. mem' = mem
    BY <1>8, FlushFlushed DEF Preflight, Flushed, image
  <2> QED BY <1>8, <2>1 DEF Preflight, BytesInv, Preparing, Early
<1>9. CASE Snapshot
  <2>1. mem' = mem /\ mem = before /\ inner' = mem /\ pc' \in {"rest", "apply"}
    BY <1>9 DEF Snapshot, Exit, image, BytesInv, Preparing
  <2>2. pc' = "apply" => Mixed'
    BY <1>9, <2>1 DEF Snapshot, Exit, Mixed, Allowed
  <2> QED BY <2>1, <2>2 DEF BytesInv, Preparing, Early
<1>10. CASE ApplySite \/ SyncSite \/ WriteAgain
  <2>1. pc \in {"apply", "sync"} /\ UNCHANGED <<req, before, inner>>
        /\ pc' \in {"apply", "sync", "main"}
    BY <1>10 DEF ApplySite, SyncSite, WriteAgain, Advance
  <2>2. Mixed
    BY <2>1 DEF BytesInv, Early
  <2>3. CASE ApplySite
    <3>1. UNCHANGED mem \/ \E ok \in BOOLEAN : MemW(s, Wanted(s), ok)
      BY <2>3 DEF ApplySite, s, image
    <3> QED BY <1>1, <1>2, <2>1, <2>2, <3>1, ImageStays DEF BytesInv, Preparing
  <2>4. CASE SyncSite
    BY <1>3, <2>1, <2>2, <2>4 DEF SyncSite, BytesInv, Preparing
  <2>5. CASE WriteAgain
    <3>1. \E ok \in BOOLEAN : MemW(s, Wanted(s), ok)
      BY <2>5 DEF WriteAgain, s
    <3> QED BY <1>1, <1>2, <2>1, <2>2, <3>1 DEF BytesInv, Preparing
  <2> QED BY <1>10, <2>3, <2>4, <2>5
<1>11. CASE Main
  <2>1. Mixed'
    BY <1>11, ImageStays DEF Main, BytesInv, Early, image
  <2>2. pc' \in {"verify", "clear", "enable"}
    BY <1>11 DEF Main
  <2> QED BY <2>1, <2>2 DEF BytesInv, Preparing
<1>12. CASE Enable \/ EnableSync
  <2>1. pc \in {"enable", "enablesync"} /\ UNCHANGED <<req, before, inner>>
        /\ pc' \in {"enable", "enablesync", "verify"}
    BY <1>12 DEF Enable, EnableSync, process
  <2>2. Mixed /\ req.mode = "global" /\ MainNeeded
    BY <2>1 DEF BytesInv, Early, ModeInv
  <2>3. CASE Enable
    <3>1. \E ok \in BOOLEAN : MemW("func", "global", ok)
      BY <2>3 DEF Enable
    <3> QED BY <1>2, <1>4, <1>5, <2>1, <2>2, <3>1 DEF BytesInv, Preparing
  <2>4. CASE EnableSync
    BY <1>3, <2>1, <2>2, <2>4 DEF EnableSync, BytesInv, Preparing
  <2> QED BY <1>12, <2>3, <2>4
<1>13. CASE Strings
  <2>1. pc \in {"clear", "fill", "refill"} /\ UNCHANGED <<req, before>>
        /\ pc' \in {"fill", "table", "refill", "verify"} /\ inner' \in {inner, mem}
    BY <1>13 DEF Strings, Clear, Fill, Refill, process
  <2>2. Mixed /\ req.mode = "whitelist"
    BY <2>1 DEF BytesInv, Early, ModeInv, Stubbing
  <2>3. PICK c, ok : /\ c \in Allowed(before, req, "strings") /\ ok \in BOOLEAN
                     /\ MemW("strings", c, ok)
                     /\ pc' = "table" => ok /\ c = req.list
    BY <1>4, <1>5, <1>13, <2>2 DEF Strings, Clear, Fill, Refill
  <2>4. Mixed' /\ Wrote("strings", c, ok)
    BY <1>2, <1>4, <1>5, <2>1, <2>2, <2>3
  <2>5. pc' = "table" => mem'["strings"] = req.list
    BY <2>3, <2>4 DEF Wrote
  <2> QED BY <2>1, <2>4, <2>5 DEF BytesInv, Preparing
<1>14. CASE WriteTable \/ WriteMarker \/ WriteStub
  <2>1. pc \in {"table", "marker", "code"} /\ UNCHANGED <<req, before, inner>>
        /\ pc' \notin Preparing
    BY <1>14 DEF WriteTable, WriteMarker, WriteStub, Preparing
  <2>2. Mixed /\ req.mode = "whitelist" /\ mem["strings"] = req.list
    BY <2>1 DEF BytesInv, Early, ModeInv, Stubbing
  <2>3. PICK t, c, ok : /\ t \in {"table", "marker", "func"} /\ ok \in BOOLEAN
                        /\ c \in Allowed(before, req, t) /\ MemW(t, c, ok)
    BY <1>5, <1>14, <2>2 DEF WriteTable, WriteMarker, WriteStub
  <2>4. Mixed' /\ Wrote(t, c, ok)
    BY <1>2, <1>4, <1>5, <2>1, <2>2, <2>3
  <2>5. mem'["strings"] = req.list
    BY <1>4, <2>2, <2>3, <2>4 DEF Wrote
  <2> QED BY <2>1, <2>4, <2>5 DEF BytesInv
<1>15. CASE StubSync
  <2>1. Mixed /\ mem["strings"] = req.list
    BY <1>15 DEF StubSync, BytesInv, Early
  <2>2. Mixed' /\ mem' = mem /\ UNCHANGED req /\ pc' \in {"table", "verify"}
    BY <1>3, <1>15, <2>1 DEF StubSync
  <2> QED BY <2>1, <2>2 DEF BytesInv, Preparing
<1>16. CASE StubBack
  <2>1. pc \in Stubbing /\ pc \notin Early /\ UNCHANGED <<req, before, inner>>
        /\ pc' \in {"uncodesync", "untable", "unmarker", "verify"}
    BY <1>16 DEF StubBack, RestoreStub, RestoreStubSync, RestoreTable, RestoreMarker,
                 process, Stubbing, Early
  <2>2. Mixed /\ req.mode = "whitelist"
    BY <2>1 DEF BytesInv, ModeInv
  <2>3. CASE RestoreStubSync
    BY <1>3, <2>1, <2>2, <2>3 DEF RestoreStubSync, BytesInv, Preparing
  <2>4. CASE RestoreStub \/ RestoreTable \/ RestoreMarker
    <3>1. PICK t \in {"table", "marker", "func"}, ok \in BOOLEAN : MemW(t, inner[t], ok)
      BY <2>4 DEF RestoreStub, RestoreTable, RestoreMarker
    <3>2. Mixed'
      BY <1>2, <1>4, <1>5, <2>1, <2>2, <3>1
    <3> QED BY <2>1, <3>2 DEF BytesInv, Preparing
  <2> QED BY <1>16, <2>3, <2>4 DEF StubBack
<1>17. CASE Verify
  <2>1. Mixed'
    BY <1>17, ImageStays DEF Verify, BytesInv, Early, image
  <2> QED BY <1>17, <2>1 DEF Verify, Exit, BytesInv, Preparing
<1>18. CASE RestoreFunc \/ RestoreFuncSync
  <2>1. pc \in {"unfunc", "unfuncsync"} /\ UNCHANGED <<req, before, inner>>
        /\ pc' \in {"unfuncsync", "undo", "uncave"}
    BY <1>18 DEF RestoreFunc, RestoreFuncSync, AfterFunc, process
  <2>2. Mixed /\ MainNeeded
    BY <2>1 DEF BytesInv, Early, ModeInv
  <2>3. CASE RestoreFunc
    <3>1. \E ok \in BOOLEAN : MemW("func", before["func"], ok)
      BY <2>3 DEF RestoreFunc
    <3> QED BY <1>2, <1>4, <1>5, <2>1, <2>2, <3>1 DEF BytesInv, Preparing
  <2>4. CASE RestoreFuncSync
    BY <1>3, <2>1, <2>2, <2>4 DEF RestoreFuncSync, BytesInv, Preparing
  <2> QED BY <1>18, <2>3, <2>4
<1>19. CASE RestoreCave
  <2>1. pc = "uncave" /\ UNCHANGED <<req, before, inner>> /\ pc' = "undo"
    BY <1>19 DEF RestoreCave
  <2>2. Mixed /\ Cave \subseteq Whole
    BY <2>1, SiteKinds DEF BytesInv, Early, ModeInv
  <2>3. \A t \in Site : /\ mem'[t] \in {mem[t], before[t], Torn}
                        /\ t \notin Cave => mem'[t] = mem[t]
    BY <1>19 DEF RestoreCave, Image, image
  <2>4. Mixed'
    <3>1. Whole' = Whole
      BY <2>1, SameRequest
    <3>2. \A t \in Site : {mem'[t], inner'[t]} \subseteq Allowed(before, req, t)
      BY <2>1, <2>2, <2>3 DEF Mixed, Allowed
    <3>3. \A t \in Site : t \notin Whole => mem'[t] = before[t]
      BY <2>2, <2>3 DEF Mixed
    <3> QED BY <2>1, <3>1, <3>2, <3>3 DEF Mixed
  <2> QED BY <2>1, <2>4 DEF BytesInv, Preparing
<1>20. CASE Undo \/ UndoSync
  <2>1. pc \in {"undo", "undosync"} /\ UNCHANGED <<req, before, inner>>
        /\ pc' \in {"undo", "undosync", "rest"}
    BY <1>20 DEF Undo, UndoSync, UndoNext, Exit
  <2> QED BY <1>20, <2>1, UndoMixed DEF BytesInv, Preparing
<1> QED BY <1>6, <1>7, <1>8, <1>9, <1>10, <1>11, <1>12, <1>13, <1>14, <1>15, <1>16,
           <1>17, <1>18, <1>19, <1>20 DEF Step, Apply, Stub, Rollback

\* No CPU may execute anything older at these sites.
Synced(f, m, S) == \A t \in S \cap Code : f[t] = {m[t]}

\* The sites that apply has passed after n of them, and those from the n-th on.
Done(n) == {ApplyOrder[i] : i \in 1 .. n}
Todo(n) == {ApplyOrder[i] : i \in n .. 12}

\* What is ready has been synchronised, what comes next still is since the
\* preflight; so is a main function that was written.
SyncInv ==
    /\ pc \in Preparing => ready = {}
    /\ pc = "preflight" /\ fine => \A j \in 1 .. at - 1 : Synced(fetch, mem, Spans[j] \cap Aux)
    /\ pc = "snapshot" /\ fine => Synced(fetch, mem, Aux)
    /\ pc \in Writing => ready \subseteq Done(at - 1)
    /\ pc = "apply" => Synced(fetch, mem, Todo(at))
    /\ pc = "sync" => Synced(fetch, mem, Todo(at + 1))
    /\ pc \in Installing \cup Writing \cup {"main", "verify"} => Synced(fetch, mem, ready)
    /\ pc = "verify" /\ main /\ MainNeeded => Synced(fetch, mem, {"func"})

\* Every auxiliary site lies in a span, and has one place in the order.
LEMMA SpansCover == Aux \subseteq UNION {Spans[j] : j \in 1 .. 7}
BY DEF Aux, ApplyOrder, Spans, Event

\* No site comes twice in the order of apply ...
LEMMA OnePlaceEach ==
    \A i, j \in 1 .. 12 : ApplyOrder[i] = ApplyOrder[j] => i = j
BY DEF ApplyOrder

\* ... nor in that of the rollback.
LEMMA OnePlaceUndone ==
    \A i, j \in 1 .. 12 : UndoOrder[i] = UndoOrder[j] => i = j
BY DEF UndoOrder

\* The sites passed and those ahead, one place further.
LEMMA InOrder ==
    /\ Done(0) = {} /\ Todo(1) = Aux /\ Done(12) = Aux
    /\ \A n \in 1 .. 12 : /\ Done(n) = Done(n - 1) \cup {ApplyOrder[n]}
                          /\ Todo(n) = Todo(n + 1) \cup {ApplyOrder[n]}
                          /\ ApplyOrder[n] \notin Done(n - 1) \cup Todo(n + 1)
                          /\ Done(n - 1) \subseteq Aux /\ Todo(n + 1) \subseteq Aux
<1>1. Done(0) = {} /\ Todo(1) = Aux /\ Done(12) = Aux
  BY DEF Done, Todo, Aux
<1>2. ASSUME NEW n \in 1 .. 12
      PROVE  /\ Done(n) = Done(n - 1) \cup {ApplyOrder[n]}
             /\ Todo(n) = Todo(n + 1) \cup {ApplyOrder[n]}
  <2>1. 1 .. n = (1 .. n - 1) \cup {n} /\ n .. 12 = (n + 1 .. 12) \cup {n}
    OBVIOUS
  <2> QED BY <2>1 DEF Done, Todo
<1>3. ASSUME NEW n \in 1 .. 12
      PROVE  ApplyOrder[n] \notin Done(n - 1) \cup Todo(n + 1)
  BY OnePlaceEach DEF Done, Todo
<1>4. ASSUME NEW n \in 1 .. 12
      PROVE  Done(n - 1) \subseteq Aux /\ Todo(n + 1) \subseteq Aux
  BY DEF Done, Todo, Aux
<1> QED BY <1>1, <1>2, <1>3, <1>4

\* Synchronised sites stay so while others are written, and through maintenance.
LEMMA SyncedWrites ==
    ASSUME NEW s, NEW c, NEW ok, Wrote(s, c, ok)
    PROVE  \A S \in SUBSET Site : s \notin S /\ Synced(fetch, mem, S) => Synced(fetch', mem', S)
BY UsersAreCode DEF Wrote, Synced

\* Maintenance keeps what was synchronised, and adds its own sites.
LEMMA SyncedFlushes ==
    ASSUME NEW T, NEW ok, Flushed(T, ok)
    PROVE  /\ \A S : Synced(fetch, mem, S) => Synced(fetch', mem', S)
           /\ ok => \A S \in SUBSET T : Synced(fetch', mem', S)
BY DEF Flushed, Synced

\* Behind the last auxiliary site comes the main function.
LEMMA AdvanceWhere ==
    ASSUME TypeOK, Advance
    PROVE  \/ pc' = "apply" /\ at' = at + 1 /\ at \in 1 .. 11
           \/ pc' = "main" /\ at' = 1 /\ at = 12
BY Orders DEF TypeOK, Advance, Goto

\* On to the next site, whatever became of this one.
LEMMA SyncAdvance ==
    ASSUME TypeOK, pc \in Writing, ready \subseteq Done(at - 1), Advance,
           ready' \in {ready, ready \cup {ApplyOrder[at]}},
           Synced(fetch', mem', Todo(at + 1)), Synced(fetch', mem', ready')
    PROVE  SyncInv'
<1>1. at \in 1 .. 12
  BY DEF TypeOK
<1>2. ready' \subseteq Done(at)
  BY <1>1, InOrder
<1>3. CASE pc' = "apply" /\ at' = at + 1 /\ at \in 1 .. 11
  <2>1. at' - 1 = at
    BY <1>3
  <2> QED BY <1>2, <1>3, <2>1 DEF SyncInv, Preparing, Writing, Installing, Stubbing
<1>4. CASE pc' = "main"
  BY <1>4 DEF SyncInv, Preparing, Writing, Installing, Stubbing
<1> QED BY <1>3, <1>4, AdvanceWhere

\* Writing and synchronising one auxiliary site.
LEMMA SyncThroughApply ==
    ASSUME TypeOK, SyncInv, ApplySite \/ SyncSite \/ WriteAgain
    PROVE  SyncInv'
<1> DEFINE s == ApplyOrder[at]
           T == Todo(at + 1)
<1>1. /\ at \in 1 .. 12 /\ pc \in Writing /\ ready \subseteq Done(at - 1)
      /\ Synced(fetch, mem, ready) /\ Synced(fetch, mem, T)
      /\ s \in Site /\ s \in Aux /\ Wanted(s) \in Content
      /\ s \notin ready /\ s \notin T /\ T \subseteq Site /\ ready \subseteq Site
  <2>1. pc \in Writing /\ at \in 1 .. 12
    BY DEF ApplySite, SyncSite, WriteAgain, Writing, TypeOK
  <2>2. ready \subseteq Done(at - 1) /\ Synced(fetch, mem, ready)
    BY <2>1 DEF SyncInv
  <2>3. Synced(fetch, mem, T)
    BY <2>1, InOrder DEF SyncInv, Writing, Synced
  <2> QED BY <2>1, <2>2, <2>3, InOrder, Orders, WantedTypes, UsersAreCode
<1> HIDE DEF s, T
<1>2. \A ok \in BOOLEAN : MemW(s, Wanted(s), ok) =>
          Synced(fetch', mem', T) /\ Synced(fetch', mem', ready)
  BY <1>1, MemWrote, SyncedWrites
<1>3. CASE ready' = ready /\ Advance /\ Synced(fetch', mem', T) /\ Synced(fetch', mem', ready)
  BY <1>1, <1>3, SyncAdvance DEF T, s
<1>4. CASE /\ UNCHANGED <<at, ready>> /\ pc' = "sync"
           /\ Synced(fetch', mem', T) /\ Synced(fetch', mem', ready)
  BY <1>1, <1>4 DEF T, SyncInv, Preparing, Writing
<1>5. CASE ApplySite
  <2>1. pc = "apply"
    BY <1>5 DEF ApplySite
  <2>2. CASE ready' = ready \cup {s} /\ Advance /\ UNCHANGED image
    <3>1. Synced(fetch, mem, {s})
      BY <1>1, <2>1, InOrder DEF SyncInv, Synced, s
    <3>2. Synced(fetch', mem', ready') /\ Synced(fetch', mem', T)
      BY <1>1, <2>2, <3>1 DEF Synced, image
    <3> QED BY <1>1, <2>2, <3>2, SyncAdvance DEF s, T
  <2>3. CASE ready' = ready /\ Advance /\ UNCHANGED image
    BY <1>1, <1>3, <2>3 DEF image
  <2>4. CASE /\ ready' = ready
             /\ \E ok \in BOOLEAN : /\ MemW(s, Wanted(s), ok)
                                   /\ IF ok THEN pc' = "sync" /\ at' = at ELSE Advance
    BY <1>2, <1>3, <1>4, <2>4
  <2> QED BY <1>5, <2>2, <2>3, <2>4 DEF ApplySite, Goto, s
<1>6. CASE SyncSite
  <2>1. PICK ok \in BOOLEAN :
            /\ Flush({s}, ok)
            /\ \/ ok /\ pc' = pc /\ at' = at /\ ready' = ready
               \/ ready' = (IF ok THEN ready \cup {s} ELSE ready) /\ Advance
    BY <1>6 DEF SyncSite, s
  <2>2. /\ Synced(fetch', mem', T) /\ Synced(fetch', mem', ready)
        /\ ok => Synced(fetch', mem', {s})
    BY <1>1, <2>1, FlushFlushed, SyncedFlushes
  <2>3. pc = "sync"
    BY <1>6 DEF SyncSite
  <2>4. CASE pc' = pc /\ at' = at /\ ready' = ready
    BY <1>4, <2>2, <2>3, <2>4
  <2>5. CASE ready' = (IF ok THEN ready \cup {s} ELSE ready) /\ Advance
    <3>1. Synced(fetch', mem', ready')
      BY <2>2, <2>5 DEF Synced
    <3> QED BY <1>1, <2>2, <2>5, <3>1, SyncAdvance DEF s, T
  <2> QED BY <2>1, <2>4, <2>5
<1>7. CASE WriteAgain
  <2>1. PICK ok \in BOOLEAN :
            /\ MemW(s, Wanted(s), ok)
            /\ IF ok THEN pc' = "sync" /\ at' = at ELSE Advance
    BY <1>7 DEF WriteAgain, s
  <2>2. ready' = ready
    BY <1>7 DEF WriteAgain
  <2> QED BY <1>2, <1>3, <1>4, <2>1, <2>2
<1> QED BY <1>5, <1>6, <1>7

\* The main function and its cave are other sites.
LEMMA SyncThroughMain ==
    ASSUME TypeOK, ModeInv, SyncInv, Main \/ Enable \/ EnableSync \/ Strings \/ Stub \/ StubBack
    PROVE  SyncInv'
<1> USE DEF Goto
<1>1. /\ pc \in Installing \cup {"main"} /\ UNCHANGED <<ready, req, before>>
      /\ pc' \in Installing \cup {"verify"}
      /\ ready \subseteq Aux /\ Synced(fetch, mem, ready)
  <2>1. /\ pc \in Installing \cup {"main"} /\ UNCHANGED <<ready, req, before>>
        /\ pc' \in Installing \cup {"verify"}
    BY DEF Main, Enable, EnableSync, Strings, Clear, Fill, Refill, Stub, WriteTable,
           WriteMarker, WriteStub, StubSync, StubBack, RestoreStub, RestoreStubSync,
           RestoreTable, RestoreMarker, process, Installing, Stubbing
  <2> QED BY <2>1 DEF SyncInv, TypeOK
<1>2. \A t \in {"func", "strings", "table", "marker"}, c \in Content, ok \in BOOLEAN :
          MemW(t, c, ok) => Synced(fetch', mem', ready)
  BY <1>1, MemWrote, SyncedWrites, SiteKinds
<1>3. \A S : \A ok \in BOOLEAN :
          Flush(S, ok) => /\ Synced(fetch', mem', ready)
                          /\ ok => Synced(fetch', mem', S)
  BY <1>1, FlushFlushed, SyncedFlushes
<1>4. Synced(fetch', mem', ready)
  <2>1. CASE Main
    BY <1>1, <2>1 DEF Main, image, Synced
  <2>2. CASE EnableSync \/ StubSync \/ RestoreStubSync
    BY <1>3, <2>2 DEF EnableSync, StubSync, RestoreStubSync
  <2>3. CASE Enable \/ WriteStub \/ RestoreStub
    BY <1>2, <2>3, MainSites, Contents DEF Enable, WriteStub, RestoreStub
  <2>4. CASE Strings
    BY <1>2, <2>4, MainSites, Contents DEF Strings, Clear, Fill, Refill
  <2>5. CASE WriteTable \/ WriteMarker \/ RestoreTable \/ RestoreMarker
    BY <1>2, <2>5, MainSites, Contents
       DEF WriteTable, WriteMarker, RestoreTable, RestoreMarker
  <2> QED BY <2>1, <2>2, <2>3, <2>4, <2>5 DEF Stub, StubBack
<1>5. ASSUME main', MainNeeded PROVE Synced(fetch', mem', {"func"})
  <2>1. CASE Main
    BY <1>5, <2>1 DEF Main
  <2>2. CASE EnableSync \/ StubSync
    BY <1>3, <1>5, <2>2 DEF EnableSync, StubSync
  <2>3. CASE pc \in Installing /\ main' = main
    BY <1>5, <2>3 DEF ModeInv
  <2> QED BY <1>1, <2>1, <2>2, <2>3
          DEF Enable, Strings, Clear, Fill, Refill, Stub, WriteTable, WriteMarker,
              WriteStub, StubBack, RestoreStub, RestoreStubSync, RestoreTable,
              RestoreMarker, process, Main
<1>6. MainNeeded' = MainNeeded
  BY <1>1, SameRequest
<1> QED BY <1>1, <1>4, <1>5, <1>6
        DEF SyncInv, Installing, Stubbing, Preparing, Writing

\* A preflight that is fine has synchronised every span it passed.
LEMMA SyncThroughPreflight ==
    ASSUME TypeOK, ModeInv, SyncInv, Preflight
    PROVE  SyncInv'
<1>1. pc = "preflight" /\ at \in 1 .. 7 /\ ready = {} /\ ready' = {}
  BY DEF Preflight, ModeInv, SyncInv, Preparing
<1>2. ASSUME fine', NEW j \in 1 .. at PROVE Synced(fetch', mem', Spans[j] \cap Aux)
  <2>1. PICK ok \in BOOLEAN :
            \/ Spans[at] = {"func"} /\ UNCHANGED image /\ fine' = fine
            \/ Flush(Spans[at], ok) /\ fine' = (fine /\ ok)
    BY DEF Preflight
  <2>2. j < at => Synced(fetch, mem, Spans[j] \cap Aux)
    <3>1. fine
      BY <1>2, <2>1, Zenon
    <3> QED BY <1>1, <1>2, <3>1 DEF SyncInv
  <2>3. CASE Spans[at] = {"func"} /\ UNCHANGED image
    <3>1. "func" \notin Aux
      BY SiteKinds
    <3> QED BY <1>1, <2>2, <2>3, <3>1 DEF Synced, image
  <2>4. CASE Flush(Spans[at], ok) /\ ok
    <3>1. /\ \A S : Synced(fetch, mem, S) => Synced(fetch', mem', S)
          /\ Synced(fetch', mem', Spans[at] \cap Aux)
      BY <2>4, FlushFlushed, SyncedFlushes
    <3> QED BY <1>1, <2>2, <3>1
  <2> QED BY <1>2, <2>1, <2>3, <2>4
<1>3. CASE at < 7
  BY <1>1, <1>2, <1>3, Orders DEF Preflight, SyncInv, Preparing, Writing, Installing, Stubbing
<1>4. CASE at = 7
  <2>1. pc' = "snapshot"
    BY <1>4, Orders DEF Preflight, Goto
  <2>2. fine' => Synced(fetch', mem', Aux)
    BY <1>2, <1>4, SpansCover DEF Synced
  <2> QED BY <1>1, <2>1, <2>2 DEF SyncInv, Preparing, Writing, Installing, Stubbing
<1> QED BY <1>1, <1>3, <1>4

\* Every step keeps what it relies on synchronised.
LEMMA SyncStep == TypeOK /\ ModeInv /\ SyncInv /\ Step => SyncInv'
<1> SUFFICES ASSUME TypeOK, ModeInv, SyncInv, Step PROVE SyncInv'
  OBVIOUS
<1> USE DEF Goto, Exit
<1>1. CASE Begin
  BY <1>1 DEF Begin, SyncInv, Preparing, Writing, Installing, Stubbing
<1>2. CASE Resolve
  <2>1. ready' = {} /\ pc' \in {"rest", "preflight"} /\ at' = 1
    BY <1>2 DEF Resolve, SyncInv, ModeInv, Preparing, process
  <2>2. \A j \in 1 .. at' - 1 : FALSE
    BY <2>1
  <2> QED BY <2>1, <2>2 DEF SyncInv, Writing, Installing, Stubbing
<1>3. CASE Snapshot
  <2>1. pc = "snapshot" /\ pc' \in {"rest", "apply"} /\ at' = 1 /\ ready' = {}
        /\ UNCHANGED image /\ (pc' = "apply" => fine)
    BY <1>3 DEF Snapshot, SyncInv, ModeInv, Preparing
  <2>2. pc' = "apply" => Synced(fetch', mem', Todo(at'))
    BY <2>1, InOrder DEF SyncInv, image
  <2> QED BY <2>1, <2>2 DEF SyncInv, Synced, Preparing, Writing, Installing, Stubbing
<1>4. CASE pc' \in Restoring
  BY <1>4 DEF SyncInv, Restoring, Preparing, Writing, Installing, Stubbing
<1>5. CASE Verify \/ Rollback \/ Crash
  <2>1. pc' \in Restoring
    BY <1>5 DEF Verify, Rollback, RestoreFunc, RestoreFuncSync, RestoreCave, AfterFunc, Undo,
                UndoSync, UndoNext, Crash, Restoring
  <2> QED BY <1>4, <2>1
<1> QED BY <1>1, <1>2, <1>3, <1>5, SyncThroughPreflight, SyncThroughApply, SyncThroughMain
        DEF Step, Apply

\* The sites that the rollback has visited after n of them.
Past(n) == {UndoOrder[i] : i \in 1 .. n}

\* What counts as restored is, in memory and for every CPU.
BroughtBack ==
    /\ undone \subseteq Whole /\ Synced(fetch, mem, undone)
    /\ \A s \in undone : mem[s] = before[s]

\* A rollback that says OK has restored everything the run was about.
TrueToWord ==
    pc = "rest" /\ result.rollback = "OK" =>
        mem = before /\ \A s \in Whole \cap Code : fetch[s] = {before[s]}

\* The rollback goes through the sites one by one.
UndoInv ==
    /\ pc \notin Restoring \/ pc \in {"unfunc", "unfuncsync"} => undone = {}
    /\ pc = "uncave" => undone \subseteq {"func"}
    /\ pc \in {"undo", "undosync"} => undone \cap Aux \subseteq Past(at - 1)
    /\ pc \in RollingBack => BroughtBack
    /\ pc = "unfuncsync" => mem["func"] = before["func"]
    /\ pc = "undosync" => mem[UndoOrder[at]] = before[UndoOrder[at]]
    /\ TrueToWord

\* The rollback visits every auxiliary site once.
LEMMA InUndoOrder ==
    /\ Past(0) = {} /\ Past(12) = Aux
    /\ \A n \in 1 .. 12 : /\ Past(n) = Past(n - 1) \cup {UndoOrder[n]}
                          /\ UndoOrder[n] \notin Past(n - 1)
                          /\ UndoOrder[n] \in Aux /\ Past(n - 1) \subseteq Aux
<1>1. \A i \in 1 .. 12 : UndoOrder[i] \in Aux
  BY Orders
<1>2. Past(0) = {}
  BY DEF Past
<1>3. Past(12) = Aux
  <2>1. /\ UndoOrder[1] = ApplyOrder[12] /\ UndoOrder[2] = ApplyOrder[5]
        /\ UndoOrder[3] = ApplyOrder[3] /\ UndoOrder[4] = ApplyOrder[6]
        /\ UndoOrder[5] = ApplyOrder[2] /\ UndoOrder[6] = ApplyOrder[8]
        /\ UndoOrder[7] = ApplyOrder[9] /\ UndoOrder[8] = ApplyOrder[10]
        /\ UndoOrder[9] = ApplyOrder[11] /\ UndoOrder[10] = ApplyOrder[7]
        /\ UndoOrder[11] = ApplyOrder[1] /\ UndoOrder[12] = ApplyOrder[4]
    BY DEF UndoOrder, ApplyOrder
  <2>2. \A i \in 1 .. 12 : \E j \in 1 .. 12 : ApplyOrder[i] = UndoOrder[j]
    BY <2>1
  <2> QED BY <1>1, <2>2 DEF Past, Aux
<1>4. ASSUME NEW n \in 1 .. 12
      PROVE  /\ Past(n) = Past(n - 1) \cup {UndoOrder[n]}
             /\ UndoOrder[n] \notin Past(n - 1) /\ Past(n - 1) \subseteq Aux
  <2>1. 1 .. n = (1 .. n - 1) \cup {n}
    OBVIOUS
  <2> QED BY <1>1, <2>1, OnePlaceUndone DEF Past
<1> QED BY <1>1, <1>2, <1>3, <1>4

\* A write elsewhere, and maintenance, leave what was brought back.
LEMMA BackWrites ==
    ASSUME TypeOK, BroughtBack, UNCHANGED <<req, before, undone>>,
           NEW s \in Site, s \notin undone, NEW c, NEW ok, Wrote(s, c, ok)
    PROVE  BroughtBack'
<1>1. Synced(fetch', mem', undone)
  BY SyncedWrites DEF BroughtBack, TypeOK
<1>2. \A t \in undone : mem'[t] = before[t]
  BY DEF BroughtBack, Wrote, TypeOK
<1>3. Whole' = Whole
  BY SameRequest
<1> QED BY <1>1, <1>2, <1>3 DEF BroughtBack

\* A site joins what was brought back when it is synchronised.
LEMMA BackFlushes ==
    ASSUME TypeOK, BroughtBack, UNCHANGED <<req, before>>, NEW s \in Whole,
           mem[s] = before[s], NEW ok \in BOOLEAN, Flush({s}, ok),
           undone' = IF ok THEN undone \cup {s} ELSE undone
    PROVE  BroughtBack' /\ mem' = mem
<1>1. Flushed({s}, ok)
  BY FlushFlushed
<1>2. Synced(fetch', mem', undone) /\ (ok => Synced(fetch', mem', {s}))
  BY <1>1, SyncedFlushes DEF BroughtBack
<1>3. Whole' = Whole
  BY SameRequest
<1> QED BY <1>1, <1>2, <1>3 DEF BroughtBack, Synced, Flushed

\* The end of the rollback.
LEMMA BackToRest ==
    ASSUME TypeOK, TypeOK', BroughtBack', Mixed', UNCHANGED <<req, before>>,
           undone' = Whole
    PROVE  mem' = before' /\ \A s \in Whole' \cap Code : fetch'[s] = {before'[s]}
<1>1. Whole' = Whole
  BY SameRequest
<1>2. \A s \in Whole : mem'[s] = before[s]
  BY DEF BroughtBack
<1>3. \A s \in Site : mem'[s] = before[s]
  BY <1>1, <1>2 DEF Mixed
<1>4. mem' = before
  BY <1>3 DEF TypeOK
<1> QED BY <1>1, <1>4 DEF BroughtBack, Synced

\* Restoring one auxiliary site and going on to the next.
LEMMA UndoThroughSites ==
    ASSUME TypeOK, TypeOK', BytesInv, UndoInv, Mixed', Undo \/ UndoSync
    PROVE  UndoInv'
<1> USE DEF Goto
<1> DEFINE s == UndoOrder[at]
<1>1. /\ pc \in {"undo", "undosync"} /\ at \in 1 .. 12 /\ UNCHANGED <<req, before>>
      /\ BroughtBack /\ undone \cap Aux \subseteq Past(at - 1)
      /\ s \in Site /\ s \in Whole /\ s \in Aux /\ s \notin undone /\ before[s] \in Content
  <2>1. pc \in {"undo", "undosync"} /\ at \in 1 .. 12 /\ UNCHANGED <<req, before>>
    BY DEF Undo, UndoSync, TypeOK
  <2>2. BroughtBack /\ undone \cap Aux \subseteq Past(at - 1)
    BY <2>1 DEF UndoInv, RollingBack
  <2> QED BY <2>1, <2>2, InUndoOrder, SiteKinds DEF TypeOK
<1> HIDE DEF s
<1>2. ASSUME NEW done, UndoNext(done), done \in {undone, undone \cup {s}}, BroughtBack'
      PROVE  UndoInv'
  <2>1. undone' = done /\ undone' \cap Aux \subseteq Past(at)
    <3>1. undone' = done
      BY <1>2 DEF UndoNext
    <3>2. Past(at) = Past(at - 1) \cup {s}
      BY <1>1, InUndoOrder DEF s
    <3> QED BY <1>1, <1>2, <3>1, <3>2
  <2>2. CASE at < 12
    <3>1. pc' = "undo" /\ at' = at + 1 /\ at' - 1 = at
      BY <1>1, <1>2, <2>2, Orders DEF UndoNext
    <3> QED BY <1>2, <2>1, <3>1 DEF UndoInv, Restoring, RollingBack, TrueToWord
  <2>3. CASE at = 12
    <3>1. pc' = "rest" /\ result' = [rc |-> 1, rollback |-> IF done = Whole THEN "OK" ELSE "FAIL"]
      BY <1>2, <2>3, Orders DEF UndoNext, Exit
    <3>2. TrueToWord'
      BY <1>1, <1>2, <2>1, <3>1, BackToRest DEF TrueToWord
    <3> QED BY <3>1, <3>2 DEF UndoInv, Restoring, RollingBack
  <2> QED BY <1>1, <2>2, <2>3
<1>3. CASE Undo
  <2>1. CASE UndoNext(undone) /\ UNCHANGED image
    <3>1. Whole' = Whole /\ undone' = undone
      BY <1>1, <2>1, SameRequest DEF UndoNext
    <3>2. BroughtBack'
      BY <1>1, <2>1, <3>1 DEF BroughtBack, Synced, image
    <3> QED BY <1>2, <2>1, <3>2
  <2>2. CASE \E ok \in BOOLEAN :
                 /\ MemW(s, before[s], ok)
                 /\ \/ ok /\ pc' = "undosync" /\ UNCHANGED <<at, undone, result>>
                    \/ ~ok /\ UndoNext(undone)
    <3>1. PICK ok \in BOOLEAN :
                 /\ MemW(s, before[s], ok)
                 /\ \/ ok /\ pc' = "undosync" /\ UNCHANGED <<at, undone, result>>
                    \/ ~ok /\ UndoNext(undone)
      BY <2>2
    <3>2. Wrote(s, before[s], ok) /\ undone' = undone
      BY <1>1, <3>1, MemWrote DEF UndoNext
    <3>3. BroughtBack'
      BY <1>1, <3>2, BackWrites
    <3>4. CASE ok /\ pc' = "undosync" /\ UNCHANGED <<at, undone, result>>
      <4>1. mem'[UndoOrder[at']] = before'[UndoOrder[at']]
        BY <1>1, <3>2, <3>4 DEF Wrote, s
      <4>2. undone' \cap Aux \subseteq Past(at' - 1)
        BY <1>1, <3>4
      <4> QED BY <3>3, <3>4, <4>1, <4>2 DEF UndoInv, Restoring, RollingBack, TrueToWord
    <3> QED BY <1>2, <3>1, <3>3, <3>4
  <2> QED BY <1>3, <2>1, <2>2 DEF Undo, s
<1>4. CASE UndoSync
  <2>1. PICK ok \in BOOLEAN :
            Flush({s}, ok) /\ UndoNext(IF ok THEN undone \cup {s} ELSE undone)
    BY <1>4 DEF UndoSync, s
  <2>2. mem[s] = before[s]
    BY <1>4 DEF UndoSync, UndoInv, s
  <2>3. BroughtBack'
    BY <1>1, <2>1, <2>2, BackFlushes DEF UndoNext
  <2> QED BY <1>2, <2>1, <2>3
<1> QED BY <1>3, <1>4

\* The main function and its cave come before the auxiliary sites.
LEMMA UndoThroughMain ==
    ASSUME TypeOK, ModeInv, BytesInv, UndoInv,
           RestoreFunc \/ RestoreFuncSync \/ RestoreCave
    PROVE  UndoInv'
<1> USE DEF Goto
<1>1. /\ pc \in {"unfunc", "unfuncsync", "uncave"} /\ UNCHANGED <<req, before>>
      /\ at = 1 /\ at' = at /\ BroughtBack /\ MainNeeded' = MainNeeded
      /\ AfterFunc \in {"uncave", "undo"}
  <2>1. /\ pc \in {"unfunc", "unfuncsync", "uncave"} /\ UNCHANGED <<req, before>>
        /\ at' = at
    BY DEF RestoreFunc, RestoreFuncSync, RestoreCave, process
  <2> QED BY <2>1, SameRequest DEF ModeInv, UndoInv, RollingBack, AfterFunc
<1>2. \A S : S \cap Aux = {} => S \cap Aux \subseteq Past(at' - 1)
  OBVIOUS
<1>3. "func" \notin Aux /\ Cave \cap Aux = {} /\ "func" \notin Cave
  BY SiteKinds DEF Cave
<1>4. CASE RestoreFunc
  <2>1. PICK ok \in BOOLEAN :
            MemW("func", before["func"], ok) /\ pc' = IF ok THEN "unfuncsync" ELSE AfterFunc
    BY <1>4 DEF RestoreFunc
  <2>2. undone = {} /\ undone' = {}
    BY <1>4 DEF RestoreFunc, UndoInv, process
  <2>3. Wrote("func", before["func"], ok)
    BY <2>1, MemWrote, MainSites
  <2>4. BroughtBack'
    BY <2>2 DEF BroughtBack, Synced
  <2> QED BY <1>1, <1>2, <2>1, <2>2, <2>3, <2>4
          DEF UndoInv, Wrote, RollingBack, Restoring, TrueToWord
<1>5. CASE RestoreFuncSync
  <2>1. PICK ok \in BOOLEAN :
            Flush({"func"}, ok) /\ undone' = IF ok THEN undone \cup {"func"} ELSE undone
    BY <1>5 DEF RestoreFuncSync
  <2>2. undone = {} /\ mem["func"] = before["func"] /\ "func" \in Whole
    BY <1>5, SiteKinds DEF RestoreFuncSync, UndoInv, ModeInv
  <2>3. BroughtBack'
    BY <1>1, <2>1, <2>2, BackFlushes
  <2>4. undone' \subseteq {"func"} /\ undone' \cap Aux = {}
    BY <1>3, <2>1, <2>2
  <2>5. pc' \in {"uncave", "undo"}
    BY <1>1, <1>5 DEF RestoreFuncSync
  <2> QED BY <1>1, <1>2, <2>3, <2>4, <2>5 DEF UndoInv, RollingBack, Restoring, TrueToWord
<1>6. CASE RestoreCave
  <2>1. undone \subseteq {"func"} /\ Cave \subseteq Whole /\ pc' = "undo" /\ Whole' = Whole
    BY <1>1, <1>6, SiteKinds, SameRequest DEF RestoreCave, UndoInv, ModeInv
  <2>2. undone' \cap Aux = {} /\ undone' \in {undone, undone \cup Cave}
    BY <1>3, <1>6, <2>1 DEF RestoreCave
  <2>3. \A t \in Site \ Cave : mem'[t] = mem[t]
    BY <1>6 DEF RestoreCave, Image, image
  <2>5. Synced(fetch', mem', undone')
    <3>1. \A t \in Code : t \in Site /\ t \notin Cave
      BY SiteKinds, UsersAreCode DEF Code, Cave
    <3>2. \A t \in Code : fetch[t] = {mem[t]} => fetch'[t] = {mem'[t]}
      <4>1. CASE UNCHANGED image
        BY <4>1 DEF image
      <4>2. CASE \E new : Image(new) /\ \A t \in Code : new[t] = mem[t]
        BY <4>2 DEF Image
      <4>3. \/ UNCHANGED image
            \/ \E new : Image(new) /\ \A t \in Code : new[t] = mem[t]
        <5>1. \A t \in Code :
                  /\ [x \in Site |-> IF x \in Cave THEN before[x] ELSE mem[x]][t] = mem[t]
                  /\ [x \in Site |-> IF x \in Cave /\ mem[x] # before[x]
                                     THEN Torn ELSE mem[x]][t] = mem[t]
          BY <3>1
        <5> QED BY <1>6, <5>1 DEF RestoreCave, image
      <4> QED BY <4>1, <4>2, <4>3
    <3>3. undone' \cap Code \subseteq undone
      BY <2>2, <3>1
    <3> QED BY <1>1, <3>2, <3>3 DEF BroughtBack, Synced
  <2>6. \A t \in undone' : mem'[t] = before[t]
    <3>1. CASE undone' = undone
      BY <1>1, <1>3, <2>1, <2>3, <3>1, MainSites DEF BroughtBack
    <3>2. CASE undone' # undone
      <4>1. \A t \in Cave : mem'[t] = before[t]
        BY <1>6, <3>2 DEF RestoreCave, Image, Site
      <4>2. \A t \in undone : mem'[t] = before[t]
        BY <1>1, <1>3, <2>1, <2>3, MainSites DEF BroughtBack
      <4> QED BY <2>2, <3>2, <4>1, <4>2
    <3> QED BY <3>1, <3>2
  <2>7. BroughtBack'
    BY <1>1, <2>1, <2>2, <2>5, <2>6 DEF BroughtBack
  <2> QED BY <1>1, <1>2, <2>1, <2>2, <2>7 DEF UndoInv, RollingBack, Restoring, TrueToWord
<1> QED BY <1>4, <1>5, <1>6

\* Every step keeps the account of what was brought back.
LEMMA UndoStep ==
    TypeOK /\ TypeOK' /\ ModeInv /\ BytesInv /\ BytesInv' /\ UndoInv /\ Step => UndoInv'
<1> SUFFICES ASSUME TypeOK, TypeOK', ModeInv, BytesInv, BytesInv', UndoInv, Step
             PROVE  UndoInv'
  OBVIOUS
<1> USE DEF Goto, Exit
<1>1. CASE Begin
  BY <1>1 DEF Begin, UndoInv, TrueToWord, Restoring, RollingBack
<1>2. CASE Undo \/ UndoSync
  BY <1>2, UndoMixed, UndoThroughSites
<1>3. CASE Crash
  BY <1>3 DEF Crash, UndoInv, TrueToWord, Restoring, RollingBack, None
<1>4. CASE Resolve \/ Snapshot
  <2>1. pc \notin Restoring /\ undone' = undone /\ pc' \notin RollingBack
        /\ (pc' = "rest" => result'.rollback = None)
    BY <1>4 DEF Resolve, Snapshot, process, Restoring, RollingBack
  <2> QED BY <1>4, <2>1 DEF UndoInv, TrueToWord, RollingBack, None
<1>5. CASE Verify
  <2>1. undone = {} /\ undone' = {} /\ at' = 1
    BY <1>5 DEF Verify, UndoInv, Restoring
  <2>2. pc' \in {"rest", "unfunc", "undo"} /\ (pc' = "rest" => result'.rollback = None)
    BY <1>5 DEF Verify
  <2>3. BroughtBack'
    BY <2>1 DEF BroughtBack, Synced
  <2> QED BY <2>1, <2>2, <2>3 DEF UndoInv, TrueToWord, Restoring, RollingBack, None
<1>6. CASE Preflight \/ Apply \/ Strings \/ Stub \/ StubBack
  <2>1. pc \notin Restoring /\ undone' = undone /\ pc' \notin Restoring
    <3>1. CASE Preflight \/ Main \/ Enable \/ EnableSync
      BY <3>1 DEF Preflight, Main, Enable, EnableSync, process, Restoring
    <3>2. CASE ApplySite \/ SyncSite \/ WriteAgain
      BY <3>2 DEF ApplySite, SyncSite, WriteAgain, Advance, Restoring
    <3>3. CASE Strings
      BY <3>3 DEF Strings, Clear, Fill, Refill, process, Restoring
    <3>4. CASE Stub
      BY <3>4 DEF Stub, WriteTable, WriteMarker, WriteStub, StubSync, Restoring
    <3>5. CASE StubBack
      BY <3>5 DEF StubBack, RestoreStub, RestoreStubSync, RestoreTable, RestoreMarker,
                  process, Restoring
    <3> QED BY <1>6, <3>1, <3>2, <3>3, <3>4, <3>5 DEF Apply
  <2> QED BY <2>1 DEF UndoInv, TrueToWord, Restoring, RollingBack
<1> QED BY <1>1, <1>2, <1>3, <1>4, <1>5, <1>6, UndoThroughMain DEF Step, Rollback

\* Exit status 0 stands for what the run has installed and synchronised.
LEMMA SuccessStep ==
    TypeOK /\ ModeInv /\ BytesInv /\ SyncInv /\ SuccessIsComplete /\ Step => SuccessIsComplete'
<1> SUFFICES ASSUME TypeOK, ModeInv, BytesInv, SyncInv, SuccessIsComplete, Step
             PROVE  SuccessIsComplete'
  OBVIOUS
<1> USE DEF Goto, Exit
<1>1. CASE Verify /\ pc' = "rest"
  <2>1. /\ pc = "verify" /\ AuxVerified /\ MainVerified
        /\ UNCHANGED <<image, req, before>>
    BY <1>1 DEF Verify
  <2>2. Mixed /\ Synced(fetch, mem, ready) /\ (MainNeeded => Synced(fetch, mem, {"func"}))
    BY <2>1 DEF BytesInv, SyncInv, Early, MainVerified
  <2>3. \A s \in Aux : mem[s] = Installed(before, req)[s] /\ fetch[s] = {mem[s]}
    BY <2>1, <2>2, WantedInstalled DEF AuxVerified, Synced, Code
  <2>4. req.mode \in {"global", "whitelist"}
    BY RequestAssumption DEF TypeOK
  <2>5. \A s \in {"func", "strings", "table", "marker"} : mem[s] = Installed(before, req)[s]
    <3>1. CASE req.mode = "global"
      <4>1. \A s \in Cave : mem[s] = before[s]
        BY <2>2, <3>1, SiteKinds DEF Mixed, Whole, Cave
      <4> QED BY <2>1, <3>1, <4>1, InstalledSites DEF MainVerified, Cave
    <3>2. CASE req.mode = "whitelist"
      BY <2>1, <3>2, InstalledSites DEF MainVerified
    <3> QED BY <2>4, <3>1, <3>2
  <2>6. mem = Installed(before, req)
    <3>1. \A s \in Site : mem[s] = Installed(before, req)[s]
      BY <2>3, <2>5, SiteKinds
    <3>2. DOMAIN Installed(before, req) = Site /\ DOMAIN mem = Site
          /\ Installed(before, req) = [s \in Site |-> Installed(before, req)[s]]
          /\ mem = [s \in Site |-> mem[s]]
      BY DEF Installed, TypeOK
    <3> QED BY <3>1, <3>2
  <2>7. \A s \in Code : fetch[s] = {mem[s]} \/ (s = "func" /\ ~MainNeeded)
    BY <2>2, <2>3 DEF Code, Synced
  <2>8. MainNeeded' = MainNeeded
    BY <2>1, SameRequest
  <2> QED BY <2>1, <2>6, <2>7, <2>8 DEF SuccessIsComplete, image
<1>2. CASE pc' # "rest"
  BY <1>2 DEF SuccessIsComplete
<1>3. CASE Resolve \/ Snapshot \/ Crash
  BY <1>3 DEF Resolve, Snapshot, Crash, SuccessIsComplete
<1>4. CASE Undo \/ UndoSync
  BY <1>4 DEF Undo, UndoSync, UndoNext, SuccessIsComplete
<1>5. CASE Begin \/ Preflight \/ Apply \/ Strings \/ Stub \/ StubBack \/ RestoreFunc
           \/ RestoreFuncSync \/ RestoreCave
  <2>1. pc' # "rest"
    BY <1>5 DEF Begin, Preflight, Apply, ApplySite, SyncSite, WriteAgain, Advance, Main, Enable,
                EnableSync, Strings, Clear, Fill, Refill, Stub, WriteTable, WriteMarker,
                WriteStub, StubSync, StubBack, RestoreStub, RestoreStubSync, RestoreTable,
                RestoreMarker, RestoreFunc, RestoreFuncSync, RestoreCave, AfterFunc
  <2> QED BY <1>2, <2>1
<1> QED BY <1>1, <1>2, <1>3, <1>4, <1>5 DEF Step, Rollback

\* The inductive invariant of a run.
RunInv == ModeInv /\ BytesInv /\ SyncInv /\ UndoInv /\ SuccessIsComplete

\* No run has begun at first.
LEMMA RunInit == Init => RunInv
BY DEF Init, RunInv, ModeInv, BytesInv, SyncInv, UndoInv, TrueToWord, SuccessIsComplete,
       Installing, Stubbing, Preparing, Early, Writing, Restoring, RollingBack, None

\* The invariant of a run is inductive.
LEMMA RunStep == TypeOK /\ TypeOK' /\ RunInv /\ [Next]_vars => RunInv'
<1> SUFFICES ASSUME TypeOK, TypeOK', RunInv, [Next]_vars PROVE RunInv'
  OBVIOUS
<1>1. CASE Step
  BY <1>1, ModeStep, BytesStep, SyncStep, UndoStep, SuccessStep DEF RunInv
<1>2. CASE UNCHANGED vars
  <2>1. UNCHANGED <<image, process, pc, result>>
    BY <1>2 DEF vars
  <2>2. MainNeeded' = MainNeeded /\ Whole' = Whole
    BY <2>1, SameRequest DEF process
  <2>3. ModeInv' /\ SyncInv'
    BY <2>1, <2>2 DEF RunInv, ModeInv, SyncInv, image, process
  <2>4. BytesInv'
    BY <2>1, <2>2 DEF RunInv, BytesInv, Mixed, image, process
  <2>5. UndoInv' /\ SuccessIsComplete'
    BY <2>1, <2>2 DEF RunInv, UndoInv, TrueToWord, BroughtBack, SuccessIsComplete, image, process
  <2> QED BY <2>3, <2>4, <2>5 DEF RunInv
<1> QED BY <1>1, <1>2 DEF Next

\* It holds throughout.
LEMMA Running == Spec => []RunInv
BY RunInit, RunStep, Typing, PTL DEF Spec

\* A run that exits with 0 has installed everything it was asked for, the
\* rest of the HAL is as it was, and no CPU executes anything older (a global
\* entry that was there already aside): whatever failed on the way, and
\* whatever image killed runs and failed rollbacks left it.
THEOREM SuccessComplete == Spec => []SuccessIsComplete
<1>1. RunInv => SuccessIsComplete
  BY DEF RunInv
<1> QED BY <1>1, Running, PTL

-----------------------------------------------------------------------------
(* As long as no call fails the work succeeds; a rollback copes with one.  *)

\* These sites hold what was asked for.
AsAsked(m, b, r, S) == \A s \in S : m[s] = Installed(b, r)[s]

\* The steps that only a failed write or synchronisation leads to.
Failing == {"refill", "uncode", "uncodesync", "untable", "unmarker"}

\* How far the work is when nothing has failed.
GoodWork ==
    /\ ~compromised /\ pc \notin RollingBack \cup Failing
    /\ pc \in Writing => ready = Done(at - 1) /\ AsAsked(mem, before, req, ready)
    /\ pc = "sync" => AsAsked(mem, before, req, {ApplyOrder[at]})
    /\ pc \in Installing \cup {"main", "verify"} =>
           ready = Aux /\ AsAsked(mem, before, req, Aux)
    /\ pc \in {"enablesync", "stubsync"} => AsAsked(mem, before, req, {"func"})
    /\ pc \in {"marker", "code", "stubsync"} => AsAsked(mem, before, req, {"table"})
    /\ pc \in {"code", "stubsync"} => AsAsked(mem, before, req, {"marker"})
    /\ pc = "verify" => main /\ AsAsked(mem, before, req, Site)

\* As long as no call has failed, the work is as far as its step says.
WorkInv == faults = 0 /\ pc # "rest" => GoodWork

\* A rollback with no second failure leaves nothing out.
RollInv ==
    faults <= 1 /\ ~compromised =>
        /\ pc = "uncave" => "func" \in undone
        /\ pc \in {"undo", "undosync"} => (Whole \ Aux) \cup Past(at - 1) \subseteq undone
        /\ pc = "rest" => result.rollback # "FAIL"

\* What a site needs comes before it in the order.
LEMMA NeedsInOrder ==
    ASSUME NEW i \in 1 .. 12 PROVE Needs(ApplyOrder[i]) \subseteq Done(i - 1)
<1>1. /\ ApplyOrder[1] = "helper" /\ ApplyOrder[2] = "idle_count"
      /\ ApplyOrder[3] = "update" /\ ApplyOrder[4] = "app_policy"
      /\ ApplyOrder[5] = "policy" /\ ApplyOrder[6] = "idle_clear"
      /\ ApplyOrder[7] = "stream_ref" /\ ApplyOrder[8] = "output_pool"
      /\ ApplyOrder[9] = "event0" /\ ApplyOrder[10] = "event1"
      /\ ApplyOrder[11] = "event2" /\ ApplyOrder[12] = "stream_open"
  BY DEF ApplyOrder
<1>2. \A j \in 1 .. i - 1 : ApplyOrder[j] \in Done(i - 1)
  BY DEF Done
<1>3. CASE i \in {1, 2, 3, 5}
  BY <1>1, <1>2, <1>3 DEF Needs
<1>4. CASE i \in {4, 6, 7}
  BY <1>1, <1>2, <1>4 DEF Needs
<1>5. CASE i \in {8, 10, 11, 12}
  BY <1>1, <1>2, <1>5 DEF Needs
<1>6. CASE i = 9
  <2>1. Needs("event0") = {"helper", "policy", "idle_clear", "stream_ref", "output_pool"}
    BY DEF Needs
  <2> QED BY <1>1, <1>2, <1>6, <2>1
<1> QED BY <1>3, <1>4, <1>5, <1>6

\* The helper's users are restored before it.
LEMMA UsersFirst == HelperUsers \cup {"idle_clear"} \subseteq Past(10) /\ UndoOrder[11] = "helper"
<1>1. /\ UndoOrder[1] = "stream_open" /\ UndoOrder[2] = "policy" /\ UndoOrder[3] = "update"
      /\ UndoOrder[4] = "idle_clear" /\ UndoOrder[5] = "idle_count" /\ UndoOrder[11] = "helper"
  BY DEF UndoOrder
<1>2. \A i \in 1 .. 10 : UndoOrder[i] \in Past(10)
  BY DEF Past
<1> QED BY <1>1, <1>2 DEF HelperUsers

\* The cave of a global run is as it was, and that is what is asked for.
LEMMA CaveOfGlobal ==
    ASSUME Mixed, req.mode = "global"
    PROVE  AsAsked(mem, before, req, Cave)
<1>1. \A s \in Cave : mem[s] = before[s]
  BY SiteKinds DEF Mixed, Whole, Cave
<1> QED BY <1>1, InstalledSites DEF AsAsked

\* A write that succeeds leaves the other sites as asked for.
LEMMA AskedWrites ==
    ASSUME NEW s \in Site, NEW c, Wrote(s, c, TRUE)
    PROVE  /\ \A S \in SUBSET Site : s \notin S /\ AsAsked(mem, before, req, S)
                                     => AsAsked(mem', before, req, S)
           /\ c = Installed(before, req)[s] => AsAsked(mem', before, req, {s})
BY DEF Wrote, AsAsked

\* Without a failure every auxiliary site becomes ready, ...
LEMMA WorkThroughApply ==
    ASSUME TypeOK, GoodWork, faults = 0, faults' = 0, ApplySite \/ SyncSite \/ WriteAgain
    PROVE  GoodWork'
<1> DEFINE s == ApplyOrder[at]
<1>1. /\ at \in 1 .. 12 /\ pc \in Writing /\ ready = Done(at - 1) /\ ~compromised
      /\ AsAsked(mem, before, req, ready) /\ UNCHANGED <<req, before>>
      /\ s \in Site /\ s \in Aux /\ Wanted(s) \in Content /\ s \notin ready /\ ready \subseteq Site
      /\ Wanted(s) = Installed(before, req)[s]
  <2>1. pc \in Writing /\ at \in 1 .. 12 /\ UNCHANGED <<req, before>>
    BY DEF ApplySite, SyncSite, WriteAgain, Writing, TypeOK
  <2>2. ready = Done(at - 1) /\ AsAsked(mem, before, req, ready) /\ ~compromised
    BY <2>1 DEF GoodWork
  <2> QED BY <2>1, <2>2, InOrder, Orders, WantedTypes, WantedInstalled, UsersAreCode DEF TypeOK
<1>2. Done(at) = ready \cup {s}
  BY <1>1, InOrder
<1> HIDE DEF s
<1>3. ASSUME Advance, ready' = ready \cup {s}, ~compromised',
             AsAsked(mem', before, req, ready \cup {s})
      PROVE  GoodWork'
  <2>1. CASE pc' = "apply" /\ at' = at + 1
    <3>1. at' - 1 = at
      BY <1>1, <2>1
    <3> QED BY <1>1, <1>2, <1>3, <2>1, <3>1
            DEF GoodWork, RollingBack, Failing, Installing, Stubbing, Writing
  <2>2. CASE pc' = "main" /\ at = 12
    <3>1. ready' = Aux
      BY <1>2, <1>3, <2>2, InOrder
    <3>2. AsAsked(mem', before', req', Aux)
      BY <1>1, <1>3, <3>1
    <3> QED BY <1>3, <2>2, <3>1, <3>2
            DEF GoodWork, RollingBack, Failing, Installing, Stubbing, Writing
  <2> QED BY <1>3, <2>1, <2>2, AdvanceWhere
<1>4. ASSUME pc' = "sync", UNCHANGED <<at, ready>>, ~compromised',
             AsAsked(mem', before, req, ready \cup {s})
      PROVE  GoodWork'
  BY <1>1, <1>4 DEF GoodWork, RollingBack, Failing, Installing, Stubbing, Writing, AsAsked, s
<1>5. \A ok \in BOOLEAN : MemW(s, Wanted(s), ok) =>
          ok /\ AsAsked(mem', before, req, ready \cup {s})
  <2> SUFFICES ASSUME NEW ok \in BOOLEAN, MemW(s, Wanted(s), ok)
               PROVE  ok /\ AsAsked(mem', before, req, ready \cup {s})
    OBVIOUS
  <2>1. Wrote(s, Wanted(s), ok)
    BY <1>1, MemWrote
  <2>2. ok
    BY <1>1, <2>1 DEF Wrote
  <2> QED BY <1>1, <2>1, <2>2 DEF Wrote, AsAsked
<1>6. CASE ApplySite
  <2>1. Needs(s) \subseteq ready
    BY <1>1, NeedsInOrder DEF s
  <2>2. CASE mem[s] = Wanted(s) /\ ready' = ready \cup {s} /\ Advance /\ UNCHANGED image
    <3>1. AsAsked(mem', before, req, ready \cup {s})
      BY <1>1, <2>2 DEF AsAsked, image
    <3> QED BY <1>1, <1>3, <1>6, <2>2, <3>1 DEF ApplySite
  <2>3. CASE /\ UNCHANGED ready
             /\ \E ok \in BOOLEAN :
                   /\ MemW(s, Wanted(s), ok)
                   /\ ok => pc' = "sync" /\ at' = at
    BY <1>1, <1>4, <1>5, <1>6, <2>3 DEF ApplySite
  <2> QED BY <1>6, <2>1, <2>2, <2>3 DEF ApplySite, Goto, s
<1>7. CASE SyncSite
  <2>1. PICK ok \in BOOLEAN :
            /\ Flush({s}, ok)
            /\ IF ok /\ pass = 1 THEN UNCHANGED <<pc, at, ready>>
               ELSE ready' = (IF ok THEN ready \cup {s} ELSE ready) /\ Advance
    BY <1>7 DEF SyncSite, s
  <2>2. ok /\ mem' = mem /\ ~compromised'
    <3>1. Flushed({s}, ok)
      BY <2>1, FlushFlushed
    <3>2. ok
      BY <1>1, <3>1 DEF Flushed
    <3> QED BY <1>1, <3>1, <3>2 DEF Flushed
  <2>3. pc = "sync" /\ AsAsked(mem', before, req, ready \cup {s})
    BY <1>1, <1>7, <2>2 DEF SyncSite, GoodWork, AsAsked, s
  <2> QED BY <1>3, <1>4, <2>1, <2>2, <2>3
<1>8. CASE WriteAgain
  <2>1. PICK ok \in BOOLEAN : /\ MemW(s, Wanted(s), ok)
                              /\ ok => UNCHANGED <<pc, at>>
    BY <1>8 DEF WriteAgain, s
  <2>2. pc = "sync" /\ UNCHANGED <<ready, compromised>>
    BY <1>8 DEF WriteAgain
  <2> QED BY <1>1, <1>4, <1>5, <2>1, <2>2
<1> QED BY <1>6, <1>7, <1>8

\* ... and the main function after them.
LEMMA WorkThroughMain ==
    ASSUME TypeOK, ModeInv, BytesInv, GoodWork, faults = 0, faults' = 0,
           Main \/ Enable \/ EnableSync \/ Strings \/ Stub \/ StubBack
    PROVE  GoodWork'
<1> USE DEF Goto
<1>1. /\ pc \in Installing \cup {"main"} /\ UNCHANGED <<ready, req, before>> /\ Mixed
      /\ ready = Aux /\ AsAsked(mem, before, req, Aux) /\ ~compromised
      /\ pc \notin Failing
  <2>1. pc \in Installing \cup {"main"} /\ UNCHANGED <<ready, req, before>>
    BY DEF Main, Enable, EnableSync, Strings, Clear, Fill, Refill, Stub, WriteTable,
           WriteMarker, WriteStub, StubSync, StubBack, RestoreStub, RestoreStubSync,
           RestoreTable, RestoreMarker, process, Installing, Stubbing
  <2> QED BY <2>1 DEF GoodWork, BytesInv, Early, Installing, Stubbing
<1>2. \A t \in {"func", "strings", "table", "marker"}, c \in Content, ok \in BOOLEAN :
          MemW(t, c, ok) =>
              /\ ok /\ AsAsked(mem', before, req, Aux)
              /\ \A S \in SUBSET Site : t \notin S /\ AsAsked(mem, before, req, S)
                                        => AsAsked(mem', before, req, S)
              /\ c = Installed(before, req)[t] => AsAsked(mem', before, req, {t})
  <2> SUFFICES ASSUME NEW t \in {"func", "strings", "table", "marker"}, NEW c \in Content,
                      NEW ok \in BOOLEAN, MemW(t, c, ok)
               PROVE  /\ ok /\ AsAsked(mem', before, req, Aux)
                      /\ \A S \in SUBSET Site : t \notin S /\ AsAsked(mem, before, req, S)
                                                => AsAsked(mem', before, req, S)
                      /\ c = Installed(before, req)[t] => AsAsked(mem', before, req, {t})
    OBVIOUS
  <2>1. t \in Site /\ t \notin Aux /\ Aux \subseteq Site
    BY SiteKinds
  <2>2. Wrote(t, c, ok)
    BY <2>1, MemWrote
  <2>3. ok
    BY <1>1, <2>2 DEF Wrote
  <2> QED BY <1>1, <2>1, <2>2, <2>3, AskedWrites
<1>3. \A S : \A ok \in BOOLEAN : Flush(S, ok) => ok /\ mem' = mem /\ ~compromised'
  <2> SUFFICES ASSUME NEW S, NEW ok \in BOOLEAN, Flush(S, ok)
               PROVE  ok /\ mem' = mem /\ ~compromised'
    OBVIOUS
  <2>1. Flushed(S, ok)
    BY FlushFlushed
  <2>2. ok
    BY <1>1, <2>1 DEF Flushed
  <2> QED BY <1>1, <2>1, <2>2 DEF Flushed
<1>4. req.mode \in {"global", "whitelist"}
  BY RequestAssumption DEF TypeOK
<1>5. \A m : (/\ AsAsked(m, before, req, Aux) /\ AsAsked(m, before, req, {"func"})
              /\ AsAsked(m, before, req, Cave)) => AsAsked(m, before, req, Site)
  BY SiteKinds DEF AsAsked, Cave
<1>6. {"table"} \in SUBSET Site /\ {"marker"} \in SUBSET Site /\ {"func"} \in SUBSET Site
      /\ Cave \in SUBSET Site
  BY SiteKinds DEF Cave
<1> USE DEF RollingBack, Failing, Writing, Installing, Stubbing
<1>7. CASE Main
  <2>1. AuxVerified /\ UNCHANGED <<mem, compromised>>
    BY <1>1, <1>7, WantedInstalled DEF Main, AuxVerified, AsAsked, image
  <2>2. CASE MainNeeded
    <3>1. pc' \in {"clear", "enable"}
      BY <1>7, <2>1, <2>2 DEF Main
    <3> QED BY <1>1, <2>1, <3>1 DEF GoodWork
  <2>3. CASE ~MainNeeded
    <3>1. pc' = "verify" /\ main'
      BY <1>7, <2>1, <2>3 DEF Main
    <3>2. req.mode = "global" /\ before["func"] = "global"
      BY <1>4, <2>3 DEF MainNeeded
    <3>3. mem["func"] = before["func"]
      BY <1>1, <2>3, <3>2, SiteKinds DEF Mixed, Whole
    <3>4. AsAsked(mem, before, req, {"func"}) /\ AsAsked(mem, before, req, Cave)
      BY <1>1, <3>2, <3>3, CaveOfGlobal, InstalledSites DEF AsAsked
    <3> QED BY <1>1, <1>5, <2>1, <3>1, <3>4 DEF GoodWork
  <2> QED BY <2>2, <2>3
<1>8. CASE Enable
  <2>1. req.mode = "global" /\ UNCHANGED compromised
    BY <1>8 DEF Enable, ModeInv, process
  <2>2. PICK ok \in BOOLEAN : MemW("func", "global", ok) /\ (ok => pc' = "enablesync")
    BY <1>8 DEF Enable
  <2> QED BY <1>1, <1>2, <2>1, <2>2, Contents, InstalledSites DEF GoodWork
<1>9. CASE EnableSync
  <2>1. req.mode = "global" /\ pass \in {1, 2} /\ AsAsked(mem, before, req, {"func"})
    BY <1>9 DEF EnableSync, ModeInv, GoodWork
  <2>2. PICK ok \in BOOLEAN : /\ Flush({"func"}, ok)
                              /\ pc' = IF ok /\ pass = 1 THEN "enable" ELSE "verify"
                              /\ main' = (ok /\ pass = 2)
    BY <1>9 DEF EnableSync
  <2>3. ok /\ mem' = mem /\ ~compromised'
    BY <1>3, <2>2
  <2>4. AsAsked(mem, before, req, Site)
    BY <1>1, <1>5, <2>1, CaveOfGlobal
  <2>5. CASE pass = 1
    BY <1>1, <2>2, <2>3, <2>5 DEF GoodWork
  <2>6. CASE pass = 2
    BY <1>1, <2>2, <2>3, <2>4, <2>6 DEF GoodWork
  <2> QED BY <2>1, <2>5, <2>6
<1>10. CASE Strings
  <2>1. UNCHANGED compromised
    BY <1>10 DEF Strings, Clear, Fill, Refill, process
  <2>2. PICK c \in Content, ok \in BOOLEAN :
            MemW("strings", c, ok) /\ (ok => pc' \in {"fill", "table"})
    BY <1>1, <1>10, MainSites, Contents DEF Strings, Clear, Fill, Refill
  <2> QED BY <1>1, <1>2, <2>1, <2>2 DEF GoodWork
<1>11. CASE WriteTable
  <2>1. req.mode = "whitelist" /\ mem["strings"] = req.list /\ UNCHANGED compromised
    BY <1>11 DEF WriteTable, ModeInv, BytesInv
  <2>2. PICK ok \in BOOLEAN : MemW("table", req.list, ok) /\ (ok => pc' = "marker")
    BY <1>11, <2>1 DEF WriteTable
  <2> QED BY <1>1, <1>2, <2>1, <2>2, MainSites, InstalledSites DEF GoodWork
<1>12. CASE WriteMarker
  <2>1. /\ req.mode = "whitelist" /\ UNCHANGED compromised
        /\ AsAsked(mem, before, req, {"table"})
    BY <1>12 DEF WriteMarker, ModeInv, GoodWork
  <2>2. PICK ok \in BOOLEAN : MemW("marker", "mark", ok) /\ (ok => pc' = "code")
    BY <1>12 DEF WriteMarker
  <2> QED BY <1>1, <1>2, <1>6, <2>1, <2>2, Contents, InstalledSites DEF GoodWork
<1>13. CASE WriteStub
  <2>1. /\ req.mode = "whitelist" /\ UNCHANGED compromised
        /\ AsAsked(mem, before, req, {"table"}) /\ AsAsked(mem, before, req, {"marker"})
    BY <1>13 DEF WriteStub, ModeInv, GoodWork
  <2>2. PICK ok \in BOOLEAN : MemW("func", "stub", ok) /\ (ok => pc' = "stubsync")
    BY <1>13 DEF WriteStub
  <2> QED BY <1>1, <1>2, <1>6, <2>1, <2>2, Contents, InstalledSites DEF GoodWork
<1>14. CASE StubSync
  <2>1. /\ req.mode = "whitelist" /\ pass \in {1, 2} /\ mem["strings"] = req.list
        /\ AsAsked(mem, before, req, {"func"}) /\ AsAsked(mem, before, req, {"table"})
        /\ AsAsked(mem, before, req, {"marker"})
    BY <1>14 DEF StubSync, ModeInv, GoodWork, BytesInv
  <2>2. PICK ok \in BOOLEAN : /\ Flush({"func"}, ok)
                              /\ pc' = IF ok /\ pass = 1 THEN "table" ELSE "verify"
                              /\ main' = (ok /\ pass = 2)
    BY <1>14 DEF StubSync
  <2>3. ok /\ mem' = mem /\ ~compromised'
    BY <1>3, <2>2
  <2>4. AsAsked(mem, before, req, Site)
    <3>1. AsAsked(mem, before, req, Cave)
      BY <2>1, InstalledSites DEF AsAsked, Cave
    <3> QED BY <1>1, <1>5, <2>1, <3>1
  <2>5. CASE pass = 1
    BY <1>1, <2>2, <2>3, <2>5 DEF GoodWork
  <2>6. CASE pass = 2
    BY <1>1, <2>2, <2>3, <2>4, <2>6 DEF GoodWork
  <2> QED BY <2>1, <2>5, <2>6
<1>15. CASE StubBack
  BY <1>1, <1>15 DEF StubBack, RestoreStub, RestoreStubSync, RestoreTable, RestoreMarker
<1> QED BY <1>7, <1>8, <1>9, <1>10, <1>11, <1>12, <1>13, <1>14, <1>15 DEF Stub

\* A failing call is never forgotten.
LEMMA FaultsGrow == TypeOK /\ Step => faults' = faults \/ faults' = faults + 1
<1> SUFFICES ASSUME TypeOK, Step PROVE faults' = faults \/ faults' = faults + 1
  OBVIOUS
<1>1. \A s, c, ok : MemW(s, c, ok) => faults' = faults \/ faults' = faults + 1
  BY DEF MemW, Fault
<1>2. \A S, ok : Flush(S, ok) => faults' = faults \/ faults' = faults + 1
  BY DEF Flush, Fault
<1>3. CASE Begin \/ Resolve \/ Preflight \/ Snapshot \/ Crash
  BY <1>2, <1>3 DEF Begin, Resolve, Preflight, Snapshot, Crash, Fault
<1>4. CASE Apply
  BY <1>1, <1>2, <1>4 DEF Apply, ApplySite, SyncSite, WriteAgain, Main, Enable, EnableSync
<1>5. CASE Strings
  BY <1>1, <1>5 DEF Strings, Clear, Fill, Refill
<1>6. CASE Stub
  BY <1>1, <1>2, <1>6 DEF Stub, WriteTable, WriteMarker, WriteStub, StubSync
<1>7. CASE StubBack
  BY <1>1, <1>2, <1>7 DEF StubBack, RestoreStub, RestoreStubSync, RestoreTable, RestoreMarker
<1>8. CASE Verify
  BY <1>8 DEF Verify, Fault
<1>9. CASE Rollback
  BY <1>1, <1>2, <1>9 DEF Rollback, RestoreFunc, RestoreFuncSync, RestoreCave, Undo, UndoSync, Fault
<1> QED BY <1>3, <1>4, <1>5, <1>6, <1>7, <1>8, <1>9 DEF Step

\* Without a failure the work gets on.
LEMMA WorkStep == TypeOK /\ ModeInv /\ BytesInv /\ SyncInv /\ WorkInv /\ Step => WorkInv'
<1> SUFFICES ASSUME TypeOK, ModeInv, BytesInv, SyncInv, WorkInv, Step,
                    faults' = 0, pc' # "rest"
             PROVE  GoodWork'
  BY DEF WorkInv
<1>1. faults = 0
  BY FaultsGrow DEF TypeOK
<1>2. CASE Begin
  BY <1>2 DEF Begin, Goto, GoodWork, RollingBack, Failing, Writing, Installing, Stubbing
<1>3. CASE ~Begin
  <2>1. pc # "rest"
    BY <1>3 DEF Step, Resolve, Preflight, Snapshot, Apply, ApplySite, SyncSite, WriteAgain,
                Main, Enable, EnableSync, Strings, Clear, Fill, Refill, Stub, WriteTable,
                WriteMarker, WriteStub, StubSync, StubBack, RestoreStub, RestoreStubSync,
                RestoreTable, RestoreMarker, Verify, Rollback, RestoreFunc, RestoreFuncSync,
                RestoreCave, Undo, UndoSync, Crash
  <2>2. GoodWork
    BY <1>1, <2>1 DEF WorkInv
  <2> USE DEF Goto, RollingBack, Failing, Writing, Installing, Stubbing
  <2>3. CASE Resolve
    BY <2>2, <2>3 DEF Resolve, Exit, process, GoodWork
  <2>4. CASE Preflight
    <3>1. ~compromised'
      <4>1. CASE UNCHANGED compromised
        BY <2>2, <4>1 DEF GoodWork
      <4>2. ASSUME NEW ok \in BOOLEAN, Flush(Spans[at], ok) PROVE ~compromised'
        <5>1. Flushed(Spans[at], ok)
          BY <4>2, FlushFlushed
        <5>2. ok
          BY <1>1, <2>2, <5>1 DEF Flushed, GoodWork
        <5> QED BY <2>2, <5>1, <5>2 DEF Flushed, GoodWork
      <4> QED BY <2>4, <4>1, <4>2 DEF Preflight
    <3>2. pc' \in {"preflight", "snapshot"}
      BY <2>4 DEF Preflight
    <3> QED BY <3>1, <3>2 DEF GoodWork
  <2>5. CASE Snapshot
    <3>1. pc' = "apply" /\ at' = 1 /\ ready' = {} /\ UNCHANGED compromised
      BY <2>5 DEF Snapshot, Exit, ModeInv, SyncInv, Preparing
    <3>2. ready' = Done(at' - 1)
      BY <3>1, InOrder
    <3> QED BY <2>2, <3>1, <3>2 DEF GoodWork, AsAsked
  <2>6. CASE Verify
    <3>1. main /\ AsAsked(mem, before, req, Site) /\ ready = Aux /\ AsAsked(mem, before, req, Aux)
      BY <2>2, <2>6 DEF Verify, GoodWork
    <3>2. AuxVerified
      BY <3>1, WantedInstalled DEF AuxVerified, AsAsked
    <3>3. MainVerified
      BY <3>1, SiteKinds, InstalledSites, RequestAssumption DEF MainVerified, AsAsked, TypeOK
    <3> QED BY <1>1, <2>6, <3>2, <3>3 DEF Verify, Exit, Fault
  <2>7. CASE Rollback
    BY <2>2, <2>7 DEF Rollback, RestoreFunc, RestoreFuncSync, RestoreCave, Undo, UndoSync, GoodWork
  <2>8. ~Crash
    BY DEF Crash, Exit
  <2> QED BY <1>1, <1>3, <2>2, <2>3, <2>4, <2>5, <2>6, <2>7, <2>8, WorkThroughApply, WorkThroughMain
          DEF Step, Apply
<1> QED BY <1>2, <1>3

\* The one failure was before the rollback, so the rollback has none.
LEMMA RollThroughRollback ==
    ASSUME TypeOK, ModeInv, UndoInv, UndoInv', WorkInv, RollInv, Rollback,
           faults' <= 1, ~compromised'
    PROVE  RollInv'
<1> USE DEF Goto
<1>1. /\ pc \in RollingBack /\ UNCHANGED <<req, before>>
      /\ Whole' = Whole /\ AfterFunc \in {"uncave", "undo"}
  <2>1. pc \in RollingBack /\ UNCHANGED <<req, before>>
    BY DEF Rollback, RestoreFunc, RestoreFuncSync, RestoreCave, Undo, UndoSync, process, RollingBack
  <2> QED BY <2>1, SameRequest DEF AfterFunc
<1>2. faults = 1 /\ faults' = 1
  <2>1. faults # 0
    BY <1>1 DEF WorkInv, GoodWork, RollingBack
  <2>2. faults' = faults \/ faults' = faults + 1
    BY FaultsGrow DEF Step
  <2> QED BY <2>1, <2>2 DEF TypeOK
<1>3. ~compromised
  <2>1. \A S : \A ok \in BOOLEAN : Flush(S, ok) => (compromised => compromised')
    BY FlushFlushed DEF Flushed
  <2> QED BY <2>1 DEF Rollback, RestoreFunc, RestoreFuncSync, RestoreCave, Undo, UndoSync, process
<1>4. /\ \A s, c, ok : MemW(s, c, ok) => ok
      /\ \A S, ok : Flush(S, ok) => ok
  BY <1>2, <1>3 DEF MemW, Flush, Fault
<1>5. CASE RestoreFunc
  BY <1>4, <1>5 DEF RestoreFunc, RollInv
<1>6. CASE RestoreFuncSync
  <2>1. "func" \in undone' /\ pc' = AfterFunc /\ at' = 1 /\ req.mode \in {"global", "whitelist"}
    BY <1>4, <1>6, RequestAssumption DEF RestoreFuncSync, ModeInv, TypeOK
  <2>2. req.mode = "global" => Whole \ Aux \subseteq {"func"}
    BY DEF Whole
  <2>3. Past(at' - 1) = {}
    BY <2>1, InUndoOrder
  <2> QED BY <1>1, <2>1, <2>2, <2>3 DEF RollInv, AfterFunc
<1>7. CASE RestoreCave
  <2>1. "func" \in undone /\ undone' = undone \cup Cave /\ pc' = "undo" /\ at' = 1
    BY <1>2, <1>3, <1>7 DEF RestoreCave, RollInv, ModeInv, Fault
  <2>2. Whole \ Aux \subseteq {"func"} \cup Cave
    BY DEF Whole
  <2>3. Past(at' - 1) = {}
    BY <2>1, InUndoOrder
  <2> QED BY <1>1, <2>1, <2>2, <2>3 DEF RollInv
<1>8. CASE Undo
  <2>1. pc = "undo" /\ at \in 1 .. 12 /\ (Whole \ Aux) \cup Past(at - 1) \subseteq undone
    BY <1>2, <1>3, <1>8 DEF Undo, RollInv, TypeOK
  <2>2. UndoOrder[at] = "helper" => Disconnected
    <3>1. UndoOrder[at] = "helper" => at = 11
      BY <2>1, UsersFirst, OnePlaceUndone
    <3> QED BY <2>1, <3>1, UsersFirst DEF Disconnected
  <2>3. pc' = "undosync" /\ UNCHANGED <<at, undone>>
    BY <1>4, <1>8, <2>2 DEF Undo
  <2> QED BY <1>1, <2>1, <2>3 DEF RollInv
<1>9. CASE UndoSync
  <2>1. pc = "undosync" /\ at \in 1 .. 12 /\ (Whole \ Aux) \cup Past(at - 1) \subseteq undone
    BY <1>2, <1>3, <1>9 DEF UndoSync, RollInv, TypeOK
  <2>2. UndoNext(undone \cup {UndoOrder[at]})
    BY <1>4, <1>9 DEF UndoSync
  <2>3. (Whole \ Aux) \cup Past(at) \subseteq undone \cup {UndoOrder[at]}
    BY <2>1, InUndoOrder
  <2>4. CASE at < 12
    <3>1. pc' = "undo" /\ at' - 1 = at /\ undone' = undone \cup {UndoOrder[at]}
      BY <2>1, <2>2, <2>4, Orders DEF UndoNext
    <3> QED BY <1>1, <2>3, <3>1 DEF RollInv
  <2>5. CASE at = 12
    <3>1. undone \cup {UndoOrder[at]} = Whole
      <4>1. undone \subseteq Whole
        BY <2>1 DEF UndoInv, BroughtBack, RollingBack
      <4> QED BY <2>3, <2>5, <4>1, InUndoOrder, SiteKinds
    <3>2. pc' = "rest" /\ result'.rollback = "OK"
      BY <2>2, <2>5, <3>1, Orders DEF UndoNext, Exit
    <3> QED BY <3>2 DEF RollInv
  <2> QED BY <2>1, <2>4, <2>5
<1> QED BY <1>5, <1>6, <1>7, <1>8, <1>9 DEF Rollback

\* The steps before a rollback do not disturb it.
LEMMA RollStep ==
    TypeOK /\ ModeInv /\ UndoInv /\ UndoInv' /\ WorkInv /\ RollInv /\ Step => RollInv'
<1> SUFFICES ASSUME TypeOK, ModeInv, UndoInv, UndoInv', WorkInv, RollInv, Step,
                    faults' <= 1, ~compromised'
             PROVE  RollInv'
  BY DEF RollInv
<1> USE DEF Goto, Exit
<1>1. CASE Begin \/ Resolve \/ Preflight \/ Snapshot \/ Crash
  BY <1>1 DEF Begin, Resolve, Preflight, Snapshot, Crash, RollInv, None
<1>2. CASE Verify
  <2>1. pc' \in {"rest", "unfunc", "undo"} /\ (pc' = "rest" => result'.rollback = None)
    BY <1>2 DEF Verify
  <2>2. pc' = "undo" => at' = 1 /\ ~MainNeeded /\ UNCHANGED <<req, before>>
    BY <1>2 DEF Verify
  <2>3. pc' = "undo" => Whole' \ Aux = {} /\ Past(at' - 1) = {}
    BY <2>2, SameRequest, InUndoOrder DEF Whole
  <2> QED BY <2>1, <2>3 DEF RollInv, None
<1>3. CASE Apply \/ Strings \/ Stub \/ StubBack
  <2>1. pc' \notin Restoring
    BY <1>3 DEF Apply, ApplySite, SyncSite, WriteAgain, Advance, Main, Enable,
                EnableSync, Strings, Clear, Fill, Refill, Stub, WriteTable,
                WriteMarker, WriteStub, StubSync, StubBack, RestoreStub, RestoreStubSync,
                RestoreTable, RestoreMarker, Restoring
  <2> QED BY <2>1 DEF RollInv, Restoring
<1> QED BY <1>1, <1>2, <1>3, RollThroughRollback DEF Step

\* What a run has done while failures are few.
FaultInv == WorkInv /\ RollInv

\* It holds throughout.
LEMMA Coping == Spec => []FaultInv
<1>1. Init => FaultInv
  BY DEF Init, FaultInv, WorkInv, RollInv, None
<1>2. TypeOK /\ TypeOK' /\ RunInv /\ RunInv' /\ FaultInv /\ [Next]_vars => FaultInv'
  <2> SUFFICES ASSUME TypeOK, TypeOK', RunInv, RunInv', FaultInv, [Next]_vars
               PROVE  FaultInv'
    OBVIOUS
  <2>1. CASE Step
    BY <2>1, WorkStep, RollStep DEF FaultInv, RunInv
  <2>2. CASE UNCHANGED vars
    <3>1. UNCHANGED <<image, process, pc, result, faults>>
      BY <2>2 DEF vars
    <3>2. Whole' = Whole
      BY <3>1, SameRequest DEF process
    <3> QED BY <3>1, <3>2 DEF FaultInv, WorkInv, GoodWork, RollInv, image, process
  <2> QED BY <2>1, <2>2 DEF Next
<1> QED BY <1>1, <1>2, Typing, Running, PTL DEF Spec

\* A run in which one call fails, of a patcher that the HAL has not locked out,
\* ends with everything restored, never with a rollback that failed.
THEOREM FailuresRestore == Spec => []FailureRestores
<1>1. RunInv /\ FaultInv => FailureRestores
  BY DEF RunInv, UndoInv, TrueToWord, FaultInv, RollInv, FailureRestores
<1> QED BY <1>1, Running, Coping, PTL

\* What HalImage sees of the HAL: the image while no patcher runs.
Seen == IF pc = "rest" THEN mem ELSE before

\* While a run is under way nothing of it is seen.
LEMMA Unseen ==
    ASSUME TypeOK, BytesInv, Step, pc' # "rest"
    PROVE  UNCHANGED <<Seen, result>>
<1> USE DEF Goto, Exit, Seen
<1>1. CASE Begin
  BY <1>1 DEF Begin
<1>2. CASE Resolve \/ Preflight \/ Snapshot \/ Verify \/ Crash
  BY <1>2 DEF Resolve, Preflight, Snapshot, Verify, Crash, BytesInv, Preparing, process
<1>3. CASE Apply
  BY <1>3 DEF Apply, ApplySite, SyncSite, WriteAgain, Main, Enable, EnableSync, process
<1>4. CASE Strings \/ Stub
  BY <1>4 DEF Strings, Clear, Fill, Refill, Stub, WriteTable, WriteMarker, WriteStub, StubSync,
              process
<1>5. CASE StubBack
  BY <1>5 DEF StubBack, RestoreStub, RestoreStubSync, RestoreTable, RestoreMarker, process
<1>6. CASE Rollback
  BY <1>6 DEF Rollback, RestoreFunc, RestoreFuncSync, RestoreCave, Undo, UndoSync, UndoNext, process
<1> QED BY <1>1, <1>2, <1>3, <1>4, <1>5, <1>6 DEF Step

\* The end of a run is a step of HalImage.
LEMMA Ending ==
    ASSUME TypeOK, TypeOK', RunInv, RunInv', Step, pc' = "rest"
    PROVE  Abstract!Next
<1> USE DEF Goto, Exit
<1>1. Resolve \/ Snapshot \/ Verify \/ Undo \/ UndoSync \/ Crash
  BY DEF Step, Begin, Preflight, Apply, ApplySite, SyncSite, WriteAgain, Advance, Main, Enable,
         EnableSync, Strings, Clear, Fill, Refill, Stub, WriteTable, WriteMarker, WriteStub,
         StubSync, StubBack, RestoreStub, RestoreStubSync, RestoreTable, RestoreMarker,
         Rollback, RestoreFunc, RestoreFuncSync, RestoreCave, AfterFunc
<1>2. pc # "rest" /\ req' = req /\ req \in Request
  BY <1>1 DEF Resolve, Snapshot, Verify, Undo, UndoSync, Crash, process, TypeOK
<1>3. DOMAIN mem = Site /\ DOMAIN mem' = Site /\ DOMAIN before = Site
  BY DEF TypeOK
<1>4. ASSUME mem' = before,
             result' \in [rc : {1, 2}, rollback : {None}] \cup [rc : {1}, rollback : {"OK"}]
      PROVE  Abstract!Refuse
  BY <1>2, <1>4 DEF Abstract!Refuse
<1>5. ASSUME \A s \in Site : mem'[s] \in Allowed(before, req, s),
             result' \in {[rc |-> 1, rollback |-> "FAIL"], [rc |-> 137, rollback |-> None]}
      PROVE  Abstract!Break
  BY <1>2, <1>3, <1>5 DEF Abstract!Break, Allowed
<1>6. CASE Resolve \/ Snapshot
  <2>1. mem' = before
    BY <1>6 DEF Resolve, Snapshot, RunInv, BytesInv, Preparing, image
  <2>2. result' \in [rc : {1, 2}, rollback : {None}]
    BY <1>6 DEF Resolve, Snapshot
  <2> QED BY <1>4, <2>1, <2>2 DEF Abstract!Next
<1>7. CASE Verify
  <2>1. before' = before /\ result' = [rc |-> 0, rollback |-> None]
    BY <1>7 DEF Verify
  <2>2. mem' = Installed(before, req)
    BY <1>2, <2>1 DEF RunInv, SuccessIsComplete
  <2> QED BY <1>2, <2>1, <2>2 DEF Abstract!Next, Abstract!Install
<1>8. CASE Undo \/ UndoSync
  <2>1. before' = before
    BY <1>8 DEF Undo, UndoSync
  <2>2. PICK word \in {"OK", "FAIL"} : result' = [rc |-> 1, rollback |-> word]
    BY <1>8 DEF Undo, UndoSync, UndoNext
  <2>3. CASE word = "OK"
    <3>1. mem' = before
      BY <2>1, <2>2, <2>3 DEF RunInv, UndoInv, TrueToWord
    <3> QED BY <1>4, <2>2, <2>3, <3>1 DEF Abstract!Next
  <2>4. CASE word = "FAIL"
    <3>1. \A s \in Site : mem'[s] \in Allowed(before, req, s)
      <4>1. Mixed'
        BY <1>8, UndoMixed DEF RunInv
      <4> QED BY <1>2, <2>1, <4>1 DEF Mixed
    <3> QED BY <1>5, <2>2, <2>4, <3>1 DEF Abstract!Next
  <2> QED BY <2>2, <2>3, <2>4
<1>9. CASE Crash
  <2>1. mem' = mem /\ result' = [rc |-> 137, rollback |-> None]
    BY <1>9 DEF Crash, image
  <2>2. \A s \in Site : mem[s] \in Allowed(before, req, s)
    <3>1. CASE pc \in Preparing
      BY <3>1 DEF RunInv, BytesInv, Allowed
    <3>2. CASE pc \notin Preparing
      BY <1>2, <3>2 DEF RunInv, BytesInv, Mixed, Early, Preparing
    <3> QED BY <3>1, <3>2
  <2> QED BY <1>5, <2>1, <2>2 DEF Abstract!Next
<1> QED BY <1>1, <1>6, <1>7, <1>8, <1>9

\* A run installs everything or nothing or says that it could do neither:
\* whatever fails and whenever a patcher is killed.
THEOREM Implements == Spec => ImplementsHalImage
<1>1. Init => Abstract!Init
  BY DEF Init, Abstract!Init
<1>2. TypeOK /\ TypeOK' /\ RunInv /\ RunInv' /\ [Next]_vars => [Abstract!Next]_<<Seen, result>>
  <2> SUFFICES ASSUME TypeOK, TypeOK', RunInv, RunInv', [Next]_vars
               PROVE  [Abstract!Next]_<<Seen, result>>
    OBVIOUS
  <2>1. CASE Step /\ pc' = "rest"
    BY <2>1, Ending
  <2>2. CASE Step /\ pc' # "rest"
    BY <2>2, Unseen DEF RunInv
  <2>3. CASE UNCHANGED vars
    BY <2>3 DEF vars, image, process, Seen
  <2> QED BY <2>1, <2>2, <2>3 DEF Next
<1> QED BY <1>1, <1>2, Typing, Running, PTL DEF Spec, ImplementsHalImage, Abstract!Spec, Seen

-----------------------------------------------------------------------------
(* A branch that a CPU may take leads to code that is completely there.    *)

\* What a debugger reads at a code site is among what a CPU may execute.
AllSeen == \A s \in Code : mem[s] \in fetch[s]

\* What BranchesLand says of the image.
Land == \A s \in Aux : MayBranch(s) => \A t \in Target(s) : Solid(t)

\* The same of the snapshots that a rollback will write back.
BeforeLands == \A s \in Aux : before[s] \in Branch => \A t \in Target(s) : before[t] = "patched"

\* The failures that BranchesLand is about.
Bounded == faults = 0 \/ (faults = 1 /\ crashes = 0)

\* Branches land until the one failure, and again when nothing can be written
\* any more or the run is over; in between the snapshots do.
LandInv ==
    Clean0 /\ Bounded =>
        /\ pc \in Early \/ faults = 0 \/ compromised => Land
        /\ pc # "rest" => BeforeLands

\* What a branch leads to is a site of its own, patched in one way only.
LEMMA Targets ==
    /\ \A s : Target(s) \subseteq {"helper", "update", "stream_ref"} /\ s \notin Target(s)
    /\ {"helper", "update", "stream_ref"} \subseteq Aux
    /\ \A t \in {"helper", "update", "stream_ref"} :
          Wanted(t) = "patched" /\ Installed(before, req)[t] = "patched"
<1>1. \A s : Target(s) \subseteq {"helper", "update", "stream_ref"} /\ s \notin Target(s)
  BY DEF Target, HelperUsers
<1>2. {"helper", "update", "stream_ref"} \subseteq Aux
  <2>1. ApplyOrder[1] = "helper" /\ ApplyOrder[3] = "update" /\ ApplyOrder[7] = "stream_ref"
    BY DEF ApplyOrder
  <2> QED BY <2>1, Orders
<1>3. \A t \in {"helper", "update", "stream_ref"} : Wanted(t) = "patched"
  BY DEF Wanted
<1> QED BY <1>1, <1>2, <1>3, WantedInstalled

\* The code that a branch leads to is written before the branch.
LEMMA TargetsFirst ==
    ASSUME NEW i \in 1 .. 12 PROVE Target(ApplyOrder[i]) \subseteq Done(i - 1)
<1>1. /\ ApplyOrder[1] = "helper" /\ ApplyOrder[2] = "idle_count"
      /\ ApplyOrder[3] = "update" /\ ApplyOrder[4] = "app_policy"
      /\ ApplyOrder[5] = "policy" /\ ApplyOrder[6] = "idle_clear"
      /\ ApplyOrder[7] = "stream_ref" /\ ApplyOrder[8] = "output_pool"
      /\ ApplyOrder[9] = "event0" /\ ApplyOrder[10] = "event1"
      /\ ApplyOrder[11] = "event2" /\ ApplyOrder[12] = "stream_open"
  BY DEF ApplyOrder
<1>2. \A j \in 1 .. i - 1 : ApplyOrder[j] \in Done(i - 1)
  BY DEF Done
<1>3. CASE i \in {1, 4, 7, 9, 10, 11}
  BY <1>1, <1>3 DEF Target, HelperUsers
<1>4. CASE i \in {2, 3, 5, 6}
  BY <1>1, <1>2, <1>4 DEF Target, HelperUsers
<1>5. CASE i \in {8, 12}
  BY <1>1, <1>2, <1>5 DEF Target, HelperUsers
<1> QED BY <1>3, <1>4, <1>5

\* Land speaks of what the CPUs may execute at the auxiliary sites only.
LEMMA LandFetch ==
    ASSUME Land, \A t \in Aux : fetch'[t] = fetch[t] PROVE Land'
BY Targets DEF Land, MayBranch, Solid

\* Cache maintenance takes branches away, never the code that they lead to.
LEMMA LandFlushes ==
    ASSUME TypeOK, AllSeen, Land, NEW S, NEW ok \in BOOLEAN, Flush(S, ok)
    PROVE  Land'
<1>1. \A t \in Aux : /\ fetch'[t] \subseteq fetch[t]
                     /\ fetch[t] = {"patched"} => fetch'[t] = {"patched"}
  <2>1. \A t \in Aux : mem[t] \in fetch[t] /\ fetch'[t] \in {fetch[t], {mem[t]}}
    BY UsersAreCode DEF Flush, image, AllSeen
  <2> QED BY <2>1
<1>2. \A s \in Aux : MayBranch(s)' => MayBranch(s)
  BY <1>1 DEF MayBranch
<1>3. \A t \in Aux : Solid(t) => Solid(t)'
  BY <1>1 DEF Solid
<1> QED BY <1>2, <1>3, Targets DEF Land

\* A write leaves what the CPUs may execute elsewhere.
LEMMA WriteElsewhere ==
    ASSUME TypeOK, AllSeen, NEW s \in Site, NEW c, NEW ok \in BOOLEAN, MemW(s, c, ok)
    PROVE  /\ \A t \in Code \ {s} : fetch'[t] = fetch[t]
           /\ ok => \A t \in Code \cap {s} : fetch'[t] = fetch[t] \cup {c}
           /\ AllSeen'
<1>1. ASSUME NEW x, Image([mem EXCEPT ![s] = x])
      PROVE  /\ \A t \in Code \ {s} : fetch'[t] = fetch[t]
             /\ \A t \in Code \cap {s} : fetch'[t] = fetch[t] \cup {x}
             /\ AllSeen'
  <2>1. /\ \A t \in Code : fetch'[t] = fetch[t] \cup {mem'[t]}
        /\ \A t \in Code \ {s} : mem'[t] = mem[t]
        /\ mem'[s] = x
    BY <1>1, UsersAreCode DEF Image, TypeOK
  <2>2. ASSUME NEW t \in Code \ {s} PROVE fetch'[t] = fetch[t]
    <3>1. fetch'[t] = fetch[t] \cup {mem[t]} /\ mem[t] \in fetch[t]
      BY <2>1, UsersAreCode DEF AllSeen
    <3> QED BY <3>1
  <2>3. AllSeen'
    BY <2>1 DEF AllSeen
  <2> QED BY <2>1, <2>2, <2>3
<1>2. UNCHANGED image => AllSeen' /\ \A t \in Code \ {s} : fetch'[t] = fetch[t]
  BY DEF image, AllSeen
<1> QED BY <1>1, <1>2 DEF MemW

\* A successful write of a site whose own branch lands.
LEMMA LandWrites ==
    ASSUME TypeOK, AllSeen, Land, NEW s \in Aux, MemW(s, Wanted(s), TRUE),
           \A t \in Target(s) : Solid(t)
    PROVE  Land'
<1>1. /\ \A t \in Aux \ {s} : fetch'[t] = fetch[t]
      /\ fetch'[s] = fetch[s] \cup {Wanted(s)}
  BY UsersAreCode, WriteElsewhere
<1>2. \A t \in {"helper", "update", "stream_ref"} : Solid(t) => Solid(t)'
  BY <1>1, Targets DEF Solid
<1>3. \A r \in Aux \ {s} : MayBranch(r)' => MayBranch(r)
  BY <1>1 DEF MayBranch
<1> QED BY <1>2, <1>3, Targets DEF Land

\* What is seen stays seen.
LEMMA SeenStep == TypeOK /\ AllSeen /\ Step => AllSeen'
<1> SUFFICES ASSUME TypeOK, AllSeen, Step PROVE AllSeen'
  OBVIOUS
<1>1. ASSUME UNCHANGED image PROVE AllSeen'
  BY <1>1 DEF image, AllSeen
<1>2. ASSUME NEW S, NEW ok \in BOOLEAN, Flush(S, ok) PROVE AllSeen'
  BY <1>2 DEF Flush, image, AllSeen
<1>3. ASSUME NEW s \in Site, NEW c, NEW ok \in BOOLEAN, MemW(s, c, ok) PROVE AllSeen'
  BY <1>3, WriteElsewhere
<1>4. \A i \in 1 .. 12 : ApplyOrder[i] \in Site /\ UndoOrder[i] \in Site
  BY Orders, UsersAreCode
<1>5. at \in 1 .. 12 /\ {"func", "strings", "table", "marker"} \subseteq Site
  BY SiteKinds DEF TypeOK
<1>6. CASE Begin \/ Resolve \/ Preflight \/ Snapshot \/ Verify \/ Crash \/ Main
  BY <1>1, <1>2, <1>6 DEF Begin, Resolve, Preflight, Snapshot, Verify, Crash, Main, image
<1>7. CASE ApplySite \/ SyncSite \/ WriteAgain \/ Undo \/ UndoSync
  BY <1>1, <1>2, <1>3, <1>4, <1>5, <1>7 DEF ApplySite, SyncSite, WriteAgain, Undo, UndoSync
<1>8. CASE Enable \/ EnableSync \/ RestoreFunc \/ RestoreFuncSync
  BY <1>2, <1>3, <1>5, <1>8 DEF Enable, EnableSync, RestoreFunc, RestoreFuncSync
<1>9. CASE Strings \/ Stub \/ StubBack
  BY <1>2, <1>3, <1>5, <1>9
     DEF Strings, Clear, Fill, Refill, Stub, WriteTable, WriteMarker, WriteStub, StubSync,
         StubBack, RestoreStub, RestoreStubSync, RestoreTable, RestoreMarker
<1>10. CASE RestoreCave
  <2>1. \A m : Image(m) => AllSeen'
    BY DEF Image, AllSeen
  <2> QED BY <1>1, <1>10, <2>1 DEF RestoreCave
<1> QED BY <1>6, <1>7, <1>8, <1>9, <1>10 DEF Step, Apply, Rollback

\* As long as nothing has failed every write of a branch finds its code there.
LEMMA LandThroughApply ==
    ASSUME TypeOK, AllSeen, SyncInv, GoodWork, faults = 0, faults' = 0, Land,
           ApplySite \/ SyncSite \/ WriteAgain
    PROVE  Land'
<1> DEFINE s == ApplyOrder[at]
<1>1. /\ at \in 1 .. 12 /\ pc \in Writing /\ s \in Aux /\ ready = Done(at - 1)
      /\ AsAsked(mem, before, req, ready) /\ Synced(fetch, mem, ready) /\ ~compromised
  BY Orders DEF ApplySite, SyncSite, WriteAgain, Writing, TypeOK, GoodWork, SyncInv
<1>2. \A t \in Target(s) : Solid(t)
  <2>1. Target(s) \subseteq ready
    BY <1>1, TargetsFirst
  <2> QED BY <1>1, <2>1, Targets, UsersAreCode DEF AsAsked, Synced, Solid
<1>3. \A ok \in BOOLEAN : MemW(s, Wanted(s), ok) => Land'
  <2> SUFFICES ASSUME NEW ok \in BOOLEAN, MemW(s, Wanted(s), ok) PROVE Land'
    OBVIOUS
  <2>1. Wrote(s, Wanted(s), ok)
    BY <1>1, MemWrote, WantedTypes, UsersAreCode
  <2>2. ok = TRUE
    BY <1>1, <2>1 DEF Wrote
  <2> QED BY <1>1, <1>2, <2>2, LandWrites
<1>4. UNCHANGED image => Land'
  BY LandFetch DEF image
<1> QED BY <1>3, <1>4, LandFlushes DEF ApplySite, SyncSite, WriteAgain

\* The main function and its cave lead nowhere.
LEMMA LandThroughMain ==
    ASSUME TypeOK, AllSeen, Land, Main \/ Enable \/ EnableSync \/ Strings \/ Stub \/ StubBack
    PROVE  Land'
<1>1. \A t \in {"func", "strings", "table", "marker"} : \A c : \A ok \in BOOLEAN :
          MemW(t, c, ok) => Land'
  BY SiteKinds, UsersAreCode, WriteElsewhere, LandFetch
<1>2. UNCHANGED image => Land'
  BY LandFetch DEF image
<1>3. CASE Main \/ Enable \/ EnableSync
  BY <1>1, <1>2, <1>3, LandFlushes DEF Main, Enable, EnableSync
<1>4. CASE Strings
  BY <1>1, <1>4 DEF Strings, Clear, Fill, Refill
<1>5. CASE Stub
  BY <1>1, <1>5, LandFlushes DEF Stub, WriteTable, WriteMarker, WriteStub, StubSync
<1>6. CASE StubBack
  BY <1>1, <1>6, LandFlushes
     DEF StubBack, RestoreStub, RestoreStubSync, RestoreTable, RestoreMarker
<1> QED BY <1>3, <1>4, <1>5, <1>6

\* A compromised patcher changes nothing; it became so by a failure.
LEMMA FrozenWhenCompromised ==
    ASSUME TypeOK, Step, pc # "rest", compromised'
    PROVE  UNCHANGED image /\ (compromised \/ faults' = faults + 1)
<1>1. \A s, c, ok : MemW(s, c, ok) /\ compromised => UNCHANGED image
  BY DEF MemW
<1>2. \A S, ok : Flush(S, ok) => UNCHANGED image /\ (compromised \/ faults' = faults + 1)
  BY DEF Flush, image, Fault
<1>3. CASE Begin \/ Resolve \/ Preflight \/ Snapshot \/ Verify \/ Crash \/ Main
  BY <1>2, <1>3 DEF Begin, Resolve, Preflight, Snapshot, Verify, Crash, Main, image, process
<1>4. CASE ApplySite \/ SyncSite \/ WriteAgain \/ Undo \/ UndoSync
  BY <1>1, <1>2, <1>4 DEF ApplySite, SyncSite, WriteAgain, Undo, UndoSync
<1>5. CASE Enable \/ EnableSync \/ RestoreFunc \/ RestoreFuncSync \/ RestoreCave
  BY <1>1, <1>2, <1>5 DEF Enable, EnableSync, RestoreFunc, RestoreFuncSync, RestoreCave, process
<1>6. CASE Strings \/ Stub \/ StubBack
  BY <1>1, <1>2, <1>6
     DEF Strings, Clear, Fill, Refill, Stub, WriteTable, WriteMarker, WriteStub, StubSync,
         StubBack, RestoreStub, RestoreStubSync, RestoreTable, RestoreMarker, process
<1> QED BY <1>3, <1>4, <1>5, <1>6 DEF Step, Apply, Rollback

\* Failures and kills are not forgotten.
LEMMA BoundedBefore == TypeOK /\ Step /\ Bounded' => Bounded
<1> SUFFICES ASSUME TypeOK, Step, Bounded' PROVE Bounded
  OBVIOUS
<1>1. faults' = faults \/ faults' = faults + 1
  BY FaultsGrow
<1>2. crashes' = crashes \/ crashes' = crashes + 1
  BY DEF Step, Begin, Resolve, Preflight, Snapshot, Apply, ApplySite, SyncSite, WriteAgain,
         Main, Enable, EnableSync, Strings, Clear, Fill, Refill, Stub, WriteTable,
         WriteMarker, WriteStub, StubSync, StubBack, RestoreStub, RestoreStubSync,
         RestoreTable, RestoreMarker, Verify, Rollback, RestoreFunc, RestoreFuncSync,
         RestoreCave, Undo, UndoSync, Crash
<1> QED BY <1>1, <1>2 DEF Bounded, TypeOK

\* Where branches land, the snapshots taken do too.
LEMMA SnapshotLands == ASSUME AllSeen, Land, before' = mem PROVE BeforeLands'
<1>1. \A s \in Aux : mem[s] \in fetch[s]
  BY UsersAreCode DEF AllSeen
<1>2. \A s \in Aux : mem[s] \in Branch => MayBranch(s)
  BY <1>1 DEF MayBranch, Branch
<1>3. \A t \in Aux : Solid(t) => mem[t] = "patched"
  BY <1>1 DEF Solid
<1> QED BY <1>2, <1>3, Targets DEF Land, BeforeLands

\* A run that succeeded, and one that restored all of it, leave no branch
\* astray.
LEMMA LandWhenKnown ==
    ASSUME UNCHANGED <<req, before>>,
           \/ mem' = Installed(before, req) /\ \A s \in Aux : fetch'[s] = {mem'[s]}
           \/ BeforeLands /\ \A s \in Aux : fetch'[s] = {before[s]}
    PROVE  Land'
<1>1. CASE mem' = Installed(before, req) /\ \A s \in Aux : fetch'[s] = {mem'[s]}
  BY <1>1, Targets DEF Land, Solid
<1>2. CASE BeforeLands /\ \A s \in Aux : fetch'[s] = {before[s]}
  <2>1. \A s \in Aux : MayBranch(s)' => before[s] \in Branch
    BY <1>2 DEF MayBranch, Branch
  <2> QED BY <1>2, <2>1, Targets DEF Land, BeforeLands, Solid
<1> QED BY <1>1, <1>2

\* However a run ends, its branches land.
LEMMA LandAtRest ==
    ASSUME TypeOK, RunInv', FaultInv, FaultInv', Step, pc # "rest", pc' = "rest",
           Bounded, Bounded', pc \in Early \/ faults = 0 \/ compromised => Land, BeforeLands
    PROVE  Land'
<1> USE DEF Goto
<1>1. UNCHANGED image /\ Land => Land'
  BY LandFetch DEF image
<1>2. CASE Resolve \/ Snapshot
  BY <1>1, <1>2 DEF Resolve, Snapshot, Early
<1>3. CASE Crash
  <2>1. faults = 0
    BY <1>3 DEF Crash, Bounded, TypeOK
  <2> QED BY <1>1, <1>3, <2>1 DEF Crash
<1>4. CASE Verify
  <2>1. result'.rc = 0
    BY <1>4 DEF Verify, Exit
  <2>2. /\ mem' = Installed(before, req)'
        /\ \A s \in Aux : fetch'[s] = {mem'[s]}
    BY <1>4, <2>1, UsersAreCode, SiteKinds DEF RunInv, SuccessIsComplete
  <2>3. UNCHANGED <<req, before>>
    BY <1>4 DEF Verify
  <2>4. mem' = Installed(before, req)
    BY <2>2, <2>3 DEF Installed
  <2> QED BY <2>2, <2>3, <2>4, LandWhenKnown
<1>5. CASE Undo \/ UndoSync
  <2>1. UNCHANGED <<req, before>> /\ result'.rollback \in {"OK", "FAIL"}
    BY <1>5 DEF Undo, UndoSync, UndoNext, Exit
  <2>2. CASE result'.rollback = "OK"
    <3>1. Whole' = Whole
      BY <2>1, SameRequest
    <3>2. \A s \in Aux : fetch'[s] = {before[s]}
      BY <2>1, <2>2, <3>1, UsersAreCode, SiteKinds DEF RunInv, UndoInv, TrueToWord
    <3> QED BY <2>1, <3>2, LandWhenKnown
  <2>3. CASE result'.rollback = "FAIL"
    <3>1. faults' <= 1
      BY DEF Bounded
    <3>2. compromised'
      BY <2>3, <3>1 DEF FaultInv, RollInv
    <3>3. compromised \/ faults = 0
      BY <3>1, <3>2, FrozenWhenCompromised DEF TypeOK
    <3> QED BY <1>1, <3>2, <3>3, FrozenWhenCompromised
  <2> QED BY <2>1, <2>2, <2>3
<1> QED BY <1>2, <1>3, <1>4, <1>5
        DEF Step, Begin, Preflight, Apply, ApplySite, SyncSite, WriteAgain, Advance, Main,
            Enable, EnableSync, Strings, Clear, Fill, Refill, Stub, WriteTable, WriteMarker,
            WriteStub, StubSync, StubBack, RestoreStub, RestoreStubSync, RestoreTable,
            RestoreMarker, Rollback, RestoreFunc, RestoreFuncSync, RestoreCave, AfterFunc

\* Within a run: up to the one failure, or once nothing can be written.
LEMMA LandWithin ==
    ASSUME TypeOK, AllSeen, RunInv, FaultInv, FaultInv', Step, pc' # "rest", Bounded',
           pc \in Early \/ faults = 0 \/ compromised => Land,
           pc' \in Early \/ faults' = 0 \/ compromised'
    PROVE  Land'
<1> USE DEF Goto
<1>1. UNCHANGED image /\ Land => Land'
  BY LandFetch DEF image
<1>2. CASE Begin
  BY <1>1, <1>2 DEF Begin, Early
<1>3. CASE Resolve \/ Preflight \/ Snapshot
  <2>1. Land
    BY <1>3 DEF Resolve, Preflight, Snapshot, Early
  <2> QED BY <1>1, <1>3, <2>1, LandFlushes DEF Resolve, Preflight, Snapshot, image
<1>4. CASE ~(Begin \/ Resolve \/ Preflight \/ Snapshot)
  <2>1. pc # "rest" /\ pc' \notin Early
    BY <1>4 DEF Step, Apply, ApplySite, SyncSite, WriteAgain, Advance, Main,
            Enable, EnableSync, Strings, Clear, Fill, Refill, Stub, WriteTable, WriteMarker,
            WriteStub, StubSync, StubBack, RestoreStub, RestoreStubSync, RestoreTable,
            RestoreMarker, Verify, Rollback, RestoreFunc, RestoreFuncSync, RestoreCave,
            AfterFunc, Undo, UndoSync, UndoNext, Exit, Crash, Early
  <2>2. CASE compromised'
    <3>1. faults' <= 1
      BY DEF Bounded
    <3>2. compromised \/ faults = 0
      BY <2>1, <2>2, <3>1, FrozenWhenCompromised DEF TypeOK
    <3> QED BY <1>1, <2>1, <2>2, <3>2, FrozenWhenCompromised
  <2>3. CASE faults' = 0
    <3>1. faults = 0 /\ Land /\ GoodWork
      BY <2>1, <2>3, FaultsGrow DEF TypeOK, FaultInv, WorkInv
    <3>2. CASE Verify \/ Crash
      BY <1>1, <3>1, <3>2 DEF Verify, Crash
    <3>3. ~Rollback
      BY <3>1 DEF Rollback, RestoreFunc, RestoreFuncSync, RestoreCave, Undo, UndoSync, GoodWork,
                  RollingBack
    <3> QED BY <1>4, <2>3, <3>1, <3>2, <3>3, LandThroughApply, LandThroughMain
            DEF Step, Apply, RunInv
  <2> QED BY <2>1, <2>2, <2>3
<1> QED BY <1>2, <1>3, <1>4

\* Every step keeps branches landing.
LEMMA LandStep ==
    TypeOK /\ AllSeen /\ RunInv /\ RunInv' /\ FaultInv /\ FaultInv' /\ LandInv
        /\ Step /\ UNCHANGED origin => LandInv'
<1> SUFFICES ASSUME TypeOK, AllSeen, RunInv, RunInv', FaultInv, FaultInv', LandInv, Step,
                    UNCHANGED origin, Clean0', Bounded'
             PROVE  /\ (pc' \in Early \/ faults' = 0 \/ compromised') => Land'
                    /\ pc' # "rest" => BeforeLands'
  BY DEF LandInv
<1>1. Clean0 /\ Bounded
  BY BoundedBefore DEF Clean0
<1>2. /\ pc \in Early \/ faults = 0 \/ compromised => Land
      /\ pc # "rest" => BeforeLands
  BY <1>1 DEF LandInv
<1>3. ASSUME pc' = "rest" PROVE Land'
  <2>1. pc # "rest"
    BY <1>3 DEF Step, Begin, Resolve, Preflight, Snapshot, Apply, ApplySite, SyncSite,
            WriteAgain, Main, Enable, EnableSync, Strings, Clear, Fill, Refill, Stub,
            WriteTable, WriteMarker, WriteStub, StubSync, StubBack, RestoreStub,
            RestoreStubSync, RestoreTable, RestoreMarker, Verify, Rollback, RestoreFunc,
            RestoreFuncSync, RestoreCave, Undo, UndoSync, Crash, Goto
  <2> QED BY <1>1, <1>2, <1>3, <2>1, LandAtRest
<1>4. ASSUME pc' # "rest" PROVE BeforeLands'
  <2>1. CASE Begin \/ Snapshot
    <3>1. Land /\ before' = mem
      BY <1>2, <1>4, <2>1 DEF Begin, Snapshot, Exit, Goto, Early
    <3> QED BY <3>1, SnapshotLands
  <2>2. CASE ~(Begin \/ Snapshot)
    <3>1. UNCHANGED before /\ pc # "rest"
      BY <2>2 DEF Step, Resolve, Preflight, Apply, ApplySite, SyncSite,
            WriteAgain, Main, Enable, EnableSync, Strings, Clear, Fill, Refill, Stub,
            WriteTable, WriteMarker, WriteStub, StubSync, StubBack, RestoreStub,
            RestoreStubSync, RestoreTable, RestoreMarker, Verify, Rollback, RestoreFunc,
            RestoreFuncSync, RestoreCave, Undo, UndoSync, Crash, process
    <3> QED BY <1>2, <3>1 DEF BeforeLands
  <2> QED BY <2>1, <2>2
<1> QED BY <1>2, <1>3, <1>4, LandWithin

\* Whenever the HAL runs, whatever was killed and with one failing call, a
\* branch that a CPU may take leads to code that is completely there, when the
\* HAL was untouched or completely patched at first.
THEOREM BranchesAlwaysLand == Spec => []BranchesLand
<1>1. Init => AllSeen /\ LandInv
  <2> SUFFICES ASSUME Init PROVE AllSeen /\ (Clean0 => Land)
    BY DEF Init, LandInv
  <2>1. \A s \in Code : fetch[s] = {mem[s]}
    BY DEF Init
  <2>2. ASSUME Clean0 PROVE \A s \in Aux : mem[s] = IF origin = "fresh" THEN "stock" ELSE "patched"
    <3>1. \A s \in Aux : s \in Site /\ s \notin Cave /\ s # "func"
      BY SiteKinds DEF Cave
    <3>2. mem = Left(origin) /\ origin \in {"fresh", "current"}
      BY <2>2 DEF Init, Clean0
    <3> QED BY <3>1, <3>2 DEF Left
  <2>3. ASSUME Clean0 PROVE Land
    BY <2>1, <2>2, <2>3, Targets, UsersAreCode DEF Land, MayBranch, Solid, Torn
  <2> QED BY <2>1, <2>3 DEF AllSeen
<1>2. TypeOK /\ RunInv /\ RunInv' /\ FaultInv /\ FaultInv' /\ AllSeen /\ LandInv /\ [Next]_vars
      => AllSeen' /\ LandInv'
  <2> SUFFICES ASSUME TypeOK, RunInv, RunInv', FaultInv, FaultInv', AllSeen, LandInv, [Next]_vars
               PROVE  AllSeen' /\ LandInv'
    OBVIOUS
  <2>1. CASE Next
    BY <2>1, SeenStep, LandStep DEF Next
  <2>2. CASE UNCHANGED vars
    <3>1. UNCHANGED <<image, process, pc, faults, crashes, origin>>
      BY <2>2 DEF vars
    <3>2. Land => Land'
      BY <3>1, LandFetch DEF image
    <3>3. BeforeLands => BeforeLands'
      BY <3>1 DEF BeforeLands, process
    <3> QED BY <3>1, <3>2, <3>3 DEF AllSeen, LandInv, Clean0, Bounded, image, process
  <2> QED BY <2>1, <2>2
<1>3. LandInv => BranchesLand
  BY DEF LandInv, Bounded, BranchesLand, Land, Early
<1> QED BY <1>1, <1>2, <1>3, Typing, Running, Coping, PTL DEF Spec
=============================================================================
