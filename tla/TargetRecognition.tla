------------------------- MODULE TargetRecognition -------------------------
(***************************************************************************)
(* How one run of a2h_patch finds what earlier runs have left: the locators *)
(* of src/patcher_v3.c take is_A2H_app for stock, global or whitelist by    *)
(* its bytes, and the cave of the whitelist for ours by the stub's table,   *)
(* two hint files, a marker or zero bytes.  Whatever they do not recognise  *)
(* is refused.  Runs are killed or rolled back between any two writes, the  *)
(* HAL restarts, and other modules hook the function or use the ELF tail.   *)
(*                                                                         *)
(* A function is its four parts: bytes 0-7, 8-15, 16-75 and the rest.  The  *)
(* head of a stub (ADRP, ADD) names the cave whose table it reads.  The     *)
(* auxiliary sites and the caches are the matter of PatchTransaction.       *)
(***************************************************************************)
EXTENDS Integers, Sequences

CONSTANTS
    Slots,      \* MAX_SLOTS
    Name,       \* package names
    Default,    \* the list of fill_default_pkgs
    File,       \* the contents packages.txt may have, as sequences of lines
    Start,      \* the images that the first run may meet
    MaxRuns, MaxTroubles

Slot   == 1 .. Slots
Cave   == {"tail", "other", "bss"}  \* the candidate, another place in the tail, an old one
InTail == {"tail", "other"}
Func   == {"real", "twin"}          \* is_A2H_app, and one with the same 16 bytes, or not
NoFunc == "nowhere"
NoCave == "none"
Blank  == "blank"                   \* a slot or a line without a name
Torn   == "torn"                    \* a slot that is being written
Line   == Name \cup {Blank, "comment", "invalid"}
List   == [Slot -> Name \cup {Blank}]

ASSUME SlotsAssumption == Slots \in Nat \ {0}
ASSUME NameAssumption  == {Blank, Torn, "comment", "invalid"} \cap Name = {}
ASSUME FileAssumption  == File \subseteq Seq(Line) /\ Default \in List
ASSUME StartAssumption == Start \subseteq {"stock", "old stub", "old hook", "moved cave"}
ASSUME BoundsAssumption == {MaxRuns, MaxTroubles} \subseteq Nat

VARIABLES
    fn,       \* the parts of the functions
    data,     \* the strings, pointers and markers of the caves
    hint,     \* config/cave_off and /data/local/tmp/a2h_cave_off
    pc, at,   \* control of the run: the next write, the slot or word it writes
    run,      \* its mode and what it has located
    before,   \* its snapshot
    result,   \* what the last run said
    runs,     \* bounded by MaxRuns
    troubles  \* failures, kills, restarts and other modules, bounded by MaxTroubles

image == <<fn, data>>
vars  == <<image, hint, pc, at, run, before, result, runs, troubles>>

Heads == {"stock", "global", "jump", "foreign"} \cup Cave
Mids  == {"stock", "nops", "stub", "ours", "foreign"}
Code == [head : Heads, mid : Mids, rest : {"stock", "stub", "foreign"}, body : {"stock", "foreign"}]
Data == [str  : [Slot -> Name \cup {Blank, Torn}], ptr : [Slot -> {"null", "set"}],
         mark : {"zero", "half", "mark", "foreign"}]

Stock == [head |-> "stock", mid |-> "stock", rest |-> "stock", body |-> "stock"]
Stub(c) == [head |-> c, mid |-> "stub", rest |-> "stub", body |-> "stock"]
Unlike  == [head |-> "foreign", mid |-> "foreign", rest |-> "foreign", body |-> "foreign"]
Zero == [str |-> [i \in Slot |-> Blank], ptr |-> [i \in Slot |-> "null"], mark |-> "zero"]
Filled(list) == [str  |-> list, ptr |-> [i \in Slot |-> IF list[i] = Blank THEN "null" ELSE "set"],
                 mark |-> "mark"]

\* read_pkgs: the first lines that are no comments, one for a slot.
\* Without a name, only a full table of blank lines means that all are off.
ReadPkgs(file) ==
    LET lines  == SelectSeq(file, LAMBDA l : l # "comment")
        list   == [i \in Slot |-> IF i <= Len(lines) /\ lines[i] \in Name THEN lines[i] ELSE Blank]
        allOff == Len(lines) >= Slots /\ \A i \in Slot : lines[i] = Blank
    IN  IF allOff \/ \E i \in Slot : list[i] # Blank THEN list ELSE Default

-----------------------------------------------------------------------------
(* Ownership of a cave                                                     *)

\* marked_cave_ok
Marked(c) == c \in InTail /\ data[c].mark = "mark"

\* find_unique_marked_cave
UniqueMarked ==
    IF \E c \in InTail : Marked(c) /\ \A d \in InTail : Marked(d) => d = c
    THEN CHOOSE c \in InTail : Marked(c) ELSE NoCave

\* load_cave_hint: the first file that holds a number.
LoadHint == IF hint[1] # NoCave THEN hint[1] ELSE hint[2]

\* exact_whitelist_stub_shape
ExactStub(f) == f.head \in Cave /\ f.mid = "stub" /\ f.rest = "stub"

\* Mutant of Overlay: only the 8-byte entry of earlier releases.
ShortOverlay(f) == f.head = "global" /\ f.mid = "stub" /\ f.rest = "stub"

\* global_stub_suffix_overlay: a global entry of 8 or 16 bytes over a stub.
Overlay(f) == f.head = "global" /\ f.mid \in {"stub", "nops"} /\ f.rest = "stub"

\* Mutant of OwnedSuffix: without a hint nothing is ours.
HintedSuffix(f) == Overlay(f) /\ Marked(LoadHint)

\* owned_global_stub_suffix_ok
OwnedSuffix(f) == Overlay(f) /\ (Marked(LoadHint) \/ UniqueMarked # NoCave)

\* patched_global_tail_ok, patched_global_candidate_ok
GlobalCandidate(f) ==
    /\ f.head = "global" /\ f.mid \in {"stock", "nops", "stub"}
    /\ f.mid = "stub" \/ f.rest = "stub" => OwnedSuffix(f)

\* inspect_stub_table, without a list to compare with.
TableOk(f) ==
    /\ ExactStub(f) /\ f.head \in InTail /\ data[f.head].mark = "mark"
    /\ \A i \in Slot : data[f.head].ptr[i] = "set" => data[f.head].str[i] \in Name

\* Mutant of Mismatch: a slot without a pointer is skipped.
MismatchOfSet(c, list) ==
    \E i \in Slot : data[c].ptr[i] = "set" /\ (list[i] = Blank \/ data[c].str[i] # list[i])

\* content_mismatch
Mismatch(c, list) ==
    \E i \in Slot : IF data[c].ptr[i] = "null" THEN list[i] # Blank
                    ELSE list[i] = Blank \/ data[c].str[i] # list[i]

-----------------------------------------------------------------------------
(* Locating the function                                                   *)

\* Mutant of Recognised: whose hook it is does not matter.
RecognisedHook(f) ==
    /\ f.body = "stock"
    /\ \/ f = Stock \/ OwnedSuffix(f) \/ ExactStub(f)
       \/ ~Overlay(f) /\ GlobalCandidate(f) /\ f.rest = "stock"
       \/ f.head = "jump" /\ f.rest = "stock"

\* resolve_func_by_elf_symbol: the symbol says where it is, its bytes whether
\* they are ours to change.
Recognised(f) ==
    /\ f.body = "stock"
    /\ \/ f = Stock
       \/ OwnedSuffix(f)
       \/ ~Overlay(f) /\ GlobalCandidate(f) /\ f.rest = "stock"
       \/ ExactStub(f)
       \/ f.head = "jump" /\ f.mid = "ours" /\ f.rest = "stock"

StockLike    == {f \in Func : fn[f].head = "stock" /\ fn[f].mid = "stock"}
PatchedLike  == {f \in Func : GlobalCandidate(fn[f]) \/ ExactStub(fn[f])}
TheOnly(set) == IF \E f \in set : set = {f} THEN CHOOSE f \in set : TRUE ELSE NoFunc

\* Mutant of Scanned: a single stock prologue wins.
ScannedStockFirst == TheOnly(IF \E f \in StockLike : StockLike = {f} THEN StockLike ELSE PatchedLike)

\* scan_func_by_sig: the only one that looks stock, when none looks patched,
\* or the only one that is patched.
Scanned == TheOnly(StockLike \cup PatchedLike)

\* locate_targets: a symbol that is rejected forbids the scan.
Located(by) ==
    IF by = "scan" THEN Scanned
    ELSE IF Recognised(fn["real"]) THEN "real" ELSE NoFunc

\* g_func_capacity: a scan vouches for the bytes it has compared.
Capacity(by, f) ==
    IF by = "symbol" \/ Overlay(f) \/ ExactStub(f) THEN 76 ELSE 16

\* Mutants of CaveFor: wherever the stub's table is; no look for the marker.
CaveAnywhere(f) == IF ExactStub(f) THEN f.head ELSE IF data["tail"] = Zero THEN "tail" ELSE NoCave
CaveByHint(f) ==
    CASE ExactStub(f) /\ f.head \in InTail -> f.head
      [] ~(ExactStub(f) /\ f.head \in InTail) /\ Marked(LoadHint) -> LoadHint
      [] OTHER -> IF data["tail"] = Zero THEN "tail" ELSE NoCave

\* setup_custom_cave: the stub's own cave, a hint that the marker confirms,
\* the only marked cave, or zero bytes at the candidate.
CaveFor(f) ==
    CASE ExactStub(f) /\ f.head \in InTail -> f.head
      [] ~(ExactStub(f) /\ f.head \in InTail) /\ Marked(LoadHint) -> LoadHint
      [] OTHER -> IF UniqueMarked # NoCave THEN UniqueMarked
                  ELSE IF data["tail"] = Zero THEN "tail" ELSE NoCave

-----------------------------------------------------------------------------
(* A run                                                                   *)

Nothing == [ask |-> "nothing", rc |-> 0, by |-> "symbol", f |-> NoFunc, list |-> Default]
NoRun   == [mode |-> "global", by |-> "symbol", f |-> NoFunc, cave |-> NoCave,
            list |-> Default, undo |-> <<>>]
Ways    == {"symbol", "scan"}

Goto(label, n) == pc' = label /\ at' = n

Exit(ask, rc, by, f, list) ==
    /\ Goto("idle", 1) /\ run' = NoRun /\ before' = image
    /\ result' = [ask |-> ask, rc |-> rc, by |-> by, f |-> f, list |-> list]

\* Nothing is written when the entry is there, its marker included.
GlobalDone(f) == f.head = "global" /\ f.mid = "nops"

\* Everything up to the first write: locate, capacity, cave, snapshot.
Begin(mode, by, file) ==
    LET f    == Located(by)
        cave == CaveFor(fn[f])
        list == ReadPkgs(file)
        refused == \/ f = NoFunc
                   \/ mode = "whitelist" /\ (Capacity(by, fn[f]) < 76 \/ cave = NoCave)
    IN  /\ pc = "idle" /\ runs < MaxRuns /\ runs' = runs + 1
        /\ IF refused \/ (mode = "global" /\ GlobalDone(fn[f]))
           THEN Exit(mode, IF refused THEN 2 ELSE 0, by, f, list)
           ELSE /\ run' = [mode |-> mode, by |-> by, f |-> f,
                           cave |-> IF mode = "global" THEN NoCave ELSE cave,
                           list |-> list, undo |-> <<>>]
                /\ Goto(IF mode = "global" THEN "head" ELSE "clear", 1)
                /\ before' = image /\ result' = Nothing
        /\ UNCHANGED <<image, hint, troubles>>

\* The exit status of --check and --status, which only read.
Check(mode, by, list) ==
    LET f == Located(by)
    IN  IF f = NoFunc THEN 2
        ELSE IF IF mode = "global" THEN fn[f].head = "global"
                ELSE TableOk(fn[f]) /\ ~Mismatch(fn[f].head, list)
        THEN 0 ELSE 1

Writing == UNCHANGED <<hint, run, before, result, runs, troubles>>
Trouble == troubles < MaxTroubles /\ troubles' = troubles + 1 /\ UNCHANGED runs

\* apply_strings: a slot is cleared and then filled.
Clear ==
    /\ pc = "clear" /\ Goto("fill", at)
    /\ data' = [data EXCEPT ![run.cave].str[at] = Torn]
    /\ Writing /\ UNCHANGED fn

Fill ==
    /\ pc = "fill"
    /\ data' = [data EXCEPT ![run.cave].str[at] = run.list[at]]
    /\ IF at < Slots THEN Goto("clear", at + 1) ELSE Goto("table", 1)
    /\ Writing /\ UNCHANGED fn

\* write_whitelist_stub_code: a pointer for every slot with a string, the
\* marker in two words, and the code.  (The second pass writes the same.)
WriteTable ==
    /\ pc = "table"
    /\ data' = [data EXCEPT ![run.cave].ptr[at] =
                    IF data[run.cave].str[at] = Blank THEN "null" ELSE "set"]
    /\ IF at < Slots THEN Goto("table", at + 1) ELSE Goto("mark", 1)
    /\ Writing /\ UNCHANGED fn

WriteMarker ==
    /\ pc = "mark"
    /\ data' = [data EXCEPT ![run.cave].mark =
                    IF at = 1 /\ data[run.cave].mark # "mark" THEN "half" ELSE "mark"]
    /\ IF at = 1 THEN Goto("mark", 2) ELSE Goto("head", 1)
    /\ Writing /\ UNCHANGED fn

WriteHead ==
    /\ pc = "head" /\ Goto("mid", 1)
    /\ fn' = [fn EXCEPT ![run.f].head = IF run.mode = "global" THEN "global" ELSE run.cave]
    /\ Writing /\ UNCHANGED data

WriteMid ==
    /\ pc = "mid"
    /\ fn' = [fn EXCEPT ![run.f].mid = IF run.mode = "global" THEN "nops" ELSE "stub"]
    /\ Goto(IF run.mode = "global" THEN "verify" ELSE "rest", 1)
    /\ Writing /\ UNCHANGED data

WriteRest ==
    /\ pc = "rest" /\ Goto("verify", 1)
    /\ fn' = [fn EXCEPT ![run.f].rest = "stub"]
    /\ Writing /\ UNCHANGED data

\* Everything has been written twice and is read back.
Verify ==
    /\ pc = "verify" /\ UNCHANGED <<image, hint, runs, troubles>>
    /\ \/ run.mode = "whitelist" /\ Goto("hint", 1) /\ UNCHANGED <<run, before, result>>
       \/ run.mode = "global" /\ Exit("global", 0, run.by, run.f, run.list)

\* save_cave_hint: two files, each truncated and written, or not opened.
SaveHint ==
    /\ pc = "hint"
    /\ LET file == (at + 1) \div 2
       IN  \/ hint' = [hint EXCEPT ![file] = IF at % 2 = 1 THEN NoCave ELSE run.cave]
           \/ UNCHANGED hint
    /\ \/ at < 4 /\ Goto("hint", at + 1) /\ UNCHANGED <<run, before, result>>
       \/ at = 4 /\ Exit("whitelist", 0, run.by, run.f, run.list)
    /\ UNCHANGED <<image, runs, troubles>>

-----------------------------------------------------------------------------
(* What goes wrong                                                         *)

\* A call fails.  The function is put back first, then the cave: in the order
\* of its addresses, or after the inner rollback of the stub.  (What a rollback
\* leaves whose calls fail too is the matter of PatchTransaction.)
Fail ==
    /\ pc \in {"clear", "fill", "table", "mark", "head", "mid", "rest", "verify"}
    /\ Goto("unhead", 1)
    /\ \E order \in {<<"str", "mark", "ptr">>, <<"ptr", "mark", "str">>} :
          run' = [run EXCEPT !.undo = order]
    /\ Trouble /\ UNCHANGED <<image, hint, before, result>>

UndoHead ==
    /\ pc = "unhead" /\ Goto("unmid", 1)
    /\ fn' = [fn EXCEPT ![run.f].head = before[1][run.f].head]
    /\ Writing /\ UNCHANGED data

UndoMid ==
    /\ pc = "unmid" /\ Goto("unrest", 1)
    /\ fn' = [fn EXCEPT ![run.f].mid = before[1][run.f].mid]
    /\ Writing /\ UNCHANGED data

\* A global run has neither changed the rest nor a cave.
UndoRest ==
    /\ pc = "unrest" /\ UNCHANGED <<data, hint, runs, troubles>>
    /\ \/ /\ run.mode = "whitelist" /\ Goto("uncave", 1)
          /\ fn' = [fn EXCEPT ![run.f].rest = before[1][run.f].rest]
          /\ UNCHANGED <<run, before, result>>
       \/ /\ run.mode = "global" /\ Exit("global", 1, run.by, run.f, run.list)
          /\ UNCHANGED fn

UndoCave ==
    /\ pc = "uncave"
    /\ LET old == before[2][run.cave]
       IN  \/ run.undo[at] = "str"  /\ data' = [data EXCEPT ![run.cave].str  = old.str]
           \/ run.undo[at] = "mark" /\ data' = [data EXCEPT ![run.cave].mark = old.mark]
           \/ run.undo[at] = "ptr"  /\ data' = [data EXCEPT ![run.cave].ptr  = old.ptr]
    /\ \/ at < 3 /\ Goto("uncave", at + 1) /\ UNCHANGED <<run, before, result>>
       \/ /\ at = 3 /\ Goto("idle", 1) /\ run' = NoRun /\ before' = <<fn, data'>>
          /\ result' = [ask |-> "whitelist", rc |-> 1, by |-> run.by, f |-> run.f,
                        list |-> run.list]
    /\ UNCHANGED <<fn, hint, runs, troubles>>

\* The patcher is killed and the HAL runs on.
Kill ==
    /\ pc # "idle" /\ Goto("idle", 1) /\ Trouble
    /\ run' = NoRun /\ before' = image /\ result' = Nothing
    /\ UNCHANGED <<image, hint>>

Outside(new) ==
    /\ pc = "idle" /\ Trouble /\ before' = new /\ result' = Nothing
    /\ UNCHANGED <<hint, pc, at, run>>

\* Another module hooks the function with a jump, or changes it further on.
Hook ==
    /\ \/ fn' = [fn EXCEPT !["real"].head = "jump", !["real"].mid = "foreign"]
       \/ fn' = [fn EXCEPT !["real"].rest = "foreign"]
       \/ fn' = [fn EXCEPT !["real"].body = "foreign"]
    /\ UNCHANGED data /\ Outside(<<fn', data>>)

\* Somebody else uses a place of the ELF tail that is still zero.
UseTail ==
    /\ \E c \in InTail : data[c] = Zero /\ data' = [data EXCEPT ![c].mark = "foreign"]
    /\ UNCHANGED fn /\ Outside(<<fn, data'>>)

\* The HAL starts again, with its memory as the file has it.
Restart ==
    /\ fn' = [f \in Func |-> IF f = "twin" /\ fn[f].head = "foreign" THEN Unlike ELSE Stock]
    /\ data' = [c \in Cave |-> Zero]
    /\ Outside(<<fn', data'>>)

-----------------------------------------------------------------------------
\* A HAL that is untouched, runs the matcher of a release that kept its table
\* in .bss or elsewhere in the tail, or the hook that is no longer shipped.
Init ==
    /\ \E start \in Start, twin \in {Stock, Unlike} :
          LET cave == CASE start = "old stub" -> "bss" [] start = "moved cave" -> "other"
                        [] OTHER -> NoCave
          IN  /\ fn = [f \in Func |->
                    IF f = "twin" THEN twin
                    ELSE IF cave # NoCave THEN Stub(cave)
                    ELSE IF start = "old hook" THEN [Stock EXCEPT !.head = "jump", !.mid = "ours"]
                    ELSE Stock]
              /\ data = [c \in Cave |-> IF c = cave THEN Filled(Default) ELSE Zero]
    /\ \E old \in Cave \cup {NoCave} : hint = [i \in {1, 2} |-> old]
    /\ pc = "idle" /\ at = 1 /\ run = NoRun /\ before = image /\ result = Nothing
    /\ runs = 0 /\ troubles = 0

Next ==
    \/ \E mode \in {"global", "whitelist"}, by \in Ways, file \in File :
          Begin(mode, by, file)
    \/ Clear \/ Fill \/ WriteTable \/ WriteMarker
    \/ WriteHead \/ WriteMid \/ WriteRest \/ Verify \/ SaveHint
    \/ Fail \/ UndoHead \/ UndoMid \/ UndoRest \/ UndoCave
    \/ Kill \/ Hook \/ UseTail \/ Restart

Spec == Init /\ [][Next]_vars

-----------------------------------------------------------------------------
(* Properties                                                              *)

\* The functions and caves hold recognised parts; a run knows its function.
TypeOK ==
    /\ fn \in [Func -> Code] /\ data \in [Cave -> Data]
    /\ hint \in [{1, 2} -> Cave \cup {NoCave}]
    /\ at \in Nat \ {0}
    /\ run.f \in Func \cup {NoFunc} /\ run.cave \in InTail \cup {NoCave} /\ run.list \in List
    /\ pc # "idle" => run.f \in Func
    /\ pc \in {"clear", "fill", "table", "mark", "uncave"} => run.cave \in InTail

\* What the function returns TRUE for: what it was written for, every package,
\* the packages its table points to, or something that nobody can tell.
Answers(f) ==
    IF f.head = "global" THEN [kind |-> "all", names |-> {}]
    ELSE IF ExactStub(f)
    THEN [kind  |-> "listed",
          names |-> {data[f.head].str[i] : i \in {j \in Slot : data[f.head].ptr[j] = "set"}}]
    ELSE [kind  |-> IF f.head = "stock" /\ f.mid = "stock" THEN "stock" ELSE "unknown",
          names |-> {}]

Asked(mode, list) ==
    IF mode = "global" THEN [kind |-> "all", names |-> {}]
    ELSE [kind |-> "listed", names |-> {list[i] : i \in Slot} \ {Blank}]

\* When a run (patcher_v3.c:6667) or --check (:6612) says that all is well,
\* the function answers for exactly what was asked for, whatever has been
\* killed, half-written, left over or recovered before.
SuccessIsTrue ==
    /\ result.rc = 0 /\ result.ask # "nothing" =>
          Answers(fn[result.f]) = Asked(result.ask, result.list)
    /\ \A mode \in {"global", "whitelist"}, by \in Ways, list \in {ReadPkgs(file) : file \in File} :
          Check(mode, by, list) = 0 => Answers(fn[Located(by)]) = Asked(mode, list)

\* A global entry over a stub whose cave nothing proves to be ours.
Orphan(f) == Overlay(f) /\ ~OwnedSuffix(f)

\* After a successful run the next one finds the function the same way again
\* (locate_targets, :5916), and --check agrees with what was just applied
\* (:6612).  Not so when the run wrote the global entry over an old stub.
SuccessIsSeen ==
    result.ask \in {"global", "whitelist"} /\ result.rc = 0 /\ ~Orphan(fn[result.f]) =>
        /\ Located(result.by) = result.f
        /\ Check(result.ask, result.by, result.list) = 0

\* However often runs are killed, rolled back or lose their hints, the tail
\* never holds two marked caves, which find_unique_marked_cave (:2439) could
\* not tell apart.
OneMarkedCave == \A c, d \in InTail : Marked(c) /\ Marked(d) => c = d

CaveStep == pc \in {"clear", "fill", "table", "mark"}
CodeStep == pc \in {"head", "mid", "rest", "verify"}

\* A run that is killed where it stands leaves what the next run finds again:
\* always while it fills the cave and once a stub is complete; in between, if
\* it turns a stub into another one, or writes the global entry over anything
\* but a hook, a stub whose cave has no marker, or one that a rollback has
\* left half undone.  It leaves a cave that the next one can use, if that was
\* ours before or has its marker.  (setup_custom_cave :5989,
\* global_stub_suffix_overlay :2527.)
KilledIsRecovered ==
    LET old     == before[1][run.f]
        proved  == ExactStub(old) => old.head \in InTail /\ before[2][old.head].mark = "mark"
        undone  == old.mid = "stock" => old.rest # "stub"
        found   == \/ CaveStep \/ (run.mode = "whitelist" /\ pc \in {"verify", "hint"})
                   \/ CodeStep /\ run.mode = "whitelist" /\ ExactStub(old)
                   \/ CodeStep /\ run.mode = "global" /\ old.head # "jump" /\ proved /\ undone
        usable  == \/ CodeStep \/ pc = "hint"
                   \/ before[2][run.cave].mark = "mark"
    IN  run.f # NoFunc =>
            /\ found => Located(run.by) = run.f
            /\ run.mode = "whitelist" /\ usable => CaveFor(fn[run.f]) # NoCave

\* A run never changes bytes that somebody else has put there, nor .bss, which
\* the HAL uses itself (resolve_func_by_elf_symbol :2930, memory_is_zero :5899).
ForeignIntact ==
    [][ pc # "idle" =>
          /\ data'["bss"] = data["bss"]
          /\ \A c \in Cave : data[c].mark = "foreign" => data'[c] = data[c]
          /\ \A f \in Func :
                /\ fn[f].mid = "foreign" => fn'[f].head = fn[f].head /\ fn'[f].mid = "foreign"
                /\ fn[f].rest = "foreign" => fn'[f].rest = "foreign"
                /\ fn'[f].body = fn[f].body ]_vars

\* A function that only looks like is_A2H_app is written by nobody who has the
\* symbol, nor by a scan that could have recognised the right one
\* (scan_func_by_sig :5675).
TwinIntact ==
    [][ run'.f = "twin" /\ run'.f # run.f =>
          run'.by = "scan" /\ "real" \notin StockLike \cup PatchedLike ]_vars
=============================================================================
