-------------------------- MODULE PatchTransaction --------------------------
(***************************************************************************)
(* The write transaction of src/patcher_v3.c: one run of a2h_patch freezes *)
(* the audio HAL, checks every patch site, brings the auxiliary sites and  *)
(* then the main function to the wanted code, each write followed by cache *)
(* maintenance, verifies, and rolls everything back when a step fails.     *)
(*                                                                         *)
(* A site's bytes are one value, named as the OVERLAY_ states of the code. *)
(* mem is what a debugger reads; fetch is what some CPU may still execute: *)
(* a write adds to it, successful maintenance leaves what is in memory.    *)
(* A patcher that is killed leaves both as they are and the HAL runs on.   *)
(***************************************************************************)
EXTENDS Integers, Sequences

CONSTANTS
    List,           \* package lists of the whitelist
    Request,        \* what the runs ask for
    Start,          \* the generations that the first run may meet
    MayCompromise,  \* may a failing cache helper leave a thread unrestored?
    MaxRuns, MaxFaults, MaxCrashes

Torn == "torn"      \* a write that was not completed
None == "none"      \* zero bytes of the cave

ASSUME RequestAssumption ==
    Request \subseteq [mode : {"global", "whitelist"}, relaxed : BOOLEAN, list : List]
ASSUME ListAssumption == None \notin List /\ Torn \notin List
ASSUME StartAssumption ==
    Start \subseteq {"fresh", "current", "previous", "moved", "historical"}
ASSUME BoundsAssumption ==
    MayCompromise \in BOOLEAN /\ {MaxRuns, MaxFaults, MaxCrashes} \subseteq Nat

\* Mutant of ApplyOrder: the branch into the update region comes before it.
ClearBeforeUpdate ==
    <<"helper", "idle_count", "policy", "idle_clear", "update", "app_policy",
      "stream_ref", "output_pool", "event0", "event1", "event2", "stream_open">>

\* The auxiliary sites, in the order apply_auxiliary_targets visits them.
ApplyOrder ==
    <<"helper", "idle_count", "update", "app_policy", "policy", "idle_clear",
      "stream_ref", "output_pool", "event0", "event1", "event2", "stream_open">>
\* The order of auxiliary_transaction_restore.
UndoOrder ==
    <<"stream_open", "policy", "update", "idle_clear", "idle_count",
      "output_pool", "event0", "event1", "event2", "stream_ref", "helper",
      "app_policy">>
Aux  == {ApplyOrder[i] : i \in 1 .. 12}
Cave == {"strings", "table", "marker"}    \* data behind the whitelist stub
Code == Aux \cup {"func"}
Site == Code \cup Cave
\* One instruction is written entirely or not at all.
Words == {"idle_count", "idle_clear", "output_pool", "event2", "stream_open"}

Event == {"event0", "event1", "event2"}

\* What auxiliary_cache_preflight synchronises at once: a span of the
\* function covers the sites between its first and its last one.
Spans == <<{"func"}, {"update", "app_policy"}, {"helper"},
           {"idle_count", "idle_clear", "policy"}, Event \cup {"stream_ref"},
           {"output_pool"}, {"stream_open"}>>

\* Sites whose new code branches into the code of another site.
HelperUsers == {"idle_count", "update", "policy", "stream_open"}
Target(s) ==
    CASE s \in HelperUsers    -> {"helper"}
      [] s = "idle_clear"     -> {"update"}
      [] s = "output_pool"    -> {"stream_ref"}
      [] OTHER                -> {}

VARIABLES
    mem, fetch,
    pc, at, pass, \* control: the step, the site in an order, first or second write
    req,          \* what this run is asked for
    fine,         \* have all preflight synchronisations succeeded?
    ready,        \* *_ready: auxiliary sites that are as wanted
    main,         \* has the main function been written and synchronised twice?
    before,       \* the outer snapshots of the transaction
    inner,        \* the snapshot of write_whitelist_stub_code
    undone,       \* sites whose snapshot has been written back
    compromised,  \* g_trace_compromised
    result,       \* exit status of the last run, and what it says of its rollback
    runs, faults, crashes,
    origin        \* the generation that was there at first (never changes)

image   == <<mem, fetch>>
process == <<at, pass, req, fine, ready, main, before, inner, undone, compromised>>
vars    == <<image, process, pc, result, runs, faults, crashes, origin>>

Overlay == {"stock", "patched", "alternate", "alternate2", "alternate3", "legacy", Torn}
Func    == {"stock", "global", "unmarked", "stub", Torn}
Content == Overlay \cup Func \cup List \cup {None, "mark"}

Label == {"rest", "resolve", "preflight", "snapshot", "apply", "sync", "main",
          "enable", "enablesync", "clear", "fill", "refill", "table", "marker",
          "code", "stubsync", "uncode", "uncodesync", "untable", "unmarker",
          "verify", "unfunc", "unfuncsync", "uncave", "undo", "undosync"}

-----------------------------------------------------------------------------
Goto(label) == pc' = label
Fault == faults < MaxFaults /\ faults' = faults + 1

Image(new) ==
    /\ mem' = new
    /\ fetch' = [s \in Code |-> fetch[s] \cup {new[s]}]

\* What a write of c that stops on its way leaves, besides all or nothing.
Partial(s, c) == IF s \in Words \/ mem[s] = c THEN {} ELSE {Torn}

\* mem_w and the comparison after it.  Every write of a compromised patcher
\* fails; another one may fail before, within or after it.
MemW(s, c, ok) ==
    \/ ok /\ ~compromised /\ Image([mem EXCEPT ![s] = c]) /\ UNCHANGED faults
    \/ ~ok /\ compromised /\ UNCHANGED <<image, faults>>
    \/ /\ ~ok /\ ~compromised /\ Fault
       /\ \E x \in {mem[s], c} \cup Partial(s, c) : Image([mem EXCEPT ![s] = x])

\* remote_icache_flush over the sites of S, on every CPU.  It can fail, and
\* can fail so that a thread keeps foreign registers or a foreign affinity.
Flush(S, ok) ==
    \/ /\ ok /\ ~compromised
       /\ fetch' = [s \in Code |-> IF s \in S THEN {mem[s]} ELSE fetch[s]]
       /\ UNCHANGED <<mem, faults, compromised>>
    \/ ~ok /\ compromised /\ UNCHANGED <<image, faults, compromised>>
    \/ ~ok /\ ~compromised /\ Fault /\ compromised' \in {FALSE, MayCompromise}
       /\ UNCHANGED image

\* The process ends; the threads of the HAL are detached and run on.
Exit(rc, rollback) ==
    Goto("rest") /\ result' = [rc |-> rc, rollback |-> rollback]

-----------------------------------------------------------------------------
(* Which images the patcher takes for its own.                             *)

\* coherent_concurrent_generation
Generation(m) ==
    LET owned  == m["policy"] \in {"patched", "alternate"}
        events == \A e \in Event : m[e] = "patched"
    IN  \/ /\ m["update"] = "patched" /\ m["helper"] = "patched"
           /\ m["stream_open"] = "patched" /\ m["idle_count"] = "patched"
           /\ events /\ owned
        \/ /\ m["update"] = "patched"
           /\ m["helper"] \in {"alternate", "legacy", "alternate3"}
           /\ m["stream_open"] = "stock" /\ m["idle_count"] = "patched"
           /\ events /\ owned
        \/ /\ m["update"] = "patched" /\ m["helper"] = "alternate2"
           /\ m["stream_open"] = "stock" /\ m["idle_count"] = "stock"
           /\ m["event0"] = "patched" /\ m["event1"] \in {"stock", "patched"}
           /\ m["event2"] = "patched" /\ owned
        \/ /\ m["update"] # "patched" /\ m["helper"] = "stock"
           /\ m["stream_open"] = "stock" /\ m["idle_count"] = "stock"
           /\ m["event0"] # "patched" /\ m["event1"] = "stock"
           /\ m["event2"] \in {"stock", "patched"}
           /\ m["policy"] \in {"stock", "legacy"}

\* resolve_auxiliary_targets: no foreign bytes, and one release's whole work.
Coherent(m) ==
    LET handoff == m["stream_ref"] \in {"patched", "alternate", "alternate2"}
        output  == m["output_pool"] \in {"patched", "alternate"}
    IN  /\ \A s \in Aux : m[s] # Torn
        /\ handoff = output
        /\ (m["update"] \in {"patched", "alternate2"}) = (m["idle_clear"] = "patched")
        /\ Generation(m)
        /\ handoff = (m["app_policy"] \in {"patched", "alternate"})

\* setup_custom_cave: owned by its stub or its marker, or still zero.
CaveUsable(m) ==
    m["func"] = "stub" \/ m["marker"] = "mark" \/ \A s \in Cave : m[s] = None

-----------------------------------------------------------------------------
Begin ==
    /\ pc = "rest" /\ runs < MaxRuns /\ runs' = runs + 1
    /\ req' \in Request /\ Goto("resolve")
    /\ at' = 1 /\ pass' = 1 /\ fine' = TRUE /\ ready' = {} /\ main' = FALSE
    /\ before' = mem /\ inner' = mem /\ undone' = {} /\ compromised' = FALSE
    /\ UNCHANGED <<image, result, faults, crashes>>

\* trace_attach, locate_targets, resolve_auxiliary_targets, setup_custom_cave:
\* whatever is not recognised ends the run before anything is written.
Resolve ==
    /\ pc = "resolve"
    /\ LET known == /\ Coherent(mem) /\ mem["func"] # Torn
                    /\ req.mode = "whitelist" => CaveUsable(mem)
       IN  \/ known /\ Goto("preflight") /\ UNCHANGED <<result, faults>>
           \/ ~known /\ Exit(2, None) /\ UNCHANGED faults
           \/ known /\ Fault /\ Exit(2, None)
    /\ UNCHANGED <<image, process, runs, crashes>>

\* The global entry is written unless it is there already, marker included.
MainNeeded == req.mode = "whitelist" \/ before["func"] # "global"

\* All synchronisations are tried; the first one only for a main function
\* that will be written.
Preflight ==
    /\ pc = "preflight"
    /\ \/ /\ Spans[at] = {"func"} /\ ~MainNeeded
          /\ UNCHANGED <<image, fine, compromised, faults>>
       \/ /\ Spans[at] # {"func"} \/ MainNeeded
          /\ \E ok \in BOOLEAN : Flush(Spans[at], ok) /\ fine' = (fine /\ ok)
    /\ IF at < Len(Spans) THEN at' = at + 1 /\ UNCHANGED pc
       ELSE at' = 1 /\ Goto("snapshot")
    /\ UNCHANGED <<pass, req, ready, main, before, inner, undone, result, runs, crashes>>

\* auxiliary_transaction_begin and the snapshot of the main function.
Snapshot ==
    /\ pc = "snapshot"
    /\ \/ fine /\ Goto("apply") /\ before' = mem /\ UNCHANGED <<result, faults>>
       \/ ~fine /\ Exit(1, None) /\ UNCHANGED <<before, faults>>
       \/ fine /\ Fault /\ Exit(1, None) /\ UNCHANGED before
    /\ UNCHANGED <<image, at, pass, req, fine, ready, main, inner, undone, compromised,
                   runs, crashes>>

-----------------------------------------------------------------------------
(* apply_auxiliary_targets                                                 *)

Wanted(s) ==
    IF req.relaxed /\ s \in {"app_policy", "policy"} THEN "alternate" ELSE "patched"

\* What must be ready before a site is written, ...
Needs(s) ==
    CASE s \in {"idle_count", "update", "policy"} -> {"helper"}
      [] s = "app_policy"  -> {"update"}
      [] s = "idle_clear"  -> {"helper", "policy"}
      [] s = "stream_ref"  -> {"helper", "policy", "idle_clear"}
      [] s = "output_pool" -> {"stream_ref"}
      [] s = "event0"      -> {"helper", "policy", "idle_clear", "stream_ref", "output_pool"}
      [] s = "event1"      -> {"event0"}
      [] s = "event2"      -> {"event1"}
      [] s = "stream_open" -> {"event2"}
      [] OTHER             -> {}

\* ... and before one that is as wanted is left alone.
SkipNeeds(s) ==
    CASE s = "update" -> {"idle_count"}
      [] s = "policy" -> {"helper", "app_policy"}
      [] OTHER        -> Needs(s)

\* Mutant of Advance: one site too many.
AdvanceTooFar ==
    IF at <= Len(ApplyOrder) THEN at' = at + 1 /\ Goto("apply")
    ELSE at' = 1 /\ Goto("main")

\* On to the next site.
Advance ==
    IF at < Len(ApplyOrder) THEN at' = at + 1 /\ Goto("apply")
    ELSE at' = 1 /\ Goto("main")

\* One site: left alone, passed over because what it needs is not ready, or
\* written (the first write of write_code_twice).
ApplySite ==
    /\ pc = "apply"
    /\ LET s     == ApplyOrder[at]
           there == SkipNeeds(s) \subseteq ready /\ mem[s] = Wanted(s)
       IN  \/ /\ there /\ ready' = ready \cup {s} /\ Advance
              /\ UNCHANGED <<image, pass, faults>>
           \/ /\ ~there /\ ~(Needs(s) \subseteq ready) /\ Advance
              /\ UNCHANGED <<image, pass, ready, faults>>
           \/ /\ ~there /\ Needs(s) \subseteq ready
              /\ \E ok \in BOOLEAN :
                    /\ MemW(s, Wanted(s), ok)
                    /\ IF ok THEN Goto("sync") /\ pass' = 1 /\ UNCHANGED at
                       ELSE Advance /\ UNCHANGED pass
              /\ UNCHANGED ready
    /\ UNCHANGED <<req, fine, main, before, inner, undone, compromised, result, runs,
                   crashes>>

\* The rest of write_code_twice: synchronise, write again, synchronise again.
SyncSite ==
    /\ pc = "sync" /\ pass \in {1, 3}
    /\ \E ok \in BOOLEAN :
          /\ Flush({ApplyOrder[at]}, ok)
          /\ IF ok /\ pass = 1 THEN pass' = 2 /\ UNCHANGED <<pc, at, ready>>
             ELSE /\ ready' = IF ok THEN ready \cup {ApplyOrder[at]} ELSE ready
                  /\ Advance /\ UNCHANGED pass
    /\ UNCHANGED <<req, fine, main, before, inner, undone, result, runs, crashes>>

WriteAgain ==
    /\ pc = "sync" /\ pass = 2
    /\ \E ok \in BOOLEAN :
          /\ MemW(ApplyOrder[at], Wanted(ApplyOrder[at]), ok)
          /\ IF ok THEN pass' = 3 /\ UNCHANGED <<pc, at>> ELSE Advance /\ UNCHANGED pass
    /\ UNCHANGED <<req, fine, ready, main, before, inner, undone, compromised, result,
                   runs, crashes>>

\* verify_auxiliary_targets
AuxVerified == ready = Aux /\ \A s \in Aux : mem[s] = Wanted(s)

\* The main function is left to the end, and alone when a site failed.
Main ==
    /\ pc = "main" /\ pass' = 1
    /\ Goto(IF ~(AuxVerified /\ MainNeeded) THEN "verify"
            ELSE IF req.mode = "whitelist" THEN "clear" ELSE "enable")
    /\ main' = (AuxVerified /\ ~MainNeeded)
    /\ UNCHANGED <<image, at, req, fine, ready, before, inner, undone, compromised,
                   result, runs, faults, crashes>>

-----------------------------------------------------------------------------
(* The main function: the global entry, or the whitelist stub and its cave. *)

\* Global: written and synchronised twice.
Enable ==
    /\ pc = "enable"
    /\ \E ok \in BOOLEAN :
          /\ MemW("func", "global", ok)
          /\ Goto(IF ok THEN "enablesync" ELSE "verify")
    /\ UNCHANGED <<process, result, runs, crashes>>

EnableSync ==
    /\ pc = "enablesync"
    /\ \E ok \in BOOLEAN :
          /\ Flush({"func"}, ok)
          /\ Goto(IF ok /\ pass = 1 THEN "enable" ELSE "verify")
          /\ pass' = 2 /\ main' = (ok /\ pass = 2)
    /\ UNCHANGED <<at, req, fine, ready, before, inner, undone, result, runs, crashes>>

\* apply_strings: every slot is cleared and then filled; a failure puts the
\* slots back.
Clear ==
    /\ pc = "clear"
    /\ \E ok \in BOOLEAN :
          /\ MemW("strings", Torn, ok) /\ Goto(IF ok THEN "fill" ELSE "refill")
    /\ UNCHANGED <<process, result, runs, crashes>>

\* write_whitelist_stub_code takes its own snapshot each time it is called.
Fill ==
    /\ pc = "fill"
    /\ \E ok \in BOOLEAN :
          /\ MemW("strings", req.list, ok) /\ Goto(IF ok THEN "table" ELSE "refill")
    /\ inner' = mem
    /\ UNCHANGED <<at, pass, req, fine, ready, main, before, undone, compromised,
                   result, runs, crashes>>

Refill ==
    /\ pc = "refill" /\ Goto("verify")
    /\ \E ok \in BOOLEAN : MemW("strings", before["strings"], ok)
    /\ UNCHANGED <<process, result, runs, crashes>>

\* The pointer table, the marker and the code, in this order; at counts the
\* parts that have been started.
WriteTable ==
    /\ pc = "table" /\ at' = 1
    /\ \E ok \in BOOLEAN :
          /\ MemW("table", mem["strings"], ok)
          /\ Goto(IF ok THEN "marker" ELSE "untable")
    /\ UNCHANGED <<pass, req, fine, ready, main, before, inner, undone, compromised,
                   result, runs, crashes>>

WriteMarker ==
    /\ pc = "marker" /\ at' = 2
    /\ \E ok \in BOOLEAN :
          /\ MemW("marker", "mark", ok) /\ Goto(IF ok THEN "code" ELSE "untable")
    /\ UNCHANGED <<pass, req, fine, ready, main, before, inner, undone, compromised,
                   result, runs, crashes>>

WriteStub ==
    /\ pc = "code" /\ at' = 3
    /\ \E ok \in BOOLEAN :
          /\ MemW("func", "stub", ok) /\ Goto(IF ok THEN "stubsync" ELSE "uncode")
    /\ UNCHANGED <<pass, req, fine, ready, main, before, inner, undone, compromised,
                   result, runs, crashes>>

\* Its rollback: code first, so that an old stub never sees half a table.
RestoreStub ==
    /\ pc = "uncode" /\ Goto("uncodesync")
    /\ \E ok \in BOOLEAN : MemW("func", inner["func"], ok)
    /\ UNCHANGED <<process, result, runs, crashes>>

RestoreStubSync ==
    /\ pc = "uncodesync" /\ Goto("untable")
    /\ \E ok \in BOOLEAN : Flush({"func"}, ok)
    /\ UNCHANGED <<at, pass, req, fine, ready, main, before, inner, undone, result,
                   runs, crashes>>

RestoreTable ==
    /\ pc = "untable" /\ Goto(IF at > 1 THEN "unmarker" ELSE "verify")
    /\ \E ok \in BOOLEAN : MemW("table", inner["table"], ok)
    /\ UNCHANGED <<process, result, runs, crashes>>

RestoreMarker ==
    /\ pc = "unmarker" /\ Goto("verify")
    /\ \E ok \in BOOLEAN : MemW("marker", inner["marker"], ok)
    /\ UNCHANGED <<process, result, runs, crashes>>

\* Mutant of StubSync: whether it succeeded is not asked.
StubSyncUnchecked ==
    /\ pc = "stubsync"
    /\ \E ok \in BOOLEAN :
          /\ Flush({"func"}, ok)
          /\ Goto(IF ok /\ pass = 1 THEN "table" ELSE "verify")
          /\ pass' = 2 /\ main' = TRUE /\ inner' = mem
    /\ UNCHANGED <<at, req, fine, ready, before, undone, result, runs, crashes>>

\* install_whitelist_stub: the stub is written and synchronised twice.
StubSync ==
    /\ pc = "stubsync"
    /\ \E ok \in BOOLEAN :
          /\ Flush({"func"}, ok)
          /\ Goto(IF ok /\ pass = 1 THEN "table" ELSE "verify")
          /\ pass' = 2 /\ main' = (ok /\ pass = 2) /\ inner' = mem
    /\ UNCHANGED <<at, req, fine, ready, before, undone, result, runs, crashes>>

\* What is read back at the end of a run.
MainVerified ==
    /\ main
    /\ IF req.mode = "global" THEN mem["func"] = "global"
       ELSE /\ mem["func"] = "stub" /\ mem["marker"] = "mark"
            /\ mem["strings"] = req.list /\ mem["table"] = req.list

Verify ==
    /\ pc = "verify" /\ at' = 1
    /\ LET verified == AuxVerified /\ MainVerified
       IN  \/ verified /\ Exit(0, None) /\ UNCHANGED faults
           \/ /\ (~verified /\ UNCHANGED faults) \/ (verified /\ Fault)
              /\ Goto(IF MainNeeded THEN "unfunc" ELSE "undo") /\ UNCHANGED result
    /\ UNCHANGED <<image, pass, req, fine, ready, main, before, inner, undone,
                   compromised, runs, crashes>>

-----------------------------------------------------------------------------
(* Rollback: restore_global_snapshot or whitelist_transaction_restore, then *)
(* auxiliary_transaction_restore.  A part that fails does not stop the rest. *)

\* Mutant of AfterFunc: the cave is forgotten.
AfterFuncForgetsCave == "undo"

AfterFunc == IF req.mode = "whitelist" THEN "uncave" ELSE "undo"

RestoreFunc ==
    /\ pc = "unfunc"
    /\ \E ok \in BOOLEAN :
          /\ MemW("func", before["func"], ok)
          /\ Goto(IF ok THEN "unfuncsync" ELSE AfterFunc)
    /\ UNCHANGED <<process, result, runs, crashes>>

\* Mutant of RestoreFuncSync: the restored function is not synchronised.
RestoreFuncNoSync ==
    /\ pc = "unfuncsync" /\ Goto(AfterFunc) /\ undone' = undone \cup {"func"}
    /\ UNCHANGED <<image, at, pass, req, fine, ready, main, before, inner, compromised,
                   result, runs, faults, crashes>>

RestoreFuncSync ==
    /\ pc = "unfuncsync" /\ Goto(AfterFunc)
    /\ \E ok \in BOOLEAN :
          /\ Flush({"func"}, ok)
          /\ undone' = IF ok THEN undone \cup {"func"} ELSE undone
    /\ UNCHANGED <<at, pass, req, fine, ready, main, before, inner, result, runs, crashes>>

\* The strings, the marker and the table are one write.
RestoreCave ==
    /\ pc = "uncave" /\ Goto("undo")
    /\ \/ /\ ~compromised /\ undone' = undone \cup Cave /\ UNCHANGED faults
          /\ Image([s \in Site |-> IF s \in Cave THEN before[s] ELSE mem[s]])
       \/ compromised /\ UNCHANGED <<image, undone, faults>>
       \/ /\ ~compromised /\ Fault /\ UNCHANGED undone
          /\ \/ UNCHANGED image
             \/ Image([s \in Site |-> IF s \in Cave /\ mem[s] # before[s] THEN Torn ELSE mem[s]])
    /\ UNCHANGED <<at, pass, req, fine, ready, main, before, inner, compromised, result,
                   runs, crashes>>

\* Mutant of Disconnected: the helper is restored whatever the branches are.
DisconnectedOrNot == undone \subseteq Site

\* Every branch into the helper has been disconnected.
Disconnected == HelperUsers \cup {"idle_clear"} \subseteq undone

Whole == Aux \cup (IF ~MainNeeded THEN {} ELSE
                   IF req.mode = "global" THEN {"func"} ELSE {"func"} \cup Cave)

\* Mutant of UndoNext: only the last part decides what is reported.
UndoNextOptimist(done) ==
    /\ undone' = done
    /\ IF at < Len(UndoOrder)
       THEN at' = at + 1 /\ Goto("undo") /\ UNCHANGED result
       ELSE at' = 1 /\ Exit(1, IF UndoOrder[at] \in done THEN "OK" ELSE "FAIL")

\* The site in turn is done with; the run fails after the last one.
UndoNext(done) ==
    /\ undone' = done
    /\ IF at < Len(UndoOrder)
       THEN at' = at + 1 /\ Goto("undo") /\ UNCHANGED result
       ELSE at' = 1 /\ Exit(1, IF done = Whole THEN "OK" ELSE "FAIL")

\* restore_code_snapshot; the helper stays as long as a branch may lead to it.
Undo ==
    /\ pc = "undo"
    /\ LET s == UndoOrder[at]
       IN  \/ /\ s = "helper" /\ ~Disconnected /\ UndoNext(undone)
              /\ UNCHANGED <<image, faults>>
           \/ /\ s # "helper" \/ Disconnected
              /\ \E ok \in BOOLEAN :
                    /\ MemW(s, before[s], ok)
                    /\ \/ ok /\ Goto("undosync") /\ UNCHANGED <<at, undone, result>>
                       \/ ~ok /\ UndoNext(undone)
    /\ UNCHANGED <<pass, req, fine, ready, main, before, inner, compromised, runs,
                   crashes>>

UndoSync ==
    /\ pc = "undosync"
    /\ \E ok \in BOOLEAN :
          /\ Flush({UndoOrder[at]}, ok)
          /\ UndoNext(IF ok THEN undone \cup {UndoOrder[at]} ELSE undone)
    /\ UNCHANGED <<pass, req, fine, ready, main, before, inner, runs, crashes>>

-----------------------------------------------------------------------------
\* The patcher is killed: its tracees are released and run on.
Crash ==
    /\ pc # "rest" /\ crashes < MaxCrashes /\ crashes' = crashes + 1
    /\ Exit(137, None) /\ UNCHANGED <<image, process, runs, faults>>

\* What releases left in a HAL that has been running since: nothing, the
\* current global patch, and three earlier forms of it.
Left(generation) ==
    [s \in Site |->
        IF s \in Cave THEN None ELSE IF generation = "fresh" THEN "stock"
        ELSE IF s = "func" THEN IF generation = "historical" THEN "unmarked" ELSE "global"
        ELSE CASE generation = "current" -> "patched"
               [] generation = "previous" ->
                      IF s = "helper" THEN "legacy"
                      ELSE IF s = "stream_open" THEN "stock" ELSE "patched"
               [] generation = "moved" ->
                      IF s \in {"helper", "stream_ref"} THEN "alternate2"
                      ELSE IF s \in {"stream_open", "idle_count", "event1"} THEN "stock"
                      ELSE "patched"
               [] OTHER ->
                      IF s \in {"update", "stream_ref", "output_pool"} THEN "alternate"
                      ELSE IF s \in {"app_policy", "event2"} THEN "patched" ELSE "stock"]

Init ==
    /\ origin \in Start /\ mem = Left(origin)
    /\ fetch = [s \in Code |-> {mem[s]}]
    /\ pc = "rest" /\ at = 1 /\ pass = 1 /\ req \in Request
    /\ fine = TRUE /\ ready = {} /\ main = FALSE
    /\ before = mem /\ inner = mem /\ undone = {} /\ compromised = FALSE
    /\ result = [rc |-> 2, rollback |-> None]
    /\ runs = 0 /\ faults = 0 /\ crashes = 0

Apply    == ApplySite \/ SyncSite \/ WriteAgain \/ Main \/ Enable \/ EnableSync
Strings  == Clear \/ Fill \/ Refill
Stub     == WriteTable \/ WriteMarker \/ WriteStub \/ StubSync
StubBack == RestoreStub \/ RestoreStubSync \/ RestoreTable \/ RestoreMarker
Rollback == RestoreFunc \/ RestoreFuncSync \/ RestoreCave \/ Undo \/ UndoSync

Step ==
    \/ Begin \/ Resolve \/ Preflight \/ Snapshot
    \/ Apply \/ Strings \/ Stub \/ StubBack \/ Verify \/ Rollback \/ Crash

Next == Step /\ UNCHANGED origin

Spec == Init /\ [][Next]_vars

-----------------------------------------------------------------------------
TypeOK ==
    /\ mem \in [Site -> Content] /\ fetch \in [Code -> SUBSET Content]
    /\ before \in [Site -> Content] /\ inner \in [Site -> Content]
    /\ pc \in Label /\ at \in 1 .. 12 /\ pass \in 1 .. 3 /\ req \in Request
    /\ fine \in BOOLEAN /\ main \in BOOLEAN /\ compromised \in BOOLEAN
    /\ ready \subseteq Aux /\ undone \subseteq Site
    /\ result \in [rc : {0, 1, 2, 137}, rollback : {None, "OK", "FAIL"}]
    /\ runs \in Nat /\ faults \in Nat /\ crashes \in Nat

\* Some CPU may take the new branch at s (or a part of it).
MayBranch(s) == fetch[s] \cap {"patched", Torn} # {}

\* The site t holds its new code, whoever looks.
Solid(t) == fetch[t] = {"patched"}

\* The HAL was untouched or completely patched at first.  (An upgrade rewrites
\* a helper that branches already lead to, and a kill then leaves a part of it.)
Clean0 == origin \in {"fresh", "current"}

\* Whenever the HAL runs, whether patchers were killed anywhere or a call
\* failed, a branch that a CPU may take leads to code that is completely
\* there.  With a second failing call the rollback itself can stop half way,
\* and only the helper's users (below) are then still protected.
BranchesLand ==
    Clean0 /\ pc = "rest" /\ (faults = 0 \/ (faults = 1 /\ crashes = 0)) =>
        \A s \in Aux : MayBranch(s) => \A t \in Target(s) : Solid(t)

\* The comment of auxiliary_transaction_restore: the helper stays in place as
\* long as a branch into it may be live; also when restores fail half way.
HelperOutlivesBranches ==
    Clean0 /\ (\E s \in HelperUsers : MayBranch(s)) => Solid("helper")

Installed(img, r) ==
    [s \in Site |->
        IF s \in Aux
        THEN IF r.relaxed /\ s \in {"app_policy", "policy"} THEN "alternate" ELSE "patched"
        ELSE IF s = "func" THEN IF r.mode = "global" THEN "global" ELSE "stub"
        ELSE IF r.mode = "global" THEN img[s]
        ELSE IF s = "marker" THEN "mark" ELSE r.list]

\* Exit status 0: every site is as asked for, and no CPU can run anything
\* older, whatever happened to earlier runs.  Of a global entry that was there
\* already the run says nothing: it is neither written nor synchronised.
SuccessIsComplete ==
    pc = "rest" /\ result.rc = 0 =>
        /\ mem = Installed(before, req)
        /\ \A s \in Code : fetch[s] = {mem[s]} \/ (s = "func" /\ ~MainNeeded)

\* A failed run whose rollback was OK has changed nothing, in memory or in
\* what a CPU may execute, of what it has touched.  And the rollback copes with
\* any single failing call, of the work or of the rollback before it (a final
\* read that fails after everything was written included), over whatever killed
\* runs left, as long as every borrowed thread was given back.
FailureRestores ==
    pc = "rest" =>
        /\ result.rollback = "OK" =>
              mem = before /\ \A s \in Whole \cap Code : fetch[s] = {before[s]}
        /\ faults <= 1 /\ ~compromised => result.rollback # "FAIL"

\* A run installs all that was asked for or nothing, and says so when it
\* could do neither.
Abstract == INSTANCE HalImage
    WITH image <- IF pc = "rest" THEN mem ELSE before, told <- result

ImplementsHalImage == Abstract!Spec
=============================================================================
