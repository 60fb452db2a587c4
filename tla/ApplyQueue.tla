----------------------------- MODULE ApplyQueue -----------------------------
(***************************************************************************)
(* How a saved configuration reaches the audio HAL: the commands of        *)
(* bin/a2h_apply (commit-queue, toggle-fast, toggle, queue, apply, check,  *)
(* snapshot), its queue worker, and the watch loop of service.sh, which    *)
(* share the files of config/ and /data/local/tmp.                         *)
(*                                                                         *)
(* Every actor is a shell process whose steps interleave freely between    *)
(* two system calls that touch shared state.  What runs under the config   *)
(* lock is one step (ConfigCommit refines it); the apply and the worker    *)
(* lock are explicit and are taken over only from a dead owner (PidLock    *)
(* says when the pid files deliver that).                                  *)
(***************************************************************************)
EXTENDS Integers

CONSTANTS
    Client,          \* processes that run one a2h_apply command at a time
    Worker,          \* slots for queue workers (a2h_apply __worker)
    Service,         \* the service.sh watcher
    Mode,            \* what a process keeps in its own variables: mode, policy
    Pkgs,            \* what goes through the shared file a2h_packages.txt
    Global,          \* the mode in which the patcher ignores the packages
    BootTries,       \* service.sh tries the boot apply 8 times
    ClientTries,     \* A2H_APPLY_ATTEMPTS of a command, 4 by default
    MaxPid,          \* bound on HAL process ids
    PidReuse,        \* may the HAL get an earlier boot's pid?
    Revert,          \* may an edit bring back an earlier configuration?
    CrashAt,         \* the points at which a process may be killed
    MaxCommands, MaxRestarts, MaxCrashes, MaxFaults, MaxReboots  \* budgets

Actor == Client \cup Worker \cup {Service}

None  == "none"       \* a free lock, no file
Stale == "stale"      \* a lock whose owner died
Torn  == <<"torn">>   \* HAL memory left by a patcher killed half way
Stock == <<"stock">>  \* HAL memory of a fresh process

\* Points inside prepare_config, where the process holds the config lock.
Preparing ==
    {"prepare", "reprepare", "qprepare", "wprepare", "probe", "snapshot"}

Label == Preparing \cup
    {"idle", "mark", "qmark", "start", "lock", "patch", "pid", "match",
     "record", "unlock", "loop", "remove", "requeue", "release", "recheck",
     "coalesce", "judge", "boot", "readpid", "watch", "compare", "decide"}

ASSUME ActorsDisjoint ==
    /\ Client \cap Worker = {} /\ Service \notin Client \cup Worker
    /\ None \notin Actor /\ Stale \notin Actor
ASSUME ConfigAssumption == Global \in Mode /\ None \notin Pkgs
ASSUME BoundsAssumption ==
    /\ BootTries \in Nat \ {0} /\ ClientTries \in Nat \ {0}
    /\ MaxPid \in Nat \ {0} /\ CrashAt \subseteq Label
    /\ PidReuse \in BOOLEAN /\ Revert \in BOOLEAN
    /\ {MaxCommands, MaxRestarts, MaxCrashes, MaxFaults, MaxReboots} \subseteq Nat

VARIABLES
    conf,        \* the five configuration files: [mode, pkgs, gen]
    tmpPkgs,     \* /data/local/tmp/a2h_packages.txt
    meta,        \* config_snapshot and revision: [snap, rev]
    applied,     \* applied_snapshot and applied_revision: [snap, rev]
    lastPid,     \* config/last_pid
    pending,     \* a2h_apply.pending: the set of its at most one marker
    applyLock, workerLock,
    hal,         \* the audio HAL process: [pid, up, rules]
    svcPid,      \* last_pid, the shell variable of service.sh
    bootTry,     \* boot_try of service.sh
    pc, loc,     \* per actor: where it is, and its shell variables
    used,        \* how much of each budget is spent
    seen         \* history: the snapshots that the configuration has had

files == <<conf, tmpPkgs, meta, applied, lastPid, pending>>
vars  == <<files, applyLock, workerLock, hal, svcPid, bootTry, pc, loc, used,
          seen>>

Snapshot == [mode : Mode, pkgs : Pkgs]
Conf     == [mode : Mode, pkgs : Pkgs, gen : Nat]

\* compute_snapshot covers every file but the generation; the raw signature
\* covers all five, so here it is conf itself.
Snap(c) == [mode |-> c.mode, pkgs |-> c.pkgs]

\* What a patched HAL does: the mode comes from the process that runs the
\* patcher, the packages from the shared file, and only in whitelist mode.
Rules(mode, pkgs) == IF mode = Global THEN <<mode>> ELSE <<mode, pkgs>>

HalRules == {Stock, Torn} \cup {Rules(m, p) : m \in Mode, p \in Pkgs \cup {None}}

Budget == {"commands", "restarts", "crashes", "faults", "reboots"}

NoConf == [mode |-> Global, pkgs |-> None, gen |-> 0]
NoMeta == [snap |-> Snap(NoConf), rev |-> 0]
Dirty  == NoMeta     \* the marker that names no revision
NoLoc  == [op |-> None, raw |-> NoConf, rev |-> 0, try |-> 1, rc |-> 1,
           pid |-> 0, marker |-> {}]

Marker == [snap : Snapshot \cup {NoMeta.snap}, rev : Nat]
Local  == [op : {None, "apply", "check", "boot", "watch"}, raw : Conf \cup {NoConf},
           rev : Nat, try : Nat, rc : Nat, pid : Nat, marker : SUBSET Marker]

-----------------------------------------------------------------------------
At(a, label)   == pc[a] = label
Goto(a, label) == pc' = [pc EXCEPT ![a] = label]
Keep(a, field, value) == loc' = [loc EXCEPT ![a][field] = value]
Forget(a, label) == Goto(a, label) /\ loc' = [loc EXCEPT ![a] = NoLoc]

CanSpend(what, max) ==
    used[what] < max /\ used' = [used EXCEPT ![what] = @ + 1] /\ UNCHANGED seen

\* A step of an applier that goes wrong without killing it.
Fault == CanSpend("faults", MaxFaults)

\* record_revision: a new snapshot gets the next revision.
NextRev == IF meta.snap = Snap(conf) THEN meta.rev ELSE meta.rev + 1

\* prepare_config rewrites the runtime package file and the metadata, and
\* leaves the signatures and the revision in the caller's variables.
PrepareFiles ==
    /\ tmpPkgs' = conf.pkgs
    /\ meta' = [snap |-> Snap(conf), rev |-> NextRev]
    /\ UNCHANGED <<conf, applied, lastPid, pending, applyLock, workerLock, hal,
                   svcPid, bootTry, used, seen>>

PrepareConfig(a) ==
    PrepareFiles /\ loc' = [loc EXCEPT ![a].raw = conf, ![a].rev = NextRev]

OnlyPc == UNCHANGED <<files, applyLock, workerLock, hal, svcPid, bootTry, used, seen>>

-----------------------------------------------------------------------------
(* Commands that change the configuration, and the ones that do not.       *)

Edit(c) ==
    /\ Revert \/ Snap(c) = Snap(conf) \/ Snap(c) \notin seen
    /\ conf' = c /\ seen' = seen \cup {Snap(c)}
    /\ used["commands"] < MaxCommands
    /\ used' = [used EXCEPT !["commands"] = @ + 1]

NoOtherFile == UNCHANGED <<tmpPkgs, meta, applied, lastPid, pending, applyLock,
                           workerLock, hal, svcPid, bootTry>>

\* commit-queue: the five files under the config lock, generation last.
CommitQueue(c) ==
    /\ At(c, "idle") /\ Goto(c, "mark")
    /\ \E m \in Mode, p \in Pkgs :
          Edit([mode |-> m, pkgs |-> p, gen |-> conf.gen + 1])
    /\ NoOtherFile /\ UNCHANGED loc

\* toggle and queue MODE (queue_latest), their -fast forms
\* (queue_changed_fast), and enable or disable (apply_stable): only a mode or
\* policy file changes.
SetControls(c) ==
    /\ At(c, "idle")
    /\ \E m \in Mode \ {conf.mode} : Edit([conf EXCEPT !.mode = m])
    /\ \/ \E next \in {"mark", "qprepare"} : Goto(c, next) /\ UNCHANGED loc
       \/ Goto(c, "lock") /\ Keep(c, "op", "apply")
    /\ NoOtherFile

\* A file manager writes the files without any lock and without a request.
ExternalEdit ==
    /\ \E m \in Mode, p \in Pkgs :
          /\ [mode |-> m, pkgs |-> p] # Snap(conf)
          /\ Edit([conf EXCEPT !.mode = m, !.pkgs = p])
    /\ NoOtherFile /\ UNCHANGED <<pc, loc>>

\* queue, apply, check and snapshot without new settings.
RunCommand(c) ==
    /\ At(c, "idle") /\ Edit(conf) /\ NoOtherFile
    /\ \/ \E next \in {"qprepare", "snapshot"} : Goto(c, next) /\ UNCHANGED loc
       \/ \E op \in {"apply", "check"} : Goto(c, "lock") /\ Keep(c, "op", op)

-----------------------------------------------------------------------------
(* Requests: a marker in the pending file, then a worker to consume it.    *)

\* mark_dirty_pending, or mark_pending with what was prepared.
Mark(c, marker) ==
    /\ pending' = {marker} /\ Forget(c, "start")
    /\ UNCHANGED <<conf, tmpPkgs, meta, applied, lastPid, applyLock, workerLock,
                   hal, svcPid, bootTry, used, seen>>

Prepared(a) == [snap |-> Snap(loc[a].raw), rev |-> loc[a].rev]

MarkDirty(c)  == At(c, "mark") /\ Mark(c, Dirty)
QueuePrepare(c) == At(c, "qprepare") /\ PrepareConfig(c) /\ Goto(c, "qmark")
MarkPending(c)  == At(c, "qmark") /\ Mark(c, Prepared(c))
SnapshotOnly(c) == At(c, "snapshot") /\ PrepareFiles /\ Forget(c, "idle")

\* Mutant of StartWorker: the lock keeps the pid of the command that took it.
StartWorkerInParent(c) ==
    /\ At(c, "start")
    /\ \/ workerLock \in Worker /\ Goto(c, "idle") /\ UNCHANGED <<workerLock, loc>>
       \/ \E w \in Worker :
             /\ workerLock \in {None, Stale} /\ At(w, "idle")
             /\ workerLock' = c
             /\ pc' = [pc EXCEPT ![w] = "loop", ![c] = "idle"]
             /\ loc' = [loc EXCEPT ![w] = NoLoc]
    /\ UNCHANGED <<files, applyLock, hal, svcPid, bootTry, used, seen>>

\* start_worker: a live owner is enough; otherwise claim the lock, after the
\* stale recheck when its owner is dead, and spawn a worker.
StartWorker(c) ==
    /\ At(c, "start")
    /\ \/ workerLock \in Worker /\ Goto(c, "idle") /\ UNCHANGED <<workerLock, loc>>
       \/ \E w \in Worker :
             /\ workerLock \in {None, Stale} /\ At(w, "idle")
             /\ workerLock' = w
             /\ pc' = [pc EXCEPT ![w] = "loop", ![c] = "idle"]
             /\ loc' = [loc EXCEPT ![w] = NoLoc]
    /\ UNCHANGED <<files, applyLock, hal, svcPid, bootTry, used, seen>>

\* The spawn fails: "queue FAIL error=worker-start pending=preserved".
StartFails(c) ==
    /\ At(c, "start") /\ workerLock \notin Worker /\ Goto(c, "idle")
    /\ CanSpend("crashes", MaxCrashes)
    /\ UNCHANGED <<files, applyLock, workerLock, hal, svcPid, bootTry, loc>>

-----------------------------------------------------------------------------
(* apply_stable, run by commands, workers and the service alike.           *)

Attempts(a) == IF a \in Worker THEN 2 ELSE IF a = Service THEN 1 ELSE ClientTries

\* Mutant of AcquireApplyLock: a lock that is held is no obstacle.
AcquireAnyway(a) ==
    /\ At(a, "lock") /\ applyLock' = a /\ Goto(a, "prepare")
    /\ UNCHANGED <<files, workerLock, hal, svcPid, bootTry, loc, used, seen>>

AcquireApplyLock(a) ==
    /\ At(a, "lock") /\ applyLock \in {None, Stale}
    /\ applyLock' = a /\ Goto(a, "prepare")
    /\ UNCHANGED <<files, workerLock, hal, svcPid, bootTry, loc, used, seen>>

ApplyPrepare(a) ==
    /\ At(a, "prepare") /\ PrepareConfig(a)
    /\ Goto(a, IF loc[a].op = "check" THEN "unlock" ELSE "patch")

\* apply_current: the patcher commits its transaction and verifies it.
Patch(a) ==
    /\ At(a, "patch") /\ hal.up /\ Goto(a, "pid")
    /\ hal' = [hal EXCEPT !.rules = Rules(loc[a].raw.mode, tmpPkgs)]
    /\ loc' = [loc EXCEPT ![a].pid = hal.pid, ![a].rc = 0]
    /\ UNCHANGED <<files, applyLock, workerLock, svcPid, bootTry, used, seen>>

\* No HAL, or a transaction that failed and was rolled back.
PatchFails(a) ==
    /\ At(a, "patch") /\ Goto(a, "match") /\ Keep(a, "rc", 1)
    /\ \/ ~hal.up /\ UNCHANGED <<used, seen>>
       \/ Fault
    /\ UNCHANGED <<files, applyLock, workerLock, hal, svcPid, bootTry>>

\* Mutant of RecordPid: the HAL is looked up again after it was patched.
RecordPidAgain(a) ==
    /\ At(a, "pid") /\ Goto(a, "match")
    /\ lastPid' = hal.pid /\ Keep(a, "pid", 0)
    /\ UNCHANGED <<conf, tmpPkgs, meta, applied, pending, applyLock, workerLock,
                   hal, svcPid, bootTry, used, seen>>

RecordPid(a) ==
    /\ At(a, "pid") /\ Goto(a, "match")
    /\ lastPid' = loc[a].pid /\ Keep(a, "pid", 0)
    /\ UNCHANGED <<conf, tmpPkgs, meta, applied, pending, applyLock, workerLock,
                   hal, svcPid, bootTry, used, seen>>

\* last_pid cannot be written: rc 74 ends the attempts.
RecordPidFails(a) ==
    /\ At(a, "pid") /\ Goto(a, "unlock") /\ Keep(a, "rc", 74) /\ Fault
    /\ UNCHANGED <<files, applyLock, workerLock, hal, svcPid, bootTry>>

\* An attempt came to nothing: try again while attempts are left.
NextAttempt(a) ==
    /\ loc' = [loc EXCEPT ![a].rc = 1, ![a].try = @ + 1]
    /\ Goto(a, IF loc[a].try < Attempts(a) THEN "prepare" ELSE "unlock")

\* raw_config_matches
MatchRaw(a) ==
    /\ At(a, "match") /\ OnlyPc
    /\ \/ conf = loc[a].raw /\ loc[a].rc = 0 /\ Goto(a, "record") /\ UNCHANGED loc
       \/ conf = loc[a].raw /\ loc[a].rc # 0 /\ NextAttempt(a)
       \/ conf # loc[a].raw /\ Goto(a, "reprepare") /\ UNCHANGED loc

\* Mutant of Reprepare: the second prepare replaces what the attempt applied.
ReprepareOver(a) ==
    /\ At(a, "reprepare") /\ PrepareConfig(a)
    /\ Goto(a, IF loc[a].rc = 0 THEN "record" ELSE "unlock")

\* The raw files changed: prepare again and compare the snapshots.  The raw
\* signature of the attempt is kept for the worker's coalescing.
Reprepare(a) ==
    /\ At(a, "reprepare") /\ PrepareFiles
    /\ IF loc[a].rc = 0 /\ Snap(conf) = Snap(loc[a].raw)
       THEN Keep(a, "rev", NextRev) /\ Goto(a, "record")
       ELSE NextAttempt(a)

\* refresh_policy_state and record_applied.
RecordApplied(a) ==
    /\ At(a, "record") /\ Goto(a, "unlock")
    /\ applied' = Prepared(a)
    /\ UNCHANGED <<conf, tmpPkgs, meta, lastPid, pending, applyLock, workerLock,
                   hal, svcPid, bootTry, loc, used, seen>>

\* The policy trigger fails (retry), or a write of record_applied fails after
\* the revision may already have been written.
RecordFails(a) ==
    /\ At(a, "record") /\ Fault
    /\ \/ NextAttempt(a) /\ UNCHANGED applied
       \/ /\ Goto(a, "unlock") /\ Keep(a, "rc", 2)
          /\ applied' \in {applied, [applied EXCEPT !.rev = loc[a].rev]}
    /\ UNCHANGED <<conf, tmpPkgs, meta, lastPid, pending, applyLock, workerLock,
                   hal, svcPid, bootTry>>

\* Where apply_stable returns to.  A worker goes on in the same process with
\* the raw signature of the last attempt; for the others the applier ends.
Returns(a, rc) ==
    \/ /\ a \in Worker /\ Goto(a, IF rc = 0 THEN "coalesce" ELSE "wprepare")
       /\ loc' = [loc EXCEPT ![a] = [NoLoc EXCEPT !.raw = loc[a].raw,
                                                 !.marker = loc[a].marker]]
    \/ a \in Client /\ Forget(a, "idle")
    \/ /\ a = Service /\ loc[a].op = "boot"
       /\ Forget(a, IF rc \notin {0, 74} /\ bootTry <= BootTries THEN "boot" ELSE "readpid")
    \/ /\ a = Service /\ loc[a].op = "watch"
       /\ Forget(a, IF rc = 0 THEN "readpid" ELSE "watch")

ReleaseApplyLock(a) ==
    /\ At(a, "unlock") /\ Returns(a, loc[a].rc)
    /\ applyLock' = IF applyLock = a THEN None ELSE applyLock
    /\ UNCHANGED <<files, workerLock, hal, svcPid, bootTry, used, seen>>

\* Another live process keeps the apply lock for all of the 60 tries: rc 75.
ApplyLockTimeout(a) ==
    /\ At(a, "lock") /\ applyLock \in Actor /\ Fault /\ Returns(a, 75)
    /\ UNCHANGED <<files, applyLock, workerLock, hal, svcPid, bootTry>>

\* prepare_config gives up: config lock timeout, unstable input, I/O error.
PrepareFails(a) ==
    /\ pc[a] \in Preparing \cup {"match"} /\ Fault
    /\ Goto(a, CASE pc[a] \in {"prepare", "reprepare", "match"} -> "unlock"
                 [] pc[a] = "wprepare" -> "release"
                 [] pc[a] = "probe" -> "watch"
                 [] OTHER -> "idle")
    /\ loc' = [loc EXCEPT ![a] = IF pc[a] \in {"prepare", "reprepare", "match"}
                                 THEN [@ EXCEPT !.rc = 2] ELSE NoLoc]
    /\ UNCHANGED <<files, applyLock, workerLock, hal, svcPid, bootTry>>

-----------------------------------------------------------------------------
(* worker_main                                                             *)

\* [ -f pending ], then cat: the marker is read before the file is removed.
ReadPending(w) ==
    /\ At(w, "loop") /\ OnlyPc
    /\ loc' = [loc EXCEPT ![w] = [NoLoc EXCEPT !.marker = pending]]
    /\ Goto(w, IF pending = {} THEN "release" ELSE "remove")

RemovePending(w) ==
    /\ At(w, "remove") /\ pending' = {} /\ Goto(w, "lock")
    /\ loc' = [loc EXCEPT ![w] = [NoLoc EXCEPT !.op = "apply", !.marker = loc[w].marker]]
    /\ UNCHANGED <<conf, tmpPkgs, meta, applied, lastPid, applyLock, workerLock,
                   hal, svcPid, bootTry, used, seen>>

\* After a failed apply: if the configuration is not the one that was asked
\* for, ask again; otherwise the service watcher owns the recovery.
WorkerPrepare(w) == At(w, "wprepare") /\ PrepareConfig(w) /\ Goto(w, "requeue")

Requeue(w) ==
    /\ At(w, "requeue")
    /\ IF {Prepared(w)} # loc[w].marker
       THEN pending' = {Prepared(w)} /\ Goto(w, "loop")
       ELSE Goto(w, "release") /\ UNCHANGED pending
    /\ loc' = [loc EXCEPT ![w] = NoLoc]
    /\ UNCHANGED <<conf, tmpPkgs, meta, applied, lastPid, applyLock, workerLock,
                   hal, svcPid, bootTry, used, seen>>

ReleaseWorkerLock(w) ==
    /\ At(w, "release") /\ Goto(w, "recheck")
    /\ workerLock' = IF workerLock = w THEN None ELSE workerLock
    /\ UNCHANGED <<files, applyLock, hal, svcPid, bootTry, loc, used, seen>>

\* Mutant of Recheck: a worker that released its lock is done.
RecheckNothing(w) ==
    /\ At(w, "recheck") /\ Goto(w, "idle")
    /\ UNCHANGED <<files, applyLock, workerLock, hal, svcPid, bootTry, loc, used, seen>>

\* A request that arrived before the release is still this worker's, unless
\* another worker has been started for it.
Recheck(w) ==
    /\ At(w, "recheck")
    /\ IF pending # {} /\ workerLock = None
       THEN workerLock' = w /\ Goto(w, "loop")
       ELSE Goto(w, "idle") /\ UNCHANGED workerLock
    /\ UNCHANGED <<files, applyLock, hal, svcPid, bootTry, loc, used, seen>>

\* coalesce_pending_after_success: take the requests that came during the
\* apply, drop them if they ask for what was applied, else put them back.
TakePending(w) ==
    /\ At(w, "coalesce") /\ pending' = {}
    /\ Goto(w, IF pending = {} THEN "loop" ELSE "judge")
    /\ UNCHANGED <<conf, tmpPkgs, meta, applied, lastPid, applyLock, workerLock,
                   hal, svcPid, bootTry, loc, used, seen>>

JudgePending(w) ==
    /\ At(w, "judge") /\ Goto(w, "loop")
    /\ pending' = IF conf = loc[w].raw THEN pending ELSE {Dirty}
    /\ UNCHANGED <<conf, tmpPkgs, meta, applied, lastPid, applyLock, workerLock,
                   hal, svcPid, bootTry, loc, used, seen>>

-----------------------------------------------------------------------------
(* service.sh: the boot apply, then the watch loop.  Ticks, the quiet       *)
(* window and the failure backoff only delay a probe, by a finite time.    *)

BootApply ==
    /\ At(Service, "boot") /\ Goto(Service, "lock")
    /\ bootTry' = bootTry + 1
    /\ loc' = [loc EXCEPT ![Service] = [NoLoc EXCEPT !.op = "boot"]]
    /\ UNCHANGED <<files, applyLock, workerLock, hal, svcPid, used, seen>>

\* last_pid is read back after the boot phase and after an apply of its own.
ReadLastPid ==
    /\ At(Service, "readpid") /\ Goto(Service, "watch")
    /\ svcPid' = lastPid
    /\ UNCHANGED <<files, applyLock, workerLock, hal, bootTry, loc, used, seen>>

Busy == applyLock \in Actor \/ workerLock \in Worker

\* A health probe or a stable edit is due, and applier_busy says no.
Probe ==
    /\ At(Service, "watch") /\ ~Busy /\ Goto(Service, "probe")
    /\ OnlyPc /\ UNCHANGED loc

ProbePrepare ==
    At(Service, "probe") /\ PrepareConfig(Service) /\ Goto(Service, "compare")

\* The raw signature is read again: a change starts a new quiet window.
ProbeCompare ==
    /\ At(Service, "compare") /\ OnlyPc
    /\ \/ conf = loc[Service].raw /\ Goto(Service, "decide") /\ UNCHANGED loc
       \/ conf # loc[Service].raw /\ Forget(Service, "watch")

\* Mutant of UpToDate: a HAL that was restarted passes for the patched one.
SameRecords ==
    applied.rev = meta.rev /\ applied.snap = Snap(loc[Service].raw)

UpToDate ==
    /\ hal.pid = svcPid /\ applied.rev = meta.rev
    /\ applied.snap = Snap(loc[Service].raw)

ProbeDecide ==
    /\ At(Service, "decide")
    /\ Goto(Service, IF hal.up /\ ~UpToDate THEN "lock" ELSE "watch")
    /\ svcPid' = IF hal.up /\ UpToDate THEN hal.pid ELSE svcPid
    /\ loc' = [loc EXCEPT ![Service] =
                   IF hal.up /\ ~UpToDate THEN [NoLoc EXCEPT !.op = "watch"] ELSE NoLoc]
    /\ UNCHANGED <<files, applyLock, workerLock, hal, bootTry, used, seen>>

-----------------------------------------------------------------------------
(* The environment.                                                        *)

HalDies ==
    /\ hal.up /\ hal' = [pid |-> hal.pid, up |-> FALSE, rules |-> hal.rules]
    /\ CanSpend("restarts", MaxRestarts)
    /\ UNCHANGED <<files, applyLock, workerLock, svcPid, bootTry, pc, loc>>

HalStarts ==
    /\ ~hal.up /\ hal.pid < MaxPid
    /\ hal' = [pid |-> hal.pid + 1, up |-> TRUE, rules |-> Stock]
    /\ UNCHANGED <<files, applyLock, workerLock, svcPid, bootTry, pc, loc, used, seen>>

Orphan(lock, a) == IF lock = a THEN Stale ELSE lock

\* A process is killed.  It may have been half way through the patcher's
\* transaction, record_revision or record_applied; its locks stay behind.
\* The service survives the applier it runs as a child.
Crash(a) ==
    /\ pc[a] \in CrashAt \ {"idle", "boot", "readpid", "watch", "compare", "decide"}
    /\ CanSpend("crashes", MaxCrashes)
    /\ \/ UNCHANGED <<hal, tmpPkgs, meta, applied>>
       \/ /\ At(a, "patch") /\ hal' = [hal EXCEPT !.rules = Torn]
          /\ UNCHANGED <<tmpPkgs, meta, applied>>
       \/ /\ pc[a] \in Preparing /\ tmpPkgs' = conf.pkgs
          /\ meta' \in {meta, [meta EXCEPT !.rev = NextRev]}
          /\ UNCHANGED <<hal, applied>>
       \/ /\ At(a, "record") /\ applied' = [applied EXCEPT !.rev = loc[a].rev]
          /\ UNCHANGED <<hal, tmpPkgs, meta>>
    /\ applyLock' = Orphan(applyLock, a) /\ workerLock' = Orphan(workerLock, a)
    /\ IF a = Service /\ pc[a] # "probe" THEN Returns(a, 1)
       ELSE Forget(a, IF a = Service THEN "watch" ELSE "idle")
    /\ UNCHANGED <<conf, lastPid, pending, svcPid, bootTry>>

\* The phone restarts: config/ survives, post-fs-data.sh clears the runtime
\* files and the locks, and service.sh boots again.
Reboot ==
    /\ CanSpend("reboots", MaxReboots)
    /\ tmpPkgs' = None /\ pending' = {}
    /\ applyLock' = None /\ workerLock' = None
    /\ \E p \in 1 .. MaxPid :
          /\ PidReuse \/ p > hal.pid
          /\ hal' = [pid |-> p, up |-> TRUE, rules |-> Stock]
    /\ svcPid' = 0 /\ bootTry' = 1
    /\ pc' = [a \in Actor |-> IF a = Service THEN "boot" ELSE "idle"]
    /\ loc' = [a \in Actor |-> NoLoc]
    /\ UNCHANGED <<conf, meta, applied, lastPid>>

-----------------------------------------------------------------------------
\* A first boot after the installation.
Init ==
    /\ \E m \in Mode, p \in Pkgs : conf = [mode |-> m, pkgs |-> p, gen |-> 0]
    /\ seen = {Snap(conf)}
    /\ tmpPkgs = None /\ meta = NoMeta /\ applied = NoMeta
    /\ lastPid = 0 /\ pending = {}
    /\ applyLock = None /\ workerLock = None
    /\ hal = [pid |-> 1, up |-> TRUE, rules |-> Stock]
    /\ svcPid = 0 /\ bootTry = 1
    /\ pc = [a \in Actor |-> IF a = Service THEN "boot" ELSE "idle"]
    /\ loc = [a \in Actor |-> NoLoc]
    /\ used = [b \in Budget |-> 0]

ClientStep(c) ==
    MarkDirty(c) \/ QueuePrepare(c) \/ MarkPending(c) \/ SnapshotOnly(c) \/ StartWorker(c)

ApplyStep(a) ==
    \/ AcquireApplyLock(a) \/ ApplyPrepare(a) \/ Patch(a) \/ PatchFails(a)
    \/ RecordPid(a) \/ MatchRaw(a) \/ Reprepare(a) \/ RecordApplied(a)
    \/ ReleaseApplyLock(a)

WorkerStep(w) ==
    \/ ReadPending(w) \/ RemovePending(w) \/ WorkerPrepare(w) \/ Requeue(w)
    \/ ReleaseWorkerLock(w) \/ Recheck(w) \/ TakePending(w) \/ JudgePending(w)

ServiceStep ==
    BootApply \/ ReadLastPid \/ Probe \/ ProbePrepare \/ ProbeCompare \/ ProbeDecide

Failure(a) ==
    \/ RecordPidFails(a) \/ RecordFails(a) \/ ApplyLockTimeout(a)
    \/ PrepareFails(a) \/ Crash(a)

Next ==
    \/ \E c \in Client : \/ CommitQueue(c) \/ SetControls(c) \/ RunCommand(c)
                        \/ ClientStep(c) \/ StartFails(c)
    \/ \E a \in Actor : ApplyStep(a) \/ Failure(a)
    \/ \E w \in Worker : WorkerStep(w)
    \/ ServiceStep
    \/ ExternalEdit \/ HalDies \/ HalStarts \/ Reboot

Spec == Init /\ [][Next]_vars

\* Every started process keeps running, the service keeps probing, and init
\* restarts the HAL.  Commands, edits, failures and kills are never owed.
Fairness ==
    /\ \A c \in Client : WF_vars(ClientStep(c))
    /\ \A a \in Actor : WF_vars(ApplyStep(a))
    /\ \A w \in Worker : WF_vars(WorkerStep(w))
    /\ WF_vars(ServiceStep) /\ WF_vars(HalStarts)

FairSpec == Spec /\ Fairness

-----------------------------------------------------------------------------
TypeOK ==
    /\ conf \in Conf /\ tmpPkgs \in Pkgs \cup {None}
    /\ meta \in Marker /\ applied \in Marker
    /\ lastPid \in Nat /\ svcPid \in Nat /\ bootTry \in Nat
    /\ pending \in SUBSET Marker
    /\ applyLock \in Actor \cup {None, Stale}
    /\ workerLock \in Worker \cup {None, Stale}
    /\ hal \in [pid : Nat, up : BOOLEAN, rules : HalRules]
    /\ pc \in [Actor -> Label] /\ loc \in [Actor -> Local]
    /\ used \in [Budget -> Nat] /\ seen \subseteq Snapshot

\* What the records and the watcher's own variable say.
Certified == /\ hal.up /\ hal.pid \in {lastPid, svcPid}
             /\ meta.snap = Snap(conf) /\ applied = meta

\* When the records say that the current configuration is in the running HAL
\* (the test of notification_runtime_result and of the watch loop, which then
\* leave the HAL alone), the HAL does not run another configuration, whatever
\* commands, applies and failures are under way.
NeverCertifiesStale ==
    Certified => hal.rules \in {Rules(conf.mode, conf.pkgs), Torn}

\* A request in the pending file has somebody who will look at it: the worker
\* that holds the lock or has just released it, or the command on its way to
\* start one; unless one of these was killed.
NoOrphanRequest ==
    pending # {} =>
        \/ workerLock \in Worker
        \/ \E w \in Worker : At(w, "recheck")
        \/ \E c \in Client : At(c, "start")
        \/ used.crashes > 0

\* Recorded revisions never go back, although any process may be the one that
\* records: each prepares after it has the apply lock.
AppliedMonotone == [][applied'.rev >= applied.rev]_vars

\* Once commands, edits, kills and restarts stop, and as long as no step fails, the
\* HAL gets the configuration that was saved last and keeps it.  Excepted is memory
\* that a killed patcher has left half written while the records of an earlier
\* success name this very configuration: everybody takes the HAL for up to date
\* (UpToDate), and it stays so until the HAL restarts.
Converges ==
    <>[](hal.up /\ \/ hal.rules = Rules(conf.mode, conf.pkgs)
                   \/ hal.rules = Torn /\ Certified)
=============================================================================
