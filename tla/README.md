# A2HHook verification project

A2HHook is an Android module that keeps selected applications' audio away from
the low-latency (LL/MMAP) path of the audio HAL. It does so by patching
instructions of the running HAL process. This directory holds TLA+ modules for
the parts of it that have state and can go wrong under concurrency, crashes or
failing steps, TLC configurations that check them on small instances, and
proofs checked by TLAPS. Paths below are relative to the repository root, as
`src/<path>` in PROJECT.json.

## 1. The system

| Component | State it keeps | Operations |
|---|---|---|
| **Configuration** (`bin/a2h_apply`, `normalize_package_config`, `commit_config_and_queue`, `set_controls`, `toggle_*`) | five files in `config/`: mode, package list, package table, policy, generation; the runtime copy `/data/local/tmp/a2h_packages.txt`; `config_snapshot`, `revision` | commit (backup, write five files, generation last, abort on a signal), fast mode/policy writes, normalisation of the ten package slots, `prepare_config` |
| **Apply queue and worker** (`bin/a2h_apply`) | `a2h_apply.pending`, apply lock, worker lock, `applied_snapshot`, `applied_revision`, `last_pid` | `commit-queue`, `toggle`, `queue`, `apply`, `check`, `snapshot`; `apply_stable`; the worker's loop, requeue and coalescing |
| **Pid lock** (`claim_pid_lock`, `stale_lock_recheck`, `release_pid_lock`) | a directory and the file `pid` in it | claim, verify, release, three looks at a dead owner, reap |
| **Service watcher** (`service.sh`) | shell variables `last_pid`, `boot_try`, pending signature, backoff; the service lock; the notification queue | boot apply, watch loop (signature, quiet window, health probe), runtime result and notifications |
| **Boot cleanup** (`post-fs-data.sh`) | the runtime files of the previous boot | cleanup, epoch check |
| **Native patcher** (`src/patcher_v3.c`) | the memory of the HAL process: helper code, auxiliary branch sites, main function or code cave, whitelist strings; the caches of the CPUs; ptrace-stopped threads | locate, resolve and refuse, snapshot, write twice with cache maintenance, verify, roll back |
| **Audio watcher and leases** (`bin/a2h_audio_watch`, `src/trigger.c`) | ports, sessions, claims, lease tokens and pids | reconcile, start/stop lease, wait for readiness; hold a ready output open |
| **Web UI** (`webroot/index.html`) and **companion** (tile services) | queued saves and log switches; the tile's label | drain queue; click, refresh |
| Installer, uninstaller, build tools, retired hook | none at run time | - |

Interactions. Clients (web UI, tiles, shell, file managers) change the
configuration files. A command that goes through `a2h_apply` does so under the
config lock, writes a marker to the pending file and starts a worker if none
is alive; a file manager only writes. The worker, the commands `apply`,
`check`, `enable`, `disable` and the service all run `apply_stable`, one at a
time under the apply lock: it prepares the runtime files and the metadata
under the config lock, runs the native patcher on the HAL, and records what
was applied. The service compares records, pids and signatures and applies
again when they disagree. Every one of these is an unsynchronised shell
process; the only mutual exclusion is the pid lock.

What is hard: steps of different shell processes in an order nobody tested;
snapshots read before and used after another process ran; processes killed
between two writes; images that killed, failed or older runs left; locks of dead processes; a HAL that restarts between two
steps or comes back under an old pid; a patcher that dies, or whose system
calls fail, half way through a set of writes to running code. PROJECT.json
lists each hazard at its line with the properties that watch it.

What makes each part correct:

- **Apply queue**: a request is never lost while its processes live; what the
  records certify is what the HAL runs; records never go back; when edits and
  failures stop, the HAL ends up with the configuration saved last. (It does not
  where a killed patcher leaves memory half written that the records of an earlier
  success already certify: that stays until the HAL restarts.)
- **Pid lock**: two live processes never own the lock; a live owner's lock is
  not taken away; a dead owner's lock is.
- **Native patcher, transaction**: success means that every site holds the
  wanted code and that no CPU can still run older code; failure means that
  memory is as before; at no moment can a thread of the HAL branch to bytes
  that are not the helper's.
- **Native patcher, freeze**: while it works no thread of the HAL runs, however
  many start and end while they are being stopped; a synchronisation that
  succeeds has reached every CPU; every thread goes on with its own registers,
  affinity and signals.
- **Native patcher, recognition**: a run finds what earlier runs left, complete
  or not, and takes nothing else for its own; what success and `--check` say of
  the function is true; bytes that somebody else has put there are not written.
- **Configuration commit**: readers see the old or the new five files together
  with their generation, whatever fails.
- **Leases**: a package with an active output has a lease until its last
  output stops; one without has none for longer than a vendor event earns it;
  one that is not allowed any more loses it; a package never has two workers;
  the silent stream never counts as an output of the application. (Failing
  writes cost the second and the fourth: an empty token is a lease without a
  deadline, and a worker without a record may run beside the next one.)

## 2. Modules

### ApplyQueue.tla

One action per step between two system calls that touch shared state. Actors
are clients (one command at a time), worker slots and the service; each has a
program counter `pc[a]` and its shell variables `loc[a]` (`raw`: the raw
signature of the attempt, `rev`: the revision, `try`, `rc`, `pid`, `marker`).

| State | Code |
|---|---|
| `conf` | the five configuration files; `gen` is the generation. `Snap` is what `compute_snapshot` covers, `conf` itself what `compute_raw_config_signature` covers |
| `tmpPkgs` | `a2h_packages.txt`, written by every prepare and read by the patcher |
| `meta`, `applied`, `lastPid` | `config_snapshot`/`revision`, `applied_snapshot`/`applied_revision`, `last_pid` |
| `pending`, `applyLock`, `workerLock` | the marker file and the lock owners (`Stale`: a dead one) |
| `hal` | the HAL process: pid, running or not, and the rules in its memory |
| `svcPid`, `bootTry` | variables of `service.sh` |
| `used`, `seen` | budgets spent; a history of the snapshots there have been |

The data are cut down to what can be told apart: `mode` stands for everything
that a process reads into its own variables (mode, policy), `pkgs` for
everything that travels through the shared package file. This difference is
kept because it is where a mixture can come from. The patcher's own
transaction is one step here (`Patch`, `PatchFails`, and `Crash` for a patcher
killed half way). What runs under the config lock is one step; the lock's own
failures are `PrepareFails`. Quiet window, health period and backoff are
finite delays and leave no trace, except that nothing is assumed about when
`Probe` happens.

### PidLock.tla

One action per system call of `claim_pid_lock`, `stale_lock_recheck` and
`release_pid_lock`. A member of `Process` is a pid with its start time, which
is what the owner token holds, so pid reuse is covered by another member.
`Timed` says whether a sleep of one second outlasts what other processes do
without sleeping; it is assumed in the runs, and of the theorems only
`HeldLockIsKept` speaks about systems where it is true.
Creating the file `pid` and writing its text is one step. `stolen` and `old`
are history variables: was a live owner's lock removed by another process,
and who has held the lock since the last tick or longer.

### ConfigCommit.tla, PackageTable.tla and ConfigSession.tla

What one process after another does to the five configuration files between
acquiring and releasing the config lock, one action per call that reads or
writes a shared file, while a file manager edits them without the lock.

| State | Code |
|---|---|
| `file` | `state`, `game_auto_pause`, `packages.txt`, `package_states`, `config_generation`. `Missing`: not there; `Broken`: too long, or with a wrong line |
| `base` | `.package_baseline`: names and generation of the last normalisation |
| `cert` | the saved fingerprint, as the set of files replaced since the `stat` it was computed from; it matches while that set is empty |
| `tmp` | `a2h_packages.txt` |
| `moved` | files replaced since the holder's own last `stat` (the certificate and the fast path compare these) |
| `saw`, `norm`, `pass` | `prepare_input_signature`, what the normalisation is about to write, `prepare_pass` |
| `new`, `old`, `at` | the five temporary files of a commit, its backups and had-flags, the file it is at |
| `certified`, `rc` | `controls_certified` or `toggle_certified`, the exit status |
| `tail` | the files without a backup, between a commit's release of the lock and `trap -` |
| `entry`, `edited`, `broke`, `asked`, `renamed` | history: the files when the command began, whether somebody edited them since, the labels at which calls failed, the table the web UI committed last, the names an edit added |

`PackageTable` is the pure part: `Switches` decides every slot, `Normalized`
the table or the defaults, `Runtime` the list for the patcher. Signatures by
contents (`cksum`) compare contents, fingerprints (`stat`) compare `moved`;
the difference decides what an edit can slip through. Arguments are checked
before the lock is taken, so `Table` holds tables that have passed.
`normalize_package_config` reads packages, states, generation and baseline in
one step: an edit changes one file and each is read once, so an edit in
between is one before or after. A signal runs the abort handler, a second one
or a signal to any other command is `Kill`.

`ConfigSession` is the promise of a command that holds the lock. Its state is
what the rest of the system sees: `view`, the mode, policy and packages that
the next apply will find (what normalising the files would give, `Means`), the
patcher's package file, the command in charge, its exit status, and whether
anybody else has written meanwhile. A command changes the view as it asks, in
one step (`Succeed`), or its status says that it did not (`Fail`), and
then each control has its old or its new value, or the default one after a
commit whose abort could not bring a file back; only `prepare` writes the package
file (`Publish`), and it succeeds only if that is the view's. Nothing is
promised after a foreign write (`Disturb`) until a prepare has looked again
(`Settle`). `ImplementsConfigSession` maps ConfigCommit to it. A commit or a
switch is seen when it ends; the table that a prepare writes consists of two
files, and between them the view is what is to be written.

In ApplyQueue the same commands are one step each (`CommitQueue`,
`SetControls`, `PrepareFiles`): there `conf` is the view, `tmpPkgs` the package
file, and a command either succeeds or leaves both alone. ConfigSession is what
justifies that, and says where it does not hold: a failing commit may leave
other contents, which in ApplyQueue are those of an `ExternalEdit`.

### PatchTransaction.tla and HalImage.tla

One run of `a2h_patch` after another on one HAL process. Its control is a
program counter with the steps of `main`: resolve, seven preflight
synchronisations, snapshot, the twelve auxiliary sites in the order of
`apply_auxiliary_targets`, the main function or the whitelist's strings,
table, marker and stub, final verification, and the rollback in the order of
`auxiliary_transaction_restore`.

| State | Code |
|---|---|
| `mem[s]` | the bytes at a site, as the `OVERLAY_` value that the code recognises them by, or `Torn` |
| `fetch[s]` | what some CPU may still execute there: a write adds to it, a successful `remote_icache_flush` leaves what is in memory |
| `ready`, `main`, `fine` | the `*_ready` flags, the main function's result, the preflight's result |
| `before`, `inner` | the outer snapshots and the one of `write_whitelist_stub_code` |
| `undone` | the `*_ok` flags of the rollback |
| `compromised` | `g_trace_compromised`: from then on every write and every synchronisation fails |
| `result` | exit status, and what the last line says of the rollback |

Every `mem_w` and every `remote_icache_flush` may fail (`MaxFaults`); a write
that fails may have been done, not done, or done in part, except that one
instruction is never written in part. The patcher may be killed anywhere
(`MaxCrashes`): its tracees are released and run on (there is no
`PTRACE_O_EXITKILL`). `Left` are the images that the patcher recognises as
those of earlier releases. Reading is not modelled as failing by itself: where
a failed read matters, it ends in the same branch as a failed write that
changed nothing.

`HalImage` is the promise: a run installs everything it was asked for
(`Install`), or changes nothing (`Refuse`), or says that it has failed to do
either (`Break`), and then every site holds its old bytes, those asked for, or
a part of a write. `ImplementsHalImage` maps a run to one step of it: during a
run the abstract image is the one it began with, at rest it is memory, and
`told` is the exit status with what the last line says of the rollback.

### ThreadFreeze.tla

What PatchTransaction takes for granted: `trace_attach`, `remote_icache_flush`
with the code it executes on borrowed threads, and `trace_detach`, against a
thread group that goes on living. The kernel's side is a state per thread
(`stat`, `why`, `traced`, `trap`, `posted`, `cpus`, `foreign`), the patcher's
the flags of `trace_group` and its locals.

| State | Code |
|---|---|
| `stat`, `why` | a thread runs, is in a ptrace stop (`event`, `signal`, `brk`, `fault`), or is gone |
| `traced`, `trap`, `posted` | seized; an interrupt or a signal it has not met yet |
| `home`, `cpus`, `foreign` | the affinity it has chosen, the one in force, whether it has the helper's registers |
| `group`, `held`, `resume`, `regsPending`, `cpusPending`, `saved` | the entries of `trace_group` and their flags |
| `todo`, `added`, `pass`, `stable` | the listing in hand and the counters of `trace_attach` |
| `left`, `aim`, `done`, `helper`, `ready` | CPUs still to do, whether the helper's own cache lines or the target's are being synchronised, the page tail the helper is put in |
| `stale` | CPUs that may execute older bytes of the helper or of the target |
| `compromised` | `g_trace_compromised` |
| `hurt`, `used`, `lost`, `killed` | history: threads whose last call failed, threads that were borrowed, signals taken and not given back, whether somebody was killed |

Actions are the calls: list, seize, interrupt, await, verify; bind, run on the
borrowed thread until its `brk`, restore registers and affinity, try again;
detach. Beside them threads start, end, take signals and stop. A call can fail
or time out (the deadline of 3000 ms is one that does), the HAL or the patcher
can be killed, and a signal can arrive; one budget, `MaxTroubles`, counts them
all. Which thread is borrowed for a CPU is any that may run there: the order
of the group is left out. So is a leader that ended and is listed still.

What the model shows at the edge of the code is written at the properties: two
listings that each miss a thread let one run on (`MaxGaps` must be below
`StablePasses`); a signal that a borrowed thread took may be dropped, as
`PTRACE_DETACH` injects nothing from the stop of an interrupt (`SignalsReturn`
excepts it); a signal between `SEIZE` and `INTERRUPT` leaves an interrupt
pending, which fails the first cache maintenance on that thread; a thread
started by one with a foreign affinity inherits that.

### TargetRecognition.tla

How a run finds `is_A2H_app` and the cave of its table among what is there,
and what it leaves. A function is four parts: bytes 0-7 (`head`: stock, global
entry, jump of the retired hook, somebody else's, or the cave whose table a
stub reads), 8-15 (`mid`), 16-75 (`rest`) and what is behind (`body`). `twin`
is a second function that the scan may take for it. A cave is strings,
pointers and marker.

| State | Code |
|---|---|
| `fn["real"]`, `fn["twin"]` | the bytes at the symbol, and at another place the scan looks at |
| `data["tail"]`, `data["other"]`, `data["bss"]` | the candidate of the ELF tail, another place in the tail, the `.bss` table of earlier releases |
| `hint` | `config/cave_off` and `/data/local/tmp/a2h_cave_off` |
| `run` | mode, way (symbol or scan), function, cave, list, order of the rollback |
| `before` | the snapshots |
| `result` | what the last run reported, for which list |

`Begin` is everything up to the first write: `Located` (symbol or scan),
`Capacity`, `CaveFor`, and the refusals; one action per write after it (a
slot is cleared and filled, a pointer, a word of the marker, three parts of
code), then `Verify` and `SaveHint` (each of two files truncated and written). `Check`
is `--check`, which only reads. `Fail` starts a rollback that puts the function
back first and then the cave, in one of two orders; `Kill`, `Restart`, a
foreign hook (`Hook`) and a foreign user of the tail (`UseTail`) are what happens
between and around runs.

Cut down: pointers lead to their own slot or are null (a stub whose
pointers lead elsewhere, and the repair of it, do not arise from the writes
of a run); the second pass of writes, which writes the same, is folded into
the first; the auxiliary sites are PatchTransaction's, and so is a rollback
whose calls fail in turn. `ForeignIntact` and `OneMarkedCave` are about
rollbacks that do not.

### AudioLease.tla

The watcher, the workers and triggers it starts, and what happens around
them: AudioPolicy starts and stops outputs of applications and writes lines,
the vendor's event service writes lines, somebody edits the configuration,
`a2h_apply` writes the marker and a line, logcat and the watcher die.

| State | Code |
|---|---|
| `apps`, `late` | what AudioPolicy knows: the output on a port; stops whose line is still to be written, by which time the port may have been given away |
| `queue`, `last`, `listening` | the lines in the FIFO, its head being the line in hand (`event_line`); the last line of the log, which `logcat -T 1` repeats; whether logcat runs |
| `allowed`, `edited` | what `mode_allows_package` says; whether an apply still has to follow an edit |
| `marker` | `RECONCILE_MARKER` |
| `ports` | `PORT_DIR/<port>`: package and session; an empty file counts as none (`valid_package`) |
| `token` | `LEASE_DIR/<package>`: `policy`, `fallback`, `empty` (a write that failed) or none |
| `record`, `owner` | `LEASE_PID_DIR/<package>` and `<package>.owner`, as the lease they name |
| `lease[t]` | the lease with sequence number `t`: package, trigger process, worker (waiting for su, at its last commands, gone), whether it was told to end (`told`), session file (empty, session, ready; `lost` when its directory is gone), and the token the trigger saw last |
| `pc`, `task`, `seen` | where the watcher is; the package, kind and caller of a release, revocation or start; `reconcile_seen` |
| `leaked`, `unnamed` | packages the code itself loses track of: one whose port file could not be written, one with a worker that no file names |

The watcher is a shell that handles one line at a time, so a step of it is
what lies between two accesses to a file that a worker, a trigger or
`a2h_apply` also uses: revoking a token, killing a worker and forgetting its
files are three steps, and so are the token, the fork and the record of a new
lease. A trigger's own stream gets a port and a session of its own (`t`
itself), and its start and stop are lines like any other. A write that fails may
leave its file as it was, cut off, or written: a token that is cut off says nothing,
and to the trigger that is a lease without a deadline (`Botched`, `NoDeadline`). A worker
that is killed and waited for is gone with the step (`Killed`); one whose record
could not be written is only told to end, and ends, or goes on to its last
commands, in steps of its own (`Told`, `WorkerHears`). `Orphans` says
whether a trigger can outlive its worker: because su does not pass the signal on, or
because the worker is killed before it has noted the pid of su. The three looks at
`lease_alive` in `start_lease` are one, as only this process starts a worker
and a dead worker stays dead.

### Deliberately wrong variants

Definitions whose comment starts with "Mutant of" are versions of a step with
a plausible bug. No specification uses them; substituting one for the step it
names makes the property that PROJECT.json pairs it with fail, which shows
that the property says something about that step.

## 3. Runs

| Run | Instance | What it shows |
|---|---|---|
| `apply_races` | 2 clients, 2 workers, service, 2 modes, 2 package lists, 2 commands, no failure | `TypeOK`, `NoOrphanRequest`, `AppliedMonotone` under every interleaving |
| `apply_failures` | 1 client, 1 command, 1 failing step, 1 kill anywhere, 1 HAL restart, 1 reboot | `NeverCertifiesStale`: neither failing steps, kills (inside the patcher too), restarts nor their combinations certify what is not in the HAL |
| `apply_converges` | fairness; 1 command, 1 HAL restart, 1 kill anywhere, the patcher included, no failing call | `Converges`: the HAL gets and keeps the configuration saved last, but for memory left half written under records that already certify that configuration |
| `lock_waits` | 3 processes, 2 tries each, 1 kill, timed, fairness | `OldLockKept`: a lock held for long is not taken; `OnlyTheftBreaksMutex`; `DeadLockReaped` |
| `config_files` | 2 commands out of 6 of all kinds, 2 slots, 3 names, 1 edit, 2 failing calls, signals or kills | `CommitAllOrNothing`: success installs all five files, a failure or signal after the backups restores them; `CertifiedIsNormal`: a matching fingerprint stands for a table that a full prepare would write as it is; `PreparedIsCurrent`: a successful prepare leaves the runtime list of the files, on the fast path too, and it ends without 75 unless somebody edits; `WebSwitchesKept`: no prepare or switch undoes what the web UI committed; `ExternalNamesOnInStep`: an added name is switched on if the baseline is that of the files; `ImplementsConfigSession`: seen from outside a command happens at once, or its exit status says that it did not and only what it may leave is left |
| `config_backup` | see section 5 | counterexample to `FailureRestores` |
| `config_external` | see section 5 | counterexample to `ExternalNamesOn` |
| `patch_runs` | 3 runs, global and whitelist, 5 starting images, 2 failing calls, 2 kills, unrestored threads | `ImplementsHalImage`: all or nothing, or the exit status says neither; `SuccessIsComplete`: bytes, table and strings of the request, no stale CPU; `FailureRestores`: a rollback that says OK is one, and no single failing call defeats it; `HelperOutlivesBranches`; `BranchesLand`: kills alone, or one failing call alone, never leave a branch into unfinished code |
| `lease_ends` | 2 packages (one allowed at first), 1 port, 2 sessions, 3 leases, any 2 of: 2 outputs, 2 vendor events (which count as one), an edit, a failing call or timeout, a death; fairness | `PolicyHasPort`: a lease without deadline has an output on file, unless a failing write has left its token empty or the port file could not be overwritten (`leaked`); `DisallowedIsPending`: no token of a forbidden package is overlooked; `PortsAgree`: late stops end only their own output; `OneWorker`, but for packages whose record could not be written; `OnlyPlayingHold`: in the end a stream is held open only for an allowed package that plays, but for one that has read an empty token and for `leaked` and `unnamed` packages |
| `lease_lost` | 1 package that stops and starts | counterexample to `PlayingHasLease` |
| `thread_freeze` | 3 threads, one of them there at first, 2 CPUs, 2 synchronisations, 1 listing that misses a thread, any 2 of: failing calls, kills, signals | `NobodyRuns`, `FlushReachesAll`, `GivenBack`, `SignalsReturn`; `GivesUpForCause`: threads that come and go do not defeat the freeze |
| `recognition` | 3 runs of either mode by symbol or scan, 4 starting images, 2 slots, 2 names, 3 files, any 2 of: failures, kills, restarts, foreign changes | `SuccessIsTrue`; `SuccessIsSeen`: the next run and `--check` agree with a success; `OneMarkedCave`; `KilledIsRecovered`: which points of a run the next one recovers from; `ForeignIntact`; `TwinIntact`: a look-alike is not written where the right one could be told |

Bounds. Two clients are enough to have one request arrive in every window of
the other's worker, two workers to have one start while another is between its
release and its recheck, and two values of mode and package list to have a
mixture. Two commands are needed for an edit during the apply of another. One
failure at any step reaches every error path; a second failure of the same
kind only repeats it. `MaxPid` bounds the HAL's processes: the first, and one
after a restart or a reboot (two more in the runs with one client and no kill).
Three processes have an owner, a dead owner's lock and two waiters at once. Two
patcher runs are what a damaged image needs to be met by a later run, two
kills and a third run let one meet a mixture of mixtures, and two failing calls
are a failed step and a failed repair of it; `patch_runs` has all of these
together. Three threads are one that is borrowed, one that is being stopped
and one that it starts meanwhile; one missed listing is what two quiet passes
are made to survive; two CPUs are one that is done and one that is not. Sixteen
passes are the code's own. In `recognition` three runs are one
that leaves something, one that is stopped over it, and one that has to
recognise both; two slots are the half-filled table, and the three files are an empty
table, an invalid line (so the default list) and a list that is shorter than
the default. In `config_files` two
commands are a commit and a prepare that meets what it left, two slots are
what a duplicate and a swap need, two failing calls a failure and a failing
rollback, and two passes (`Passes`, 4 in the code) are what normalisation needs to settle and
enough for one edit to exhaust. Two kinds of edits are left out and listed as
hazards: one between the last look at the table and the `stat` that certifies
it (`EditAt`), and, while prepare has a signature to compare with (`Comparing`), one
that writes back just what that signature saw (`Repeat`). Commits overlap another's unreset traps only one at a time
(`tail`). In `lease_ends` one port is given from one package and session to another,
which is when a stop can come late, and a trigger has a port besides. A third
lease lets a trigger whose own start was taken for an application's make one
more; each could make another, and `MaxLeases` ends that. An output of an
application costs an event when it starts, not when it stops. The second vendor
event is one that meets a running lease and renews it, or fails to; together they
count as one event, so that a failing write, a death or an edit can go with them. Two of
the exceptions are reached here: without that of the empty token `PolicyHasPort` and
`OnlyPlayingHold` fail in this instance, without that of the record `OneWorker` does. That of
the port file takes two outputs and a failing call: with three
events and two leases (10.8 million states) the invariants hold as well.
In `apply_converges` the kill is one of any process at any step; `Converges` is about runs
without failing calls, and that of NeverCertifiesStale about those with one.
Symmetry is
used over clients, workers and package lists, which no action tells apart, and
never in a run with a liveness property.

Fairness. Processes that run keep running (weak fairness of each process's
steps: each is a shell script without waiting other than bounded polls), the
watch loop keeps ticking, and init restarts the HAL. In AudioLease the watcher,
each stream with its worker, and its service run on; deadlines pass
(`FALLBACK_LEASE_MS`), AudioPolicy writes the line of a stop, and an apply
that follows an edit signals it. Commands, edits, kills
and failures are never owed. ThreadFreeze and PatchTransaction need none:
nothing in them repeats without a counter, and in `thread_freeze`, which checks
for deadlock, the only state that a run can rest in is `gone`.

## 4. Proofs

`ApplyQueueProofs.tla`, `PidLockProofs.tla`, `ConfigCommitProofs.tla`,
`ConfigSessionProofs.tla`, `PatchTransactionProofs.tla`, `AudioLeaseProofs.tla`,
`ThreadFreezeProofs.tla` and `TargetRecognitionProofs.tla` are checked by TLAPS for every
number of processes, modes, package lists and budgets that the named
assumptions admit.

- `ApplyQueueProofs!Typing`: `TypeOK`, one lemma per helper (`Edit`,
  `Returns`, `PrepareFiles`) and one step per action.
- `OneApplier`: `LockInv`, "who is between acquiring and releasing the apply
  lock is the one the lock names". A process that was killed leaves `Stale`,
  and only `None` or `Stale` can be acquired.
- `AppliedNeverGoesBack` (`AppliedMonotone`): needs `LockInv` and `RevInv`:
  the applied revision is at most the prepared one, and an applier between
  its prepare and its record carries a revision at least the applied one.
  Without the lock two appliers would record in either order.
- `RequestsHaveAWorker` (`NoOrphanRequest`): needs `WorkerInv`: a worker
  inside its loop owns the worker lock, and the lock is stale only after a
  kill. The interesting step is `Recheck`: a worker may only leave if the file
  is empty or somebody else has the lock.
- `RecordsAreTrue` (`NeverCertifiesStale`), assuming that no pid is used again
  and no edit brings an earlier configuration back; both have a
  counterexample otherwise. `PastInv`: every snapshot on record or in hand has been the
  configuration, so that a new edit differs from all of them. `PidInv`: recorded
  pids are never ahead of the HAL's. `AttemptInv`: an attempt that carries
  another configuration than the present one is past recording the present
  one, and one that carries the present one finds its packages in the shared
  file, patches with them, and saw the pid of the HAL that it patched.
  `Alone`, which is `OneApplier`, keeps the others' attempts out of the way.
- `PidLockProofs!Typing`: the types of the lock's variables, which no run
  checks besides.
- `HeldLockIsKept` (`OldLockKept`): `OldInv` says that an old
  holder's directory and file are intact and `WaitInv` that whoever is about
  to reap has looked since the last tick, and so has looked at a lock that is
  not the old holder's.
- `MutexUnlessStolen` (`OnlyTheftBreaksMutex`): while nothing was stolen,
  whoever is past `mkdir` is the only one there and the directory exists.
- `ConfigCommitProofs!CommitIsWhole` (`CommitAllOrNothing`): `Progress` says
  for every label how far a commit is: during the backups the files are still
  those of the beginning, after them `old` is all of them, the first `at - 1`
  files are the new ones during the renames and the old ones during the
  restoration. It holds while nobody edits and no fault came before the
  backups were complete, which is where `config_backup` breaks it. Edits may
  happen at every label here, and any number of faults.
- The other invariants of ConfigCommit are proved for every table, every set of
  commands and edits, and any number of both, of faults and of kills. The
  types (`TypeCorrect`) need no more than that the default table is well formed
  and has its names on (`DefaultsAssumption`); `NormalizedFacts` shows that the
  normalisation always yields a table the patcher can take. The rest assume
  what the run assumes: no edit at the labels `stat` and `mark` (`EditAt`),
  none that brings back what the last signature saw (`~Repeat`), and, but for the
  certificate, two passes.
- `CertificateIsSound` (`CertifiedIsNormal`): `CertInv` says of every label that
  is on its way to a certificate that the table is proper unless a part of it
  was replaced since the stat that will be certified (`moved`), or differs from
  the signature that is still to be compared (`saw`). `Tracks` is why: a
  replaced file marks both `moved` and `cert`. `AgreeInv` says the same of the
  baseline: what is certified would not be taken for an edit either, because a
  commit certifies a generation that is newer than every baseline and a prepare
  the table that it has just made the baseline of. Both together make the
  certified table `Steady`: the normalisation would write it as it is.
- `PrepareSettlesFiles` (`PreparedIsCurrent`): `PassInv` says that after one pass
  without an editor the files are `Settled`, and a settled table is left alone
  by the next (`ProperStays`), which is why two passes are enough and why four
  are never exhausted. What an edit may have spoiled is covered by the last look
  (`Looked`), which also sets `edited` back.
- `WebSwitchesStay` (`WebSwitchesKept`): `GenInv` says that no file and no baseline
  carries a generation of the future, so the one a commit installs is newer than
  the baseline's and its table is not taken for an edit (`Unedited`); `WebInv`
  that the table asked for is in the files, or, during another commit, among what
  an abort will bring back, for which `CommitIsWhole`'s invariant is needed.
- `NamesAreSwitchedOn` (`ExternalNamesOnInStep`): until the slot is on, the
  baseline still shows that the name is new (`Fresh`); from then on the next
  normalisation leaves it on (`Stays`); and the certificate does not cover the
  file that was edited (`Shown`), so that no fast path passes by it.
- `ConfigSessionProofs!ImplementsSession` (`ImplementsConfigSession`), under the
  assumptions of `PrepareSettlesFiles`. Three invariants say what a command in
  the middle of its work has made of the view. `SwitchInv`: each
  control has its old value or the one asked for, at `second` the first is done,
  and after a success both are. `MixInv`: during a commit and its abort every
  control is an old one, a new one, or a file that is missing or broken and so means
  the default. `TableInv`: the table a prepare has in hand is what the files meant
  when it read them, and still is after each of its writes; what makes
  this true is `NormalizedStable`, that normalising twice is normalising once,
  also where only one of the two files and not yet the baseline is written.
  Then one lemma per kind of step (`CommitSimulates`, `SwitchSimulates`,
  `PrepareSimulates`), and `OnlyALook` says that nothing but the
  last look of a prepare forgets a foreign write. The fast path needs
  `CertificateIsSound`: it publishes the table without normalising it, which is
  right because a certified table is steady.
- `PatchTransactionProofs!Typing`: two lemmas about the types a write and a
  synchronisation keep, then one step per action.
- `HelperOutlives` (`HelperOutlivesBranches`), assuming that the HAL was
  untouched or completely patched at first. `HelperInv` adds to it: memory is
  among what a CPU may execute (`SeenInv`); before the first write no CPU may
  execute an older helper, because the preflight synchronised it
  (`PreflightInv`); a branch is written only when the helper is ready, the
  last one through a chain of event sites (`ApplyInv`); a branch that differs
  from its snapshot has an intact helper and a disconnected one is as it was
  (`SnapshotInv`). The proof shows why the preflight is needed and not merely
  prudent: without it a helper that is already there in memory is skipped,
  and a branch to it could meet older bytes in a cache. Steps that touch no
  critical site are handled by one frame lemma (`QuietKeeps`).
- `SuccessComplete` (`SuccessIsComplete`), over whatever image there is. `RunInv`
  says which way a request leads (`ModeInv`); each site is old, new or torn
  and those the run is not about are untouched (`BytesInv`); the sites counted as
  ready, and those still ahead since the preflight, are what every CPU executes
  (`SyncInv`). The bytes of a success need no invariant, `Verify` reads them
  back; its caches do, nothing can read those.
- `FailuresRestore` (`FailureRestores`) needs two more: `UndoInv`, that what counts
  as restored is, in memory and caches, because no later write of the rollback
  touches a site that was brought back; and `FaultInv`, that as long as nothing
  failed the work is as far as its step says (`WorkInv`), so that a rollback had
  its one failure before it began and leaves nothing out (`RollInv`).
- `Implements` (`ImplementsHalImage`): while a run is under way `HalImage` sees
  the image before it (`Unseen`); its end is `Install`, `Refuse` or `Break`
  (`Ending`), of which the exit status tells which.
- `BranchesAlwaysLand` (`BranchesLand`), assuming that the HAL was untouched or
  completely patched at first, and no failing call, or one and no kill.
  `LandInv`: branches land up to the failure, because the
  code a branch leads to is written and synchronised before it
  (`TargetsFirst`, `SyncInv`, `WorkInv`); they land again when the run is over,
  because a rollback that restored everything restored a snapshot in which
  they did (`BeforeLands`), and the only other ending is of a patcher that
  could write nothing after its failure (`FrozenWhenCompromised`).
- `AudioLeaseProofs!LeaseHasReason` (`PolicyHasPort`) and
  `RevocationIsPending` (`DisallowedIsPending`), also where a trigger outlives
  its worker. The first is about `policy` leases (`PolicyOnFile`); the one other
  kind without a deadline is the empty token, which only a failing write leaves
  (`EmptyHasFault`) and which may have no output at all. `LeaseInv` adds what a handler may rely on between its first look
  and its last write: the line in hand is still the head of the queue
  (`InHand`, for which the queue needs two lemmas about `Append` and `Tail`),
  the port file still names the line's package (`DecideInv`), a task that asks
  for a policy lease has its output on file, and one that may grant any lease
  is for an allowed package or the configuration has changed again
  (`GrantInv`); no token is left when ports are cleared (`ClearedInv`).
  `OutsideKeeps` handles everybody else: tokens may go, lines may come.
- `AudioLeaseProofs!TypeCorrect` (`TypeOK`): `Types` also says that the
  lines which start an output name a package, a port and a session, that a task
  in hand is about a package, and that a lease with a process has one.
- `OneWorkerEach` (`OneWorker`): `Named` says that a worker which runs is named by
  the owner file of its package, and by the record from the step after the fork;
  `Alone` that none runs where the watcher is about to fork or to forget, and
  none but its own where it waits. The owner file is what makes the record safe:
  a worker that ends takes away only files that name it. A package is excepted
  from the moment when a record of it could not be written (`unnamed`): its
  worker has lost its owner file, was told to end, and may still run when the next
  is forked.
- `PortsAgreeAtLast` (`PortsAgree`): `Leaves(q, o)` says that output `o` is on
  file for port `q` once the lines that are left are read. A start line makes it
  that start, a stop line ends the output of its session (`StartLine`,
  `StopLine`); applying a line changes nothing, and a line that has been applied
  may go (`LineApplied`, `LineDone`). `AgreesAtLast` compares that to AudioPolicy
  at every step, `HandledIsApplied` says that a line in hand has been applied.
- `ThreadFreezeProofs!Typing`; one lemma per action.
- `FrozenIsQuiet` (`NobodyRuns`), assuming `MaxGaps < StablePasses`: that
  is the arithmetic of the two quiet passes. `QuietInv` says that while some
  thread still runs, no more passes in a row were quiet than listings have
  missed a thread; `HeldInv` that a thread the code takes for stopped is.
- `ThreadsAreGivenBack` (`GivenBack`): `BackInv` says of each thread what is
  still owed to it: registers and affinity are wrong only while a flag of its
  entry says so (`OwedInv`), one thread at a time is on loan (`OneInv`), a fresh
  entry owes nothing (`FreshInv`), and a thread that has left the group has everything back
  or had a last failing call (`PaidInv`).
- `SynchronisedEverywhere` (`FlushReachesAll`): `MembersInv` says that a
  stopped thread is a traced one and a traced one is in the group, and
  `ReachInv` that a CPU on which a live thread may run and that may still
  execute older bytes is in `left`, or is the one that the thread in hand is
  bound to and has not finished on.
- `FreezeSucceeds` (`GivesUpForCause`), for a finite set of threads and if
  `MaxPasses >= StablePasses * (2 + 2 * n + MaxGaps)`, where `n` is the number of
  threads that start during the freeze. Every pass either is quiet or is paid
  for: a thread that was not there yet was born, one that was found has
  settled, or a listing has missed one, and each of these happens once per thread or
  gap. The code has 16 passes and asks for two quiet ones in a row (`patcher_v3.c`,
  lines 982 and 1013), which is enough for three births, or for two and one gap as in
  the run. More births may exhaust the passes; then the patcher gives up.
- `SignalsAreKept` (`SignalsReturn`): `LossInv` says that a signal which was
  taken is kept by the stop it caused, and in `resume` once that stop was seen.
- `TargetRecognitionProofs!Typing`, `OneMarked` (`OneMarkedCave`) and
  `ForeignBytesStay` (`ForeignIntact`) share the invariant `IInv`. What a run
  may write is decided once, in `Begin`; the invariant says what stays true of
  that decision: an entry that leads into the tail leads to a marked cave
  (`HeadMarked`, of the snapshot too), the snapshot holds but for the run's own
  parts, neither now nor in the snapshot is there anything foreign where it writes (`Own`),
  and no other cave is marked (`Sole`). The lemmas `CaveIsOurs` and
  `FunctionIsOurs` establish it from the locators, one lemma per action keeps
  it.
- `SuccessTold` (`SuccessIsTrue`): `WInv` adds what has been written so far:
  the strings of the slots up to `at` (`Strings`), the pointers (`Pointers`), the parts of
  the entry (`Entry`); `StubAnswers` joins them to what the function returns,
  and `CheckIsTrue` shows that what `--check` compares is enough.
- `TwinIsLeft` (`TwinIntact`) follows from the locators alone.
- `SuccessAgrees` (`SuccessIsSeen`): `TInv` says that a run which goes forward
  has found the only function it could (`Sought`) and that the twin never
  carries a stub, so that no marker which a run writes makes a candidate of it
  (`TwinPlain`); `Proved` keeps what a successful run has found and written
  until the image changes, and `GlobalSeen` and `StubSeen` join that to the
  locators and to `--check`.
- `KilledIsFound` (`KilledIsRecovered`): `Accepted` keeps what the locators have
  accepted, `Written` how far the function has been overwritten.
  `MarkedOwns` shows that hints do not matter where a cave is marked, `CaveAgain`
  that a marked cave is found again.

The assumption about `Missing` and `Broken` (`MissingAssumption`) says that the
values which stand for a file that is not there or not readable, and for no
command, are none of the values that they are told apart from.

Model-checked only: the three liveness properties (`Converges`,
`DeadLockReaped`, `OnlyPlayingHold`), which rest on fairness and so on ENABLED.
Every invariant and every step property of the passing runs is proved.

## 5. Disagreements found

- `config_backup`: a commit arms its abort handler before it has backups; a
  failing copy deletes the files that were not copied yet instead of leaving
  them alone.
- `config_external`: a certified commit keeps later prepares on the fast path,
  which never brings the baseline up to date; the next name added by a file
  manager is then taken for a commit and stays off.
- `lease_lost`: the worker of a lease that is ending removes the token by its
  path. An application that stops and starts again meets a worker that is still alive,
  has its token renewed, and loses it when that worker finishes.

More are known without a run, most of them listed as hazards: a prepare that
is killed between the two files of the default table leaves the default names with
the old switches, and the next prepare accepts them (ConfigSession's `MayLeave`
excepts it); three looks at a lock,
one second apart, that each fall between a claimant's `mkdir` and its write of
`pid` remove the lock of a live owner (`Mutex` with four processes has the
trace); the global entry is skipped when its bytes are there, synchronisation
included, so that after a kill between its write and its synchronisation the
next run reports success over stale caches (`SuccessIsComplete` excepts a
main function that was there already); a trigger's own start line that is handled after its session file
went, which makes a port and a lease, and without end if su does not pass a
signal on (`Orphans = TRUE`); a renewal of a lease whose write fails and leaves the token empty
(`write_lease_token`, its failure passed over), which the trigger takes for a lease
without a deadline, so that a stream a vendor event started is held until another event
renews it (`PolicyHasPort` and `OnlyPlayingHold` except it); a record that cannot be
written, after which the worker is killed but, unlike in a revocation, not waited for, and
can meet the worker of the next start (`OneWorker` excepts the package); a kill
inside the patcher while the records certify the configuration it was writing, after
which nobody writes the rest until the HAL restarts (`Converges` excepts it); a reconcile that kills a
worker at once and visits ports and tokens only, where `CHANGELOG.md` (line 12)
has it wait for the stream and find triggers that have neither; an edit away and back
during an apply attempt, which makes its two snapshots equal while the patcher
read the package file of the edit between (`Revert = TRUE` has the trace of
`NeverCertifiesStale`); an edit that is certified without having been
normalised (`EditAt <- Label`); a reused pid after
a reboot with a failed boot apply (`PidReuse = TRUE` has the trace); and a
rollback whose second failing call leaves the idle-clear branch over a
restored update region (`BranchesLand` without its two-fault exception).

Of recognition, each written down as the exception of a property:

- A global run over an old stub whose table is in `.bss` succeeds, and every
  later run refuses the function until the HAL restarts (`Orphan`): the suffix of
  the stub is accepted only with a marked cave, and there is none.
- The scan takes a single look-alike that looks stock although patched
  candidates were seen and not verified (`TwinIntact` has the condition under
  which it does not).
- A kill between the words of a stub over a stock function, of a global entry
  over the retired hook's jump or over a stub without a marked cave, or in a
  rollback, which puts the head back first, leaves a function that later runs
  reject (`KilledIsRecovered` says where they do not).
- A kill during the first filling of a cave, before its marker, or in a rollback
  between marker and pointers, leaves a cave that is neither zero nor marked;
  the whitelist is refused until the HAL restarts.

Stale hints are harmless: a hint counts only together with the marker.

`NeverCertifiesStale` is what holds of the promise that a recorded
configuration is the one in the HAL: without a reused pid and without a reverted edit, and excepting memory that a killed patcher
left half written (`Torn`), which the records of an earlier success still
certify. `Converges` excepts the same memory: the watch loop takes such a HAL for up to date.

## 6. Not modelled, and why

- ELF parsing, the layout of the tail, the semantic locators of the auxiliary
  sites and AArch64 encoding in the patcher: pure functions of the image of the
  audio library. What they find is a member of the sets that PatchTransaction
  and TargetRecognition start from.
- Stubs of releases before the current shape, and pointers of a stub that lead outside
  its table: no run modelled here writes them.
- Installer, uninstaller, packaging: straight-line file copying.
- A second audio watcher (the watcher lock and the lease claims, a lock of the
  kind PidLock models), the cooldown's clock, uids and symlink checks, and
  whether a trigger notices a change by inotify or by polling.
- Where a frozen thread stands: it may resume inside replaced bytes
  (the code does not look, and neither does the model). A leader that ended and
  is still listed, and the order in which the group is walked.
- The retired hook (`a2h_hook.cpp`, `injector.c`, `wrapper.sh`): not built.
- Layout, themes and wording of the web UI and the notifications.

## 7. Plan

Done: ApplyQueue, PidLock, PatchTransaction with HalImage, ConfigCommit with
PackageTable and ConfigSession, AudioLease, ThreadFreeze and TargetRecognition, each with its run
and with theorems about its central properties.

Left, in this order:

1. AudioLease: the watcher lock and the claims.
2. ServiceWatcher: quiet window, backoff, notification worker, service lock,
   epoch check of `post-fs-data.sh`; the start handshake of the worker.
3. ToggleTile and WebUiDrain: stale refreshes, dropped requests.
