---------------------------- MODULE ThreadFreeze ----------------------------
(***************************************************************************)
(* How src/patcher_v3.c stops all threads of the audio HAL, borrows them   *)
(* one by one to run cache maintenance on every CPU, and gives them back.  *)
(*                                                                         *)
(* The patcher sees the threads only through listings of /proc/<pid>/task  *)
(* and through ptrace, while the threads that still run start others, end, *)
(* and receive signals.  PatchTransaction takes from here that nobody runs *)
(* while it works, and that a synchronisation that succeeds has reached    *)
(* every CPU (its action Flush).                                           *)
(***************************************************************************)
EXTENDS Integers, FiniteSets

CONSTANTS
    Thread, Leader,     \* the threads that there may be; the first one
    Early,              \* ... those that run when the patcher starts
    Cpu,
    Homes,              \* the affinities the threads may have at first
    MaxPasses,          \* 16: the passes of trace_attach
    StablePasses,       \* 2: how many in a row must find nothing new
    Flushes,            \* synchronisations in a run that is not refused
    MaxGaps,            \* listings that miss a thread because another one ended
    MaxTroubles         \* calls that fail, kills, and signals

ASSUME ThreadAssumption == Leader \in Early /\ Early \subseteq Thread
ASSUME HomesAssumption == Homes \subseteq [Thread -> (SUBSET Cpu) \ {{}}]
ASSUME NumberAssumption ==
    /\ {MaxPasses, StablePasses, Flushes} \subseteq Nat \ {0}
    /\ {MaxGaps, MaxTroubles} \subseteq Nat

VARIABLES
    (* the threads, as the kernel has them *)
    stat,       \* not born, running, in a ptrace stop, or gone
    why,        \* the reason of the last stop
    traced,     \* seized
    trap,       \* an interrupt is pending
    posted,     \* a signal has been sent and not been taken
    home, cpus, \* the affinity a thread has chosen, and the one in force
    foreign,    \* threads with the helper's registers
    (* trace_group *)
    group, held, resume, regsPending, cpusPending,
                \* its threads, and their flags stopped, resume_signal, ...
    saved,      \* saved_affinity
    (* the patcher *)
    pc, hand,   \* the step, and the thread it is about
    todo, added, pass, stable,    \* the locals of trace_attach
    froze,      \* has it succeeded?
    left, aim, done,    \* CPUs still to do, what is synchronised, has it run?
    helper, ready,      \* the bytes in the page tail; g_cache_helper_ready
    round, flushed,     \* synchronisations so far, and whether the last was ok
    compromised,        \* g_trace_compromised
    stale,      \* CPUs that may execute old bytes of the helper, of a target
    (* bounds and history *)
    faults, gaps, posts,
    killed,     \* has the patcher or the HAL been killed?
    hurt,       \* threads whose last call has failed, and those that inherit from them
    used,       \* threads that have been borrowed
    lost        \* threads whose signal was taken and not (yet) given back

kernel  == <<stat, why, traced, trap, posted, home, cpus, foreign>>
records == <<group, held, resume, regsPending, cpusPending, saved>>
attach  == <<todo, added, pass, stable, froze, gaps>>
flush   == <<left, aim, done, helper, ready, round, flushed, stale>>
history == <<posts, killed, hurt, used, lost>>
vars    == <<kernel, records, attach, flush, pc, hand, compromised, faults, history>>

Freezing == {"list", "seize", "interrupt", "await", "verify"}
Frozen   == {"frozen", "flush", "cpus", "bind", "ran", "again", "unbind"}
Label    == Freezing \cup Frozen \cup {"detach", "stopping", "exit", "gone"}

Alive    == {t \in Thread : stat[t] \in {"runs", "stop"}}
Runs(t)  == stat[t] = "runs"
Gone(t)  == stat[t] = "gone"
Halted(t) == stat[t] = "stop"

Goto(label) == pc' = label
Fault == faults + posts < MaxTroubles /\ faults' = faults + 1

-----------------------------------------------------------------------------
(* The HAL: what its threads do by themselves.                             *)

\* A thread that executes the HAL's own code starts another one, which keeps
\* the affinity it inherits or chooses its own.
Start == \E t, u \in Thread :
    /\ Runs(t) /\ t \notin foreign /\ stat[u] = "unborn"
    /\ stat' = [stat EXCEPT ![u] = "runs"]
    /\ \/ /\ home' = [home EXCEPT ![u] = home[t]] /\ cpus' = [cpus EXCEPT ![u] = cpus[t]]
          /\ hurt' = IF t \in hurt THEN hurt \cup {u} ELSE hurt
       \/ /\ \E set \in Homes : /\ home' = [home EXCEPT ![u] = set[u]]
                               /\ cpus' = [cpus EXCEPT ![u] = set[u]]
          /\ UNCHANGED hurt
    /\ UNCHANGED <<why, traced, trap, posted, foreign, records, attach, flush, pc, hand,
                   compromised, faults, posts, killed, used, lost>>

End == \E t \in Thread \ {Leader} :
    /\ Runs(t) /\ t \notin foreign
    /\ stat' = [stat EXCEPT ![t] = "gone"]
    /\ UNCHANGED <<why, traced, trap, posted, home, cpus, foreign, records, attach, flush,
                   pc, hand, compromised, faults, history>>

\* Somebody sends a signal; a thread that is not traced takes it by itself.
Post == \E t \in Alive :
    /\ faults + posts < MaxTroubles /\ posts' = posts + 1 /\ posted' = posted \cup {t}
    /\ UNCHANGED <<stat, why, traced, trap, home, cpus, foreign, records, attach, flush,
                   pc, hand, compromised, faults, killed, hurt, used, lost>>

Take == \E t \in posted \ traced :
    /\ Runs(t) /\ posted' = posted \ {t}
    /\ UNCHANGED <<stat, why, traced, trap, home, cpus, foreign, records, attach, flush,
                   pc, hand, compromised, faults, history>>

\* A traced thread meets its interrupt, or a signal is about to be delivered.
Stop == \E t \in traced :
    /\ Runs(t) /\ stat' = [stat EXCEPT ![t] = "stop"]
    /\ \/ /\ t \in trap /\ trap' = trap \ {t} /\ UNCHANGED <<posted, lost>>
          /\ why' = [why EXCEPT ![t] = "event"]
       \/ /\ t \in posted \ trap /\ posted' = posted \ {t} /\ UNCHANGED trap
          /\ why' = [why EXCEPT ![t] = "signal"] /\ lost' = lost \cup {t}
    /\ UNCHANGED <<traced, home, cpus, foreign, records, attach, flush, pc, hand,
                   compromised, faults, posts, killed, hurt, used>>

\* A borrowed thread comes to the end of the helper, and its CPU then fetches
\* what is in memory; or it meets older bytes in the helper's place.  (Without
\* the patcher either kills the HAL.)
Helper == \E t \in foreign \cap traced :
    /\ Runs(t) /\ (t \in trap => pc = "again") /\ stat' = [stat EXCEPT ![t] = "stop"]
    /\ \E c \in cpus[t] :
          \/ /\ why' = [why EXCEPT ![t] = "brk"]
             /\ stale' = [stale EXCEPT ![aim] = stale[aim] \ {c}]
          \/ /\ c \in stale["self"] /\ why' = [why EXCEPT ![t] = "fault"]
             /\ UNCHANGED stale
    /\ UNCHANGED <<traced, trap, posted, home, cpus, foreign, records, attach, left, aim,
                   done, helper, ready, round, flushed, pc, hand, compromised, faults,
                   gaps, history>>

\* The whole HAL is killed.
KillHal ==
    /\ Fault /\ killed' = TRUE
    /\ stat' = [t \in Thread |-> IF t \in Alive THEN "gone" ELSE stat[t]]
    /\ UNCHANGED <<why, traced, trap, posted, home, cpus, foreign, records, attach, flush,
                   pc, hand, compromised, posts, hurt, used, lost>>

Hal == Start \/ End \/ Post \/ Take \/ Stop \/ Helper \/ KillHal

-----------------------------------------------------------------------------
(* trace_attach                                                            *)

\* Mutant of New: the group is not looked up.
NewInListing(ids) == ids

\* trace_group_index finds no record of them.
New(ids) == ids \ group

\* What collect_task_tids returns: who is there; the kernel may skip a thread
\* while it finds its place again after another one has ended.
Listed(ids, missed) ==
    /\ ids # {} /\ gaps + missed <= MaxGaps
    /\ \/ ids = Alive /\ missed = 0
       \/ missed = 1 /\ \E t \in Alive : ids = Alive \ {t}

\* trace_attach returns, and its locals are gone.
Return(ok) ==
    /\ Goto(IF ok THEN "frozen" ELSE "detach") /\ froze' = ok
    /\ todo' = {} /\ added' = FALSE /\ pass' = 0 /\ stable' = 0 /\ gaps' = 0

\* The freeze is given up: what has been stopped so far is let go.
GiveUp == Return(FALSE)

List ==
    /\ pc = "list"
    /\ \/ /\ pass < MaxPasses /\ Goto("seize") /\ UNCHANGED <<pass, stable, froze, faults>>
          /\ \E ids \in SUBSET Thread, missed \in 0 .. 1 :
                /\ Listed(ids, missed) /\ gaps' = gaps + missed
                /\ todo' = New(ids) /\ added' = FALSE
       \/ (pass = MaxPasses \/ Alive = {}) /\ GiveUp /\ UNCHANGED faults
       \/ Fault /\ GiveUp
    /\ UNCHANGED <<kernel, records, flush, hand, compromised, history>>

SeizeAll ==
    /\ pc = "seize" /\ todo = {} /\ Goto("verify")
    /\ UNCHANGED <<kernel, records, attach, flush, hand, compromised, faults, history>>

\* trace_seize_and_stop: PTRACE_SEIZE, ...
Seize == \E t \in todo :
    /\ pc = "seize" /\ hand' = t
    /\ \/ /\ Gone(t) /\ todo' = todo \ {t}
          /\ UNCHANGED <<pc, traced, group, added, pass, stable, froze, gaps, faults>>
       \/ /\ ~Gone(t) /\ todo' = todo \ {t} /\ traced' = traced \cup {t}
          /\ group' = group \cup {t} /\ Goto("interrupt")
          /\ UNCHANGED <<added, pass, stable, froze, gaps, faults>>
       \/ ~Gone(t) /\ Fault /\ GiveUp /\ UNCHANGED <<traced, group>>
    /\ UNCHANGED <<stat, why, trap, posted, home, cpus, foreign, held, resume, regsPending,
                   cpusPending, saved, flush, compromised, history>>

\* ... PTRACE_INTERRUPT, ...
Interrupt ==
    /\ pc = "interrupt"
    /\ \/ /\ Gone(hand) /\ group' = group \ {hand} /\ Goto("seize")
          /\ UNCHANGED <<trap, attach, faults, hurt>>
       \/ /\ ~Gone(hand) /\ trap' = trap \cup {hand} /\ Goto("await")
          /\ UNCHANGED <<group, attach, faults, hurt>>
       \/ /\ ~Gone(hand) /\ Fault /\ GiveUp /\ hurt' = hurt \cup {hand}
          /\ UNCHANGED <<trap, group>>
    /\ UNCHANGED <<stat, why, traced, posted, home, cpus, foreign, held, resume,
                   regsPending, cpusPending, saved, flush, hand, compromised, posts,
                   killed, used, lost>>

\* Mutant of Seen: the signal is forgotten.
SeenOnly(t) == held' = held \cup {t} /\ UNCHANGED resume

\* A stop is seen: a signal is kept for later, the faults of the helper and
\* interrupts are not (trace_capture_resume_signal).
Seen(t) ==
    /\ held' = held \cup {t}
    /\ resume' = IF why[t] = "signal" THEN resume \cup {t} ELSE resume

\* Mutant of Await: a thread that has ended is taken for a failure.
AwaitAlive ==
    /\ pc = "await"
    /\ \/ /\ Halted(hand) /\ Seen(hand) /\ added' = TRUE /\ Goto("seize")
          /\ UNCHANGED <<group, todo, pass, stable, froze, gaps, faults, hurt>>
       \/ Gone(hand) /\ GiveUp /\ UNCHANGED <<group, held, resume, faults, hurt>>
       \/ /\ Fault /\ GiveUp /\ hurt' = hurt \cup {hand}
          /\ UNCHANGED <<group, held, resume>>
    /\ UNCHANGED <<kernel, regsPending, cpusPending, saved, flush, hand, compromised,
                   posts, killed, used, lost>>

\* ... and the wait for its stop.
Await ==
    /\ pc = "await"
    /\ \/ /\ Halted(hand) /\ Seen(hand) /\ added' = TRUE /\ Goto("seize")
          /\ UNCHANGED <<group, todo, pass, stable, froze, gaps, faults, hurt>>
       \/ /\ Gone(hand) /\ group' = group \ {hand} /\ Goto("seize")
          /\ UNCHANGED <<held, resume, attach, faults, hurt>>
       \/ /\ Fault /\ GiveUp /\ hurt' = hurt \cup {hand}
          /\ UNCHANGED <<group, held, resume>>
    /\ UNCHANGED <<kernel, regsPending, cpusPending, saved, flush, hand, compromised,
                   posts, killed, used, lost>>

\* The next pass.
Again(missed) ==
    /\ pass' = pass + 1 /\ gaps' = gaps + missed /\ Goto("list")
    /\ UNCHANGED <<todo, added, froze>>

\* Mutant of StableEnough: the first quiet pass is enough.
StableAtOnce == stable + 1 >= 1

StableEnough == stable + 1 >= StablePasses

\* A second listing: the pass counts as stable if nothing was added and
\* everybody in it is stopped.
Verify ==
    /\ pc = "verify"
    /\ \/ \E ids \in SUBSET Thread, missed \in 0 .. 1 :
             /\ Listed(ids, missed) /\ UNCHANGED faults
             /\ \/ ids \subseteq group \cap held /\ ~added /\ StableEnough /\ Return(TRUE)
                \/ /\ ids \subseteq group \cap held /\ ~added /\ ~StableEnough
                   /\ stable' = stable + 1 /\ Again(missed)
                \/ /\ added \/ ~(ids \subseteq group \cap held)
                   /\ stable' = 0 /\ Again(missed)
       \/ Alive = {} /\ GiveUp /\ UNCHANGED faults
       \/ Fault /\ GiveUp
    /\ UNCHANGED <<kernel, records, flush, hand, compromised, history>>

Attach == List \/ SeizeAll \/ Seize \/ Interrupt \/ Await \/ Verify

-----------------------------------------------------------------------------
(* remote_icache_flush                                                     *)

\* The patcher writes (unless compromised) and synchronises, several times,
\* or the run is refused before its first synchronisation.
Work ==
    /\ pc = "frozen"
    /\ \/ /\ round < Flushes /\ round' = round + 1 /\ Goto("flush")
          /\ flushed' = FALSE
          /\ stale' = IF compromised THEN stale ELSE [stale EXCEPT !["target"] = Cpu]
       \/ round \in {0, Flushes} /\ Goto("detach") /\ UNCHANGED <<round, flushed, stale>>
    /\ UNCHANGED <<kernel, records, attach, left, aim, done, helper, ready, hand,
                   compromised, faults, history>>

\* ensure_cache_helper: verified, or written over zeros; then, before its
\* first use, it synchronises itself.
Ensure ==
    /\ pc = "flush" /\ aim' = IF ready THEN "target" ELSE "self"
    /\ \/ compromised /\ Goto("frozen") /\ UNCHANGED <<helper, ready, stale, faults>>
       \/ /\ ~compromised /\ helper \notin {"own", "zero"} /\ Goto("frozen")
          /\ UNCHANGED <<helper, ready, stale, faults>>
       \/ /\ ~compromised /\ helper = "own" /\ Goto("cpus")
          /\ UNCHANGED <<helper, ready, stale, faults>>
       \/ /\ ~compromised /\ helper = "zero" /\ helper' = "own" /\ Goto("cpus")
          /\ ready' = FALSE /\ stale' = [stale EXCEPT !["self"] = Cpu]
          /\ UNCHANGED faults
       \/ /\ ~compromised /\ Fault /\ Goto("frozen") /\ UNCHANGED ready
          /\ \/ UNCHANGED <<helper, stale>>
             \/ /\ helper = "zero" /\ helper' \in {"zero", "torn"}
                /\ stale' = [stale EXCEPT !["self"] = Cpu]
    /\ UNCHANGED <<kernel, records, attach, left, done, round, flushed, hand, compromised,
                   history>>

\* Mutant of CpuUnion: the affinity of the thread that was looked at last.
CpusOfLast == cpus[hand]

\* union_set
CpuUnion == UNION {cpus[t] : t \in group}

\* execute_cache_helper_all_cpus: the CPUs are those of the threads' affinities.
Cpus ==
    /\ pc = "cpus"
    /\ \/ /\ \A t \in group : t \in held /\ ~Gone(t)
          /\ left' = CpuUnion /\ Goto("bind") /\ UNCHANGED faults
       \/ /\ \E t \in group : t \notin held \/ Gone(t)
          /\ Goto("frozen") /\ UNCHANGED <<left, faults>>
       \/ Fault /\ Goto("frozen") /\ UNCHANGED left
    /\ UNCHANGED <<kernel, records, attach, aim, done, helper, ready, round, flushed,
                   stale, hand, compromised, history>>

\* Every CPU has been done: after itself the helper does the target.
Covered ==
    /\ pc = "bind" /\ left = {}
    /\ IF aim = "self" THEN ready' = TRUE /\ aim' = "target" /\ Goto("cpus") /\ UNCHANGED flushed
       ELSE flushed' = TRUE /\ Goto("frozen") /\ UNCHANGED <<ready, aim>>
    /\ UNCHANGED <<kernel, records, attach, left, done, helper, round, stale, hand,
                   compromised, faults, history>>

\* One CPU: a thread is bound to it, gets the helper's registers and runs.
Borrow(t, c) ==
    /\ cpus' = [cpus EXCEPT ![t] = {c}] /\ saved' = [saved EXCEPT ![t] = cpus[t]]
    /\ cpusPending' = cpusPending \cup {t} /\ used' = used \cup {t}
    /\ \/ /\ foreign' = foreign \cup {t} /\ regsPending' = regsPending \cup {t}
          /\ held' = held \ {t} /\ stat' = [stat EXCEPT ![t] = "runs"]
          /\ Goto("ran") /\ UNCHANGED <<compromised, faults, hurt>>
       \/ /\ Fault /\ Goto("unbind") /\ hurt' = hurt \cup {t}
          /\ UNCHANGED <<foreign, regsPending, held, stat, compromised>>
       \/ /\ faults + posts + 2 <= MaxTroubles /\ faults' = faults + 2
          /\ foreign' = foreign \cup {t} /\ regsPending' = regsPending \cup {t}
          /\ compromised' = TRUE /\ Goto("unbind") /\ hurt' = hurt \cup {t}
          /\ UNCHANGED <<held, stat>>

Bind == \E c \in left : \E t \in group :
    /\ pc = "bind" /\ c \in cpus[t] /\ hand' = t /\ done' = FALSE
    /\ \/ ~Gone(t) /\ Borrow(t, c) /\ left' = left \ {c}
       \/ /\ (Gone(t) /\ UNCHANGED faults) \/ (~Gone(t) /\ Fault)
          /\ Goto("frozen") /\ left' = {}
          /\ UNCHANGED <<used, cpus, saved, cpusPending, foreign, regsPending, held, stat,
                         compromised, hurt>>
    /\ UNCHANGED <<why, traced, trap, posted, home, group, resume, attach, aim, helper,
                   ready, round, flushed, stale, posts, killed, lost>>

\* The thread has stopped: its registers are put back.  Done means that it
\* came to the end of the helper.
Regain ==
    /\ pc \in {"ran", "again"} /\ Halted(hand) /\ Seen(hand) /\ Goto("unbind")
    /\ \/ /\ foreign' = foreign \ {hand} /\ regsPending' = regsPending \ {hand}
          /\ done' = (why[hand] = "brk") /\ UNCHANGED <<compromised, faults, hurt>>
       \/ /\ Fault /\ compromised' = TRUE /\ hurt' = hurt \cup {hand}
          /\ UNCHANGED <<foreign, regsPending, done>>
    /\ UNCHANGED <<stat, why, traced, trap, posted, home, cpus, group, cpusPending, saved,
                   attach, left, aim, helper, ready, round, flushed, stale, hand,
                   posts, killed, used, lost>>

\* It does not stop in time and is interrupted; then it is given up as it is.
Overdue ==
    /\ \/ /\ pc = "ran" /\ ~Gone(hand) /\ Fault /\ Goto("again")
          /\ trap' = trap \cup {hand} /\ UNCHANGED <<regsPending, compromised, hurt>>
       \/ /\ pc = "again" /\ ~Gone(hand) /\ Fault /\ Goto("unbind")
          /\ compromised' = TRUE /\ hurt' = hurt \cup {hand} /\ UNCHANGED <<trap, regsPending>>
       \/ /\ pc \in {"ran", "again"} /\ Gone(hand) /\ Goto("unbind")
          /\ regsPending' = regsPending \ {hand} /\ UNCHANGED <<trap, compromised, faults, hurt>>
    /\ UNCHANGED <<stat, why, traced, posted, home, cpus, foreign, group, held, resume,
                   cpusPending, saved, attach, flush, hand, posts, killed, used, lost>>

\* Its affinity is put back, and the next CPU is due if all went well.
Unbind ==
    /\ pc = "unbind"
    /\ \/ /\ ~Gone(hand) /\ cpus' = [cpus EXCEPT ![hand] = saved[hand]]
          /\ cpusPending' = cpusPending \ {hand}
          /\ IF done THEN Goto("bind") /\ UNCHANGED left ELSE Goto("frozen") /\ left' = {}
          /\ UNCHANGED <<compromised, faults, hurt>>
       \/ /\ Gone(hand) /\ cpusPending' = cpusPending \ {hand} /\ Goto("frozen") /\ left' = {}
          /\ UNCHANGED <<cpus, compromised, faults, hurt>>
       \/ /\ ~Gone(hand) /\ Fault /\ compromised' = TRUE /\ hurt' = hurt \cup {hand}
          /\ Goto("frozen") /\ left' = {} /\ UNCHANGED <<cpus, cpusPending>>
    /\ UNCHANGED <<stat, why, traced, trap, posted, home, foreign, group, held, resume,
                   regsPending, saved, attach, aim, done, helper, ready, round, flushed,
                   stale, hand, posts, killed, used, lost>>

Flush == Work \/ Ensure \/ Cpus \/ Covered \/ Bind \/ Regain \/ Overdue \/ Unbind

-----------------------------------------------------------------------------
(* trace_group_detach_all: one thread after the other, whatever happens to *)
(* those before.                                                           *)

\* The thread is done with, for better or worse.
Drop(t) == group' = group \ {t} /\ Goto("detach")

\* A thread that could not be given back: no more writes in this run.
Abandon(t) == Fault /\ compromised' = TRUE /\ hurt' = hurt \cup {t} /\ Drop(t)

\* trace_force_stop, after a first attempt at the affinity
Halt == \E t \in group :
    /\ pc = "detach" /\ t \notin held /\ ~Gone(t) /\ hand' = t
    /\ trap' = trap \cup {t} /\ Goto("stopping")
    /\ \/ /\ t \in cpusPending /\ cpusPending' = cpusPending \ {t}
          /\ cpus' = [cpus EXCEPT ![t] = saved[t]] /\ UNCHANGED faults
       \/ t \in cpusPending /\ Fault /\ UNCHANGED <<cpus, cpusPending>>
       \/ t \notin cpusPending /\ UNCHANGED <<cpus, cpusPending, faults>>
    /\ UNCHANGED <<stat, why, traced, posted, home, foreign, group, held, resume,
                   regsPending, saved, attach, flush, compromised, history>>

Halting ==
    /\ pc = "stopping"
    /\ \/ /\ Halted(hand) /\ Seen(hand) /\ Goto("detach")
          /\ UNCHANGED <<group, compromised, faults, hurt>>
       \/ /\ Gone(hand) /\ Drop(hand)
          /\ UNCHANGED <<held, resume, compromised, faults, hurt>>
       \/ ~Gone(hand) /\ Abandon(hand) /\ UNCHANGED <<held, resume>>
    /\ UNCHANGED <<kernel, regsPending, cpusPending, saved, attach, flush, hand,
                   posts, killed, used, lost>>

\* Mutant of PutBack: the registers are left to the helper's own restoration.
PutBackAffinity(t) ==
    /\ cpus' = IF t \in cpusPending THEN [cpus EXCEPT ![t] = saved[t]] ELSE cpus
    /\ UNCHANGED foreign

\* What is still pending.
PutBack(t) ==
    /\ cpus' = IF t \in cpusPending THEN [cpus EXCEPT ![t] = saved[t]] ELSE cpus
    /\ foreign' = IF t \in regsPending THEN foreign \ {t} ELSE foreign

\* Affinity, registers, PTRACE_DETACH.  A signal goes with it only from the
\* stop of a signal (or of the helper's end), not from an interrupt's.
Detach == \E t \in group :
    /\ pc = "detach" /\ t \in held /\ ~Gone(t)
    /\ \/ /\ Drop(t) /\ PutBack(t) /\ stat' = [stat EXCEPT ![t] = "runs"]
          /\ traced' = traced \ {t} /\ trap' = trap \ {t} /\ hurt' = hurt \ {t}
          /\ lost' = IF t \in resume /\ why[t] # "event" THEN lost \ {t} ELSE lost
          /\ UNCHANGED <<compromised, faults>>
       \/ Abandon(t) /\ UNCHANGED <<stat, cpus, foreign, traced, trap, lost>>
    /\ UNCHANGED <<why, posted, home, held, resume, regsPending, cpusPending, saved, attach,
                   flush, hand, posts, killed, used>>

DetachGone == \E t \in group :
    /\ pc = "detach" /\ Gone(t) /\ Drop(t)
    /\ UNCHANGED <<kernel, held, resume, regsPending, cpusPending, saved, attach, flush,
                   hand, compromised, faults, history>>

Detached ==
    /\ pc = "detach" /\ group = {} /\ Goto("exit")
    /\ UNCHANGED <<kernel, records, attach, flush, hand, compromised, faults, history>>

\* The patcher ends, and the kernel lets go of whoever is still traced.
Release ==
    /\ Goto("gone") /\ traced' = {} /\ trap' = {}
    /\ stat' = [t \in Thread |-> IF Halted(t) THEN "runs" ELSE stat[t]]
    /\ lost' = lost \ {t \in Thread : Halted(t) /\ why[t] = "signal"}
    /\ UNCHANGED <<why, posted, home, cpus, foreign, records, attach, flush, hand,
                   compromised, posts, hurt, used>>

Exit  == pc = "exit" /\ Release /\ UNCHANGED <<faults, killed>>
Crash == pc \notin {"exit", "gone"} /\ Release /\ Fault /\ killed' = TRUE

Detaching == Halt \/ Halting \/ Detach \/ DetachGone \/ Detached \/ Exit

-----------------------------------------------------------------------------
Init ==
    /\ stat = [t \in Thread |-> IF t \in Early THEN "runs" ELSE "unborn"]
    /\ why = [t \in Thread |-> "event"]
    /\ home \in Homes /\ cpus = home /\ saved = home
    /\ traced = {} /\ trap = {} /\ posted = {} /\ foreign = {}
    /\ group = {} /\ held = {} /\ resume = {} /\ regsPending = {} /\ cpusPending = {}
    /\ pc = "list" /\ hand = Leader
    /\ todo = {} /\ added = FALSE /\ pass = 0 /\ stable = 0 /\ froze = FALSE
    /\ left = {} /\ aim = "self" /\ done = FALSE /\ helper \in {"zero", "own", "else"}
    /\ ready = FALSE /\ round = 0 /\ flushed = FALSE /\ compromised = FALSE
    /\ stale = [b \in {"self", "target"} |-> Cpu]
    /\ faults = 0 /\ gaps = 0 /\ posts = 0
    /\ killed = FALSE /\ hurt = {} /\ used = {} /\ lost = {}

Patcher == Attach \/ Flush \/ Detaching

\* Nothing is left to do; the model stops here and nowhere else.
Ended == pc = "gone" /\ UNCHANGED vars

Next == Hal \/ Patcher \/ Crash \/ Ended

Spec == Init /\ [][Next]_vars

-----------------------------------------------------------------------------
\* The variables have their types, and nobody is about to be seized twice.
TypeOK ==
    /\ stat \in [Thread -> {"unborn", "runs", "stop", "gone"}]
    /\ why \in [Thread -> {"event", "signal", "brk", "fault"}]
    /\ home \in [Thread -> SUBSET Cpu] /\ cpus \in [Thread -> SUBSET Cpu]
    /\ saved \in [Thread -> SUBSET Cpu]
    /\ traced \subseteq Thread /\ trap \subseteq Thread /\ posted \subseteq Thread
    /\ foreign \subseteq Thread /\ group \subseteq Thread /\ held \subseteq Thread
    /\ resume \subseteq Thread /\ regsPending \subseteq Thread
    /\ cpusPending \subseteq Thread /\ todo \subseteq Thread \ group
    /\ hurt \subseteq Thread /\ used \subseteq Thread /\ lost \subseteq Thread
    /\ pc \in Label /\ hand \in Thread /\ aim \in {"self", "target"}
    /\ added \in BOOLEAN /\ froze \in BOOLEAN /\ done \in BOOLEAN /\ ready \in BOOLEAN
    /\ flushed \in BOOLEAN /\ compromised \in BOOLEAN /\ killed \in BOOLEAN
    /\ helper \in {"zero", "own", "torn", "else"} /\ left \subseteq Cpu
    /\ stale \in [{"self", "target"} -> SUBSET Cpu]
    /\ pass \in Nat /\ stable \in Nat /\ round \in Nat
    /\ gaps \in Nat /\ faults \in Nat /\ posts \in Nat

\* From the success of trace_attach to the first detach no thread executes
\* the HAL's own code, threads included that were born while the others were
\* being stopped, if fewer listings missed one than passes must be quiet in a
\* row.  (One miss in each is enough to break it: a listed thread starts another
\* and ends before it is seized, and the second listing misses the new one.)
NobodyRuns == pc \in Frozen => \A t \in Thread : Runs(t) => t \in foreign

\* When remote_icache_flush reports success, no CPU on which a thread may run
\* fetches older bytes.
FlushReachesAll ==
    pc = "frozen" /\ flushed => \A t \in Alive : home[t] \cap stale["target"] = {}

\* Every thread gets its own registers and affinity back, also when the freeze
\* is given up half way, when others could not be given back, and when cache
\* maintenance failed on it; except one for which the last attempt, too, failed.
GivenBack ==
    pc = "gone" /\ ~killed => \A t \in Alive \ hurt : t \notin foreign /\ cpus[t] = home[t]

\* A signal that stopped a thread while the patcher was stopping it goes on with
\* it, whatever fails and whoever is killed.  Not so for a thread that is borrowed
\* afterwards: it may come back from the helper in the stop of an interrupt, where
\* PTRACE_DETACH injects nothing.
SignalsReturn ==
    pc = "gone" => lost \cap Alive \subseteq used

\* The freeze copes with threads that start and end: it gives up only when a
\* call has failed or the HAL is dead.
GivesUpForCause == pc = "gone" /\ ~killed /\ faults = 0 => froze

=============================================================================
