------------------------------ MODULE PidLock -------------------------------
(***************************************************************************)
(* The lock directories of bin/a2h_apply (a2h_config.lock and              *)
(* a2h_apply.lock): mkdir claims the lock, a file "pid" inside names its   *)
(* owner by process id and start time, and a waiter takes the lock of a    *)
(* dead owner away after it has seen the same dead owner three times, one  *)
(* second apart.  Each step is one system call.                            *)
(*                                                                         *)
(* A member of Process is a process id together with its start time, so a  *)
(* reused process id is another member.                                    *)
(***************************************************************************)
EXTENDS Integers, FiniteSets

CONSTANTS
    Process,
    Tries,        \* the waits of one acquire_*_lock: 20 or 60
    Timed,        \* does a sleep outlast what the others run without one?
    MaxStarts,    \* bound on the calls of acquire_*_lock
    MaxCrashes    \* bound on the processes that are killed

ASSUME BoundsAssumption ==
    Tries \in Nat /\ MaxStarts \in Nat /\ MaxCrashes \in Nat /\ Timed \in BOOLEAN

Missing == "missing"   \* no file pid
ASSUME MissingAssumption == Missing \notin Process

VARIABLES
    dir,       \* does the lock directory exist?
    pid,       \* the content of its file pid
    pc,        \* per process: its next system call
    try,       \* per process: config_try, apply_try
    round,     \* per process: which of the three looks at a stale lock
    token,     \* per process: LOCK_OWNER_TOKEN, the owner read last
    owner,     \* per process: stale_owner_1, then stale_owner_2
    starts, crashes,
    stolen,    \* history: was a live process's lock removed by another?
    old        \* history: who has held the lock since the last tick or longer

vars == <<dir, pid, pc, try, round, token, owner, starts, crashes, stolen, old>>

\* Sleeping in stale_lock_recheck or in acquire_*_lock.
Asleep == {"sleep", "wait"}
\* Claimed the directory and not yet given it back.
Owning == {"write", "verify", "held", "unlink", "rmdir"}
Label == {"rest", "mkdir", "isdir", "token", "probe", "cat", "reap", "reapdir",
          "undo", "undodir", "dead"} \cup Asleep \cup Owning

Goto(p, label) == pc' = [pc EXCEPT ![p] = label]
Alive(q) == pc[q] # "dead"

\* A removal by p that takes the lock from another process that still runs.
Steals(p) == stolen' = (stolen \/ \E q \in Process \ {p} : pc[q] \in Owning)

-----------------------------------------------------------------------------
(* claim_pid_lock                                                          *)

Start(p) ==
    /\ pc[p] = "rest" /\ starts < MaxStarts /\ Goto(p, "mkdir")
    /\ starts' = starts + 1 /\ try' = [try EXCEPT ![p] = 0]
    /\ UNCHANGED <<dir, pid, round, token, owner, crashes, stolen, old>>

\* Mutant of Mkdir: a directory that is there already is taken for its own.
MkdirAnyway(p) ==
    /\ pc[p] = "mkdir" /\ dir' = TRUE /\ Goto(p, "write")
    /\ UNCHANGED <<pid, try, round, token, owner, starts, crashes, stolen, old>>

Mkdir(p) ==
    /\ pc[p] = "mkdir" /\ dir' = TRUE
    /\ Goto(p, IF dir THEN "isdir" ELSE "write")
    /\ round' = [round EXCEPT ![p] = 1]
    /\ UNCHANGED <<pid, try, token, owner, starts, crashes, stolen, old>>

\* The file cannot be created when the directory is gone.
WritePid(p) ==
    /\ pc[p] = "write"
    /\ IF dir THEN pid' = p /\ Goto(p, "verify") ELSE Goto(p, "undo") /\ UNCHANGED pid
    /\ UNCHANGED <<dir, try, round, token, owner, starts, crashes, stolen, old>>

Verify(p) ==
    /\ pc[p] = "verify" /\ Goto(p, IF pid = p THEN "held" ELSE "undo")
    /\ UNCHANGED <<dir, pid, try, round, token, owner, starts, crashes, stolen, old>>

\* A claim that failed is withdrawn, and acquire_*_lock gives up.
Undo(p) ==
    /\ pc[p] = "undo" /\ Goto(p, "undodir") /\ pid' = Missing
    /\ IF pid = Missing THEN UNCHANGED stolen ELSE Steals(p)
    /\ UNCHANGED <<dir, try, round, token, owner, starts, crashes, old>>

\* rmdir removes only an empty directory.
Rmdir(p) ==
    /\ dir' = (dir /\ pid # Missing)
    /\ IF dir /\ pid = Missing THEN Steals(p) ELSE UNCHANGED stolen

UndoDir(p) ==
    /\ pc[p] = "undodir" /\ Goto(p, "rest") /\ Rmdir(p)
    /\ UNCHANGED <<pid, try, round, token, owner, starts, crashes, old>>

-----------------------------------------------------------------------------
(* release_pid_lock                                                        *)

\* Only the owner removes the lock.
Release(p) ==
    /\ pc[p] = "held" /\ Goto(p, IF pid = p THEN "unlink" ELSE "rest")
    /\ old' = old \ {p}
    /\ UNCHANGED <<dir, pid, try, round, token, owner, starts, crashes, stolen>>

Unlink(p) ==
    /\ pc[p] = "unlink" /\ Goto(p, "rmdir") /\ pid' = Missing
    /\ IF pid = Missing THEN UNCHANGED stolen ELSE Steals(p)
    /\ UNCHANGED <<dir, try, round, token, owner, starts, crashes, old>>

ReleaseDir(p) ==
    /\ pc[p] = "rmdir" /\ Goto(p, "rest") /\ Rmdir(p)
    /\ UNCHANGED <<pid, try, round, token, owner, starts, crashes, old>>

-----------------------------------------------------------------------------
(* stale_lock_recheck                                                      *)

\* Where a look at the lock ends: wait for the next try, or give up.
GiveUp(p) == Goto(p, IF try[p] < Tries THEN "wait" ELSE "rest")

IsDir(p) ==
    /\ pc[p] = "isdir"
    /\ IF dir THEN Goto(p, "token") ELSE GiveUp(p)
    /\ UNCHANGED <<dir, pid, try, round, token, owner, starts, crashes, stolen, old>>

\* lock_owner_alive: no readable owner is a dead owner.
ReadToken(p) ==
    /\ pc[p] = "token" /\ token' = [token EXCEPT ![p] = pid]
    /\ Goto(p, IF pid = Missing THEN "cat" ELSE "probe")
    /\ UNCHANGED <<dir, pid, try, round, owner, starts, crashes, stolen, old>>

\* Mutant of ProbeOwner: the owner is never found alive.
ProbeOwnerBlind(p) ==
    /\ pc[p] = "probe" /\ Goto(p, "cat")
    /\ UNCHANGED <<dir, pid, try, round, token, owner, starts, crashes, stolen, old>>

ProbeOwner(p) ==
    /\ pc[p] = "probe"
    /\ IF Alive(token[p]) THEN GiveUp(p) ELSE Goto(p, "cat")
    /\ UNCHANGED <<dir, pid, try, round, token, owner, starts, crashes, stolen, old>>

\* Mutant of ReadOwner: the first look is compared with nothing and fails.
ReadOwnerNever(p) ==
    /\ pc[p] = "cat" /\ GiveUp(p) /\ owner' = [owner EXCEPT ![p] = pid]
    /\ UNCHANGED <<dir, pid, try, round, token, starts, crashes, stolen, old>>

\* The owner must be the one of the look before.
ReadOwner(p) ==
    /\ pc[p] = "cat" /\ owner' = [owner EXCEPT ![p] = pid]
    /\ IF round[p] > 1 /\ owner[p] # pid THEN GiveUp(p)
       ELSE Goto(p, IF round[p] < 3 THEN "sleep" ELSE "reap")
    /\ UNCHANGED <<dir, pid, try, round, token, starts, crashes, stolen, old>>

Reap(p) ==
    /\ pc[p] = "reap" /\ Goto(p, "reapdir") /\ pid' = Missing
    /\ IF pid = Missing THEN UNCHANGED stolen ELSE Steals(p)
    /\ UNCHANGED <<dir, try, round, token, owner, starts, crashes, old>>

ReapDir(p) ==
    /\ pc[p] = "reapdir" /\ GiveUp(p) /\ Rmdir(p)
    /\ UNCHANGED <<pid, try, round, token, owner, starts, crashes, old>>

-----------------------------------------------------------------------------
\* The sleep of the processes in S ends.  In a timed system it has lasted
\* longer than everything that runs without sleeping, so nobody runs just
\* then; a lock may be held for many seconds.
Tick ==
    \E S \in SUBSET {p \in Process : pc[p] \in Asleep} \ {{}} :
      /\ Timed => \A p \in Process : pc[p] \in {"rest", "held", "dead"} \cup Asleep
      /\ pc' = [p \in Process |-> IF p \notin S THEN pc[p]
                                  ELSE IF pc[p] = "wait" THEN "mkdir" ELSE "isdir"]
      /\ round' = [p \in Process |->
                      IF p \in S /\ pc[p] = "sleep" THEN round[p] + 1 ELSE round[p]]
      /\ try' = [p \in Process |->
                      IF p \in S /\ pc[p] = "wait" THEN try[p] + 1 ELSE try[p]]
      /\ old' = {p \in Process : pc[p] = "held" /\ dir /\ pid = p}
      /\ UNCHANGED <<dir, pid, token, owner, starts, crashes, stolen>>

\* kill -9, or the end of a process that leaves nothing behind.
Crash(p) ==
    /\ Alive(p) /\ crashes < MaxCrashes /\ Goto(p, "dead")
    /\ crashes' = crashes + 1
    /\ UNCHANGED <<dir, pid, try, round, token, owner, starts, stolen, old>>

Init ==
    /\ dir = FALSE /\ pid = Missing
    /\ pc = [p \in Process |-> "rest"]
    /\ try = [p \in Process |-> 0] /\ round = [p \in Process |-> 1]
    /\ token = [p \in Process |-> Missing] /\ owner = [p \in Process |-> Missing]
    /\ starts = 0 /\ crashes = 0 /\ stolen = FALSE /\ old = {}

Claim(p) == Mkdir(p) \/ WritePid(p) \/ Verify(p) \/ Undo(p) \/ UndoDir(p)
GiveBack(p) == Release(p) \/ Unlink(p) \/ ReleaseDir(p)
Recheck(p) ==
    \/ IsDir(p) \/ ReadToken(p) \/ ProbeOwner(p) \/ ReadOwner(p)
    \/ Reap(p) \/ ReapDir(p)

Next ==
    \/ \E p \in Process : Start(p) \/ Claim(p) \/ GiveBack(p) \/ Recheck(p) \/ Crash(p)
    \/ Tick

Spec == Init /\ [][Next]_vars

\* A process that runs keeps running, and sleeps end.
FairSpec ==
    /\ Spec /\ WF_vars(Tick)
    /\ \A p \in Process : WF_vars(Claim(p) \/ GiveBack(p) \/ Recheck(p))

-----------------------------------------------------------------------------
TypeOK ==
    /\ dir \in BOOLEAN /\ stolen \in BOOLEAN
    /\ pid \in Process \cup {Missing}
    /\ pc \in [Process -> Label]
    /\ try \in [Process -> Nat] /\ round \in [Process -> Nat]
    /\ token \in [Process -> Process \cup {Missing}]
    /\ owner \in [Process -> Process \cup {Missing}]
    /\ starts \in Nat /\ crashes \in Nat /\ old \subseteq Process

\* Two processes are never between acquire_*_lock and release_*_lock.
Mutex == \A p, q \in Process : pc[p] = "held" /\ pc[q] = "held" => p = q

\* A lock that its owner has held for a while is not taken away from it,
\* however many wait for it and whatever happened before: the looks of
\* stale_lock_recheck see its owner alive.
OldLockKept == Timed => \A p \in old : pc[p] = "held" => dir /\ pid = p

\* What the claim, its verification and the release guarantee by themselves:
\* only a lock that was removed under its owner can have two.
OnlyTheftBreaksMutex == stolen \/ Mutex

\* The lock of a killed process does not stay when somebody asks for it.
DeadLockReaped ==
    \A d, p \in Process :
        (~Alive(d) /\ dir /\ pid = d /\ pc[p] = "isdir" /\ round[p] = 1)
            ~> (pid # d \/ ~Alive(p))
=============================================================================
