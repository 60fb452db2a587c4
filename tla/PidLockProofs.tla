--------------------------- MODULE PidLockProofs ----------------------------
(***************************************************************************)
(* For any number of processes, tries, starts and crashes: what the lock   *)
(* directories of bin/a2h_apply guarantee, and what they do not.           *)
(***************************************************************************)
EXTENDS PidLock, TLAPS

USE DEF Asleep, Owning

\* The types of all variables, for any number of processes and failures.
THEOREM Typing == Spec => []TypeOK
<1> USE DEF TypeOK, Goto
<1>1. Init => TypeOK
  <2> SUFFICES ASSUME Init PROVE TypeOK
    OBVIOUS
  <2>1. dir \in BOOLEAN /\ stolen \in BOOLEAN /\ starts \in Nat /\ crashes \in Nat
    BY DEF Init
  <2>2. pc \in [Process -> Label]
    BY DEF Init, Label
  <2> QED BY <2>1, <2>2 DEF Init
<1>2. TypeOK /\ [Next]_vars => TypeOK'
  <2> SUFFICES ASSUME TypeOK, Next PROVE TypeOK'
    BY DEF vars
  <2>1. ASSUME NEW p \in Process, Start(p) \/ Crash(p) PROVE TypeOK'
    BY <2>1 DEF Start, Crash, Label
  <2>2. ASSUME NEW p \in Process, Claim(p) PROVE TypeOK'
    <3>1. CASE Mkdir(p)
      BY <3>1 DEF Mkdir, Label
    <3>2. CASE WritePid(p) \/ Verify(p)
      BY <3>2 DEF WritePid, Verify, Label
    <3>3. CASE Undo(p) \/ UndoDir(p)
      BY <3>3 DEF Undo, UndoDir, Rmdir, Steals, Label
    <3> QED BY <2>2, <3>1, <3>2, <3>3 DEF Claim
  <2>3. ASSUME NEW p \in Process, GiveBack(p) PROVE TypeOK'
    BY <2>3 DEF GiveBack, Release, Unlink, ReleaseDir, Rmdir, Steals, Label
  <2>4. ASSUME NEW p \in Process, Recheck(p) PROVE TypeOK'
    <3>1. CASE IsDir(p) \/ ProbeOwner(p)
      BY <3>1 DEF IsDir, ProbeOwner, GiveUp, Label
    <3>2. CASE ReadToken(p)
      BY <3>2 DEF ReadToken, Label
    <3>3. CASE ReadOwner(p)
      BY <3>3 DEF ReadOwner, GiveUp, Label
    <3>4. CASE Reap(p) \/ ReapDir(p)
      BY <3>4 DEF Reap, ReapDir, Rmdir, Steals, GiveUp, Label
    <3> QED BY <2>4, <3>1, <3>2, <3>3, <3>4 DEF Recheck
  <2>5. ASSUME Tick PROVE TypeOK'
    BY <2>5 DEF Tick, Label
  <2> QED BY <2>1, <2>2, <2>3, <2>4, <2>5 DEF Next
<1> QED BY <1>1, <1>2, PTL DEF Spec

-----------------------------------------------------------------------------
(* A lock that has been held for a while.                                  *)

\* Where the other processes can be while such a lock is held: none of them
\* is about to remove anything, and a waiter has found the right owner.
Harmless(p, q) ==
    /\ pc[q] \in {"rest", "mkdir", "isdir", "token", "probe", "held", "dead"} \cup Asleep
    /\ pc[q] = "probe" => token[q] = p

Kept(p) == dir /\ pid = p /\ \A q \in Process \ {p} : Harmless(p, q)

OldInv == \A p \in old : /\ pc[p] \in {"held", "dead"}
                         /\ Timed /\ pc[p] = "held" => Kept(p)

\* A step of another process leaves a kept lock kept.
LEMMA KeptStep ==
    ASSUME TypeOK, NEW p \in Process, pc[p] = "held", Kept(p), NEW r \in Process, r # p,
           Start(r) \/ Claim(r) \/ GiveBack(r) \/ Recheck(r) \/ Crash(r)
    PROVE  Kept(p)'
<1> USE MissingAssumption DEF TypeOK, Goto, Kept, Harmless
<1>1. /\ dir /\ pid = p /\ Alive(p)
      /\ pc[r] \in {"rest", "mkdir", "isdir", "token", "probe", "held", "dead"} \cup Asleep
      /\ pc[r] = "probe" => token[r] = p
  BY DEF Alive
<1>2. CASE Start(r) \/ Crash(r)
  BY <1>1, <1>2 DEF Start, Crash
<1>3. CASE Claim(r)
  <2>1. Mkdir(r)
    BY <1>1, <1>3 DEF Claim, WritePid, Verify, Undo, UndoDir
  <2> QED BY <1>1, <2>1 DEF Mkdir
<1>4. CASE GiveBack(r)
  <2>1. Release(r)
    BY <1>1, <1>4 DEF GiveBack, Unlink, ReleaseDir
  <2> QED BY <1>1, <2>1 DEF Release
<1>5. CASE Recheck(r)
  <2>1. IsDir(r) \/ ReadToken(r) \/ ProbeOwner(r)
    BY <1>1, <1>5 DEF Recheck, ReadOwner, Reap, ReapDir
  <2>2. CASE IsDir(r)
    BY <1>1, <2>2 DEF IsDir
  <2>3. CASE ReadToken(r)
    BY <1>1, <2>3 DEF ReadToken
  <2>4. CASE ProbeOwner(r)
    BY <1>1, <2>4 DEF ProbeOwner, GiveUp
  <2> QED BY <2>1, <2>2, <2>3, <2>4
<1> QED BY <1>2, <1>3, <1>4, <1>5

LEMMA OldStep == TypeOK /\ OldInv /\ [Next]_vars => OldInv'
<1>0. CASE UNCHANGED vars
  BY <1>0 DEF OldInv, Kept, Harmless, vars
<1> SUFFICES ASSUME TypeOK, OldInv, Next PROVE OldInv'
  BY <1>0
<1>1. CASE Tick
  BY <1>1, MissingAssumption DEF Tick, OldInv, Kept, Harmless, TypeOK
<1>2. ASSUME NEW r \in Process,
             Start(r) \/ Claim(r) \/ GiveBack(r) \/ Recheck(r) \/ Crash(r)
      PROVE  OldInv'
  <2>1. old' \in SUBSET old /\ (Release(r) => old' = old \ {r})
    BY <1>2 DEF Start, Claim, Mkdir, WritePid, Verify, Undo, UndoDir, GiveBack, Release,
       Unlink, ReleaseDir, Recheck, IsDir, ReadToken, ProbeOwner, ReadOwner, Reap,
       ReapDir, Crash
  <2>2. \A p \in Process \ {r} : pc'[p] = pc[p]
    BY <1>2 DEF Start, Claim, Mkdir, WritePid, Verify, Undo, UndoDir, GiveBack, Release,
       Unlink, ReleaseDir, Recheck, IsDir, ReadToken, ProbeOwner, ReadOwner, Reap,
       ReapDir, Crash, GiveUp, Goto, TypeOK
  <2>3. r \in old' => pc'[r] = "dead"
    <3> SUFFICES ASSUME r \in old' PROVE pc'[r] = "dead"
      OBVIOUS
    <3>1. pc[r] \in {"held", "dead"} /\ ~Release(r)
      BY <2>1 DEF OldInv
    <3>2. Crash(r)
      BY <1>2, <3>1 DEF Start, Claim, Mkdir, WritePid, Verify, Undo, UndoDir, GiveBack,
         Unlink, ReleaseDir, Recheck, IsDir, ReadToken, ProbeOwner, ReadOwner, Reap,
         ReapDir
    <3> QED BY <3>2 DEF Crash, Goto, TypeOK
  <2>4. ASSUME NEW p \in old', p # r
        PROVE  pc'[p] \in {"held", "dead"} /\ (Timed /\ pc'[p] = "held" => Kept(p)')
    <3>1. p \in old /\ p \in Process
      BY <2>1, <2>4 DEF TypeOK
    <3>2. pc'[p] = pc[p]
      BY <2>2, <2>4, <3>1
    <3>3. Timed /\ pc[p] = "held" => Kept(p)
      BY <3>1 DEF OldInv
    <3> QED BY <1>2, <2>4, <3>1, <3>2, <3>3, KeptStep DEF OldInv
  <2> QED BY <2>3, <2>4 DEF OldInv
<1> QED BY <1>1, <1>2 DEF Next

\* OldLockKept, for any number of processes: a lock that has been held since
\* a sleep of any waiter is not taken from its owner while that owner lives.
THEOREM HeldLockIsKept == Spec => []OldLockKept
<1>1. Init => OldInv
  BY DEF Init, OldInv
<1>2. Spec => []TypeOK
  BY Typing
<1>3. OldInv => OldLockKept
  BY DEF OldInv, OldLockKept, Kept
<1> QED BY <1>1, <1>2, <1>3, OldStep, PTL DEF Spec

-----------------------------------------------------------------------------
(* What the claim and the release guarantee by themselves.                 *)

\* As long as nothing was stolen, one process at most has the directory, and
\* once it has verified its claim the file names it.
OwnInv ==
    ~stolen => /\ \A p, q \in Process : pc[p] \in Owning /\ pc[q] \in Owning => p = q
               /\ \A p \in Process :
                     /\ pc[p] \in Owning => dir
                     /\ pc[p] \in {"verify", "held", "unlink"} => pid = p
                     /\ pc[p] \notin {"undo", "undodir"}

LEMMA OwnStep == TypeOK /\ OwnInv /\ [Next]_vars => OwnInv'
<1>0. CASE UNCHANGED vars
  BY <1>0 DEF OwnInv, vars
<1> SUFFICES ASSUME TypeOK, OwnInv, Next, ~stolen' PROVE OwnInv'
  BY <1>0 DEF OwnInv
<1> USE DEF TypeOK, Goto, OwnInv
<1>1. CASE Tick
  BY <1>1 DEF Tick
<1>2. ASSUME NEW p \in Process, Start(p) \/ Crash(p) PROVE OwnInv'
  BY <1>2 DEF Start, Crash
<1>3. ASSUME NEW p \in Process, Claim(p) PROVE OwnInv'
  <2>1. CASE Mkdir(p)
    BY <2>1 DEF Mkdir
  <2>2. CASE WritePid(p) \/ Verify(p)
    BY <2>2 DEF WritePid, Verify
  <2>3. CASE Undo(p) \/ UndoDir(p)
    BY <2>3 DEF Undo, UndoDir, Rmdir, Steals
  <2> QED BY <1>3, <2>1, <2>2, <2>3 DEF Claim
<1>4. ASSUME NEW p \in Process, GiveBack(p) PROVE OwnInv'
  <2>1. CASE Release(p)
    BY <2>1 DEF Release
  <2>2. CASE Unlink(p)
    BY <2>2 DEF Unlink, Steals
  <2>3. CASE ReleaseDir(p)
    BY <2>3 DEF ReleaseDir, Rmdir, Steals
  <2> QED BY <1>4, <2>1, <2>2, <2>3 DEF GiveBack
<1>5. ASSUME NEW p \in Process, Recheck(p) PROVE OwnInv'
  <2>1. CASE IsDir(p) \/ ProbeOwner(p)
    BY <2>1 DEF IsDir, ProbeOwner, GiveUp
  <2>2. CASE ReadToken(p) \/ ReadOwner(p)
    BY <2>2 DEF ReadToken, ReadOwner, GiveUp
  <2>3. CASE Reap(p)
    BY <2>3 DEF Reap, Steals
  <2>4. CASE ReapDir(p)
    BY <2>4 DEF ReapDir, Rmdir, Steals, GiveUp
  <2> QED BY <1>5, <2>1, <2>2, <2>3, <2>4 DEF Recheck
<1> QED BY <1>1, <1>2, <1>3, <1>4, <1>5 DEF Next

\* OnlyTheftBreaksMutex, for any number of processes and without any timing
\* assumption: two owners need a lock that was removed under a live owner.
THEOREM MutexUnlessStolen == Spec => []OnlyTheftBreaksMutex
<1>1. Init => OwnInv
  BY DEF Init, OwnInv
<1>2. Spec => []TypeOK
  BY Typing
<1>3. OwnInv => OnlyTheftBreaksMutex
  BY DEF OwnInv, OnlyTheftBreaksMutex, Mutex
<1> QED BY <1>1, <1>2, <1>3, OwnStep, PTL DEF Spec
=============================================================================
