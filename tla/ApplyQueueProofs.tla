-------------------------- MODULE ApplyQueueProofs --------------------------
(***************************************************************************)
(* Theorems about ApplyQueue for every set of processes, configurations    *)
(* and budgets.                                                            *)
(***************************************************************************)
EXTENDS ApplyQueue, TLAPS

-----------------------------------------------------------------------------
(* The values that the actions build from well-typed ones.                 *)

LEMMA NoLocType == NoLoc \in Local /\ NoMeta \in Marker /\ Dirty \in Marker
  BY ConfigAssumption
  DEF NoLoc, Local, NoConf, NoMeta, Dirty, Marker, Snap, Snapshot

LEMMA SnapType == \A c \in Conf : Snap(c) \in Snapshot
  BY DEF Conf, Snap, Snapshot

LEMMA PrepareType ==
    ASSUME TypeOK, PrepareFiles
    PROVE  /\ Snap(conf) \in Snapshot /\ NextRev \in Nat
           /\ tmpPkgs' \in Pkgs \cup {None} /\ meta' \in Marker
  BY SnapType DEF TypeOK, PrepareFiles, NextRev, Marker, Conf

LEMMA PreparedType ==
    ASSUME TypeOK, NEW a \in Actor
    PROVE  Prepared(a) \in Marker
  BY DEF TypeOK, Prepared, Marker, Local, Conf, Snap, Snapshot, NoMeta

LEMMA RulesType ==
    ASSUME NEW m \in Mode, NEW p \in Pkgs \cup {None}
    PROVE  Rules(m, p) \in HalRules
  BY DEF HalRules

LEMMA UnpatchedType == Stock \in HalRules /\ Torn \in HalRules
  BY DEF HalRules

LEMMA EditType ==
    ASSUME TypeOK, NEW c \in Conf, Edit(c)
    PROVE  /\ conf' \in Conf /\ used' \in [Budget -> Nat] /\ seen' \subseteq Snapshot
  BY SnapType DEF TypeOK, Edit, Budget

LEMMA ReturnsType ==
    ASSUME TypeOK, NEW a \in Actor, NEW rc, Returns(a, rc)
    PROVE  pc' \in [Actor -> Label] /\ loc' \in [Actor -> Local]
<1> USE NoLocType DEF TypeOK, Goto, Forget, Label, Preparing
<1>1. CASE a \in Worker /\ ~(a \in Client) /\ a # Service
  <2>1. [NoLoc EXCEPT !.raw = loc[a].raw, !.marker = loc[a].marker] \in Local
    BY DEF Local
  <2> QED BY <1>1, <2>1 DEF Returns
<1>2. CASE a \in Client /\ ~(a \in Worker) /\ a # Service
  BY <1>2 DEF Returns
<1>3. CASE a = Service /\ ~(a \in Client) /\ ~(a \in Worker)
  BY <1>3 DEF Returns
<1> QED BY <1>1, <1>2, <1>3, ActorsDisjoint DEF Actor

\* Every variable keeps its type.
THEOREM Typing == Spec => []TypeOK
<1>1. Init => TypeOK
  BY BoundsAssumption, ConfigAssumption
  DEF Init, TypeOK, Conf, Snapshot, Snap, Marker, NoMeta, NoConf, NoLoc, Local,
      HalRules, Label, Preparing, Budget, Actor
<1>2. TypeOK /\ [Next]_vars => TypeOK'
  <2> SUFFICES ASSUME TypeOK, [Next]_vars PROVE TypeOK'
    OBVIOUS
  <2> USE NoLocType
  <2> USE DEF TypeOK, OnlyPc, files, CanSpend, Fault, At, Goto, Forget, Keep,
              Label, Preparing, Budget
  <2>1. ASSUME NEW c \in Client, CommitQueue(c) PROVE TypeOK'
    BY <2>1, SnapType DEF CommitQueue, Edit, NoOtherFile, Conf, Actor
  <2>2. ASSUME NEW c \in Client, SetControls(c) PROVE TypeOK'
    <3>1. conf' \in Conf /\ used' \in [Budget -> Nat] /\ seen' \subseteq Snapshot
      BY <2>2, EditType DEF SetControls, Conf
    <3>2. pc' \in [Actor -> Label]
      BY <2>2 DEF SetControls, Actor
    <3>3. loc' \in [Actor -> Local]
      BY <2>2 DEF SetControls, Actor, Local
    <3> QED BY <2>2, <3>1, <3>2, <3>3 DEF SetControls, NoOtherFile
  <2>3. ASSUME NEW c \in Client, RunCommand(c) PROVE TypeOK'
    <3>1. conf' \in Conf /\ used' \in [Budget -> Nat] /\ seen' \subseteq Snapshot
      BY <2>3, EditType DEF RunCommand
    <3>2. pc' \in [Actor -> Label]
      BY <2>3 DEF RunCommand, Actor
    <3>3. loc' \in [Actor -> Local]
      <4>1. UNCHANGED loc \/ Keep(c, "op", "apply") \/ Keep(c, "op", "check")
        BY <2>3 DEF RunCommand
      <4> QED BY <4>1 DEF Actor, Local
    <3> QED BY <2>3, <3>1, <3>2, <3>3 DEF RunCommand, NoOtherFile
  <2>4. ASSUME NEW c \in Client, ClientStep(c) PROVE TypeOK'
    <3>1. CASE MarkDirty(c)
      BY <3>1 DEF MarkDirty, Mark, Actor
    <3>2. CASE QueuePrepare(c)
      BY <3>2, PrepareType DEF QueuePrepare, PrepareConfig, PrepareFiles, Actor, Local
    <3>3. CASE MarkPending(c)
      BY <3>3, PreparedType DEF MarkPending, Mark, Actor
    <3>4. CASE SnapshotOnly(c)
      BY <3>4, PrepareType DEF SnapshotOnly, PrepareFiles, Actor
    <3>5. CASE StartWorker(c)
      BY <3>5 DEF StartWorker, Actor
    <3> QED BY <2>4, <3>1, <3>2, <3>3, <3>4, <3>5 DEF ClientStep
  <2>5. ASSUME NEW c \in Client, StartFails(c) PROVE TypeOK'
    BY <2>5 DEF StartFails, Actor
  <2>6. ASSUME NEW a \in Actor, ApplyStep(a) PROVE TypeOK'
    <3>1. CASE AcquireApplyLock(a)
      BY <3>1 DEF AcquireApplyLock
    <3>2. CASE ApplyPrepare(a)
      BY <3>2, PrepareType DEF ApplyPrepare, PrepareConfig, PrepareFiles, Local
    <3>3. CASE Patch(a)
      <4>1. Rules(loc[a].raw.mode, tmpPkgs) \in HalRules
        BY RulesType, ConfigAssumption DEF Local, Conf, NoConf
      <4> QED BY <3>3, <4>1 DEF Patch, Local
    <3>4. CASE PatchFails(a)
      BY <3>4 DEF PatchFails, Local
    <3>5. CASE RecordPid(a)
      BY <3>5 DEF RecordPid, Local
    <3>6. CASE MatchRaw(a)
      BY <3>6 DEF MatchRaw, NextAttempt, Local
    <3>7. CASE Reprepare(a)
      BY <3>7, PrepareType DEF Reprepare, PrepareFiles, NextAttempt, Local
    <3>8. CASE RecordApplied(a)
      BY <3>8, PreparedType DEF RecordApplied
    <3>9. CASE ReleaseApplyLock(a)
      BY <3>9, ReturnsType DEF ReleaseApplyLock
    <3> QED BY <2>6, <3>1, <3>2, <3>3, <3>4, <3>5, <3>6, <3>7, <3>8, <3>9 DEF ApplyStep
  <2>7. ASSUME NEW a \in Actor, Failure(a) PROVE TypeOK'
    <3>1. CASE RecordPidFails(a)
      BY <3>1 DEF RecordPidFails, Local
    <3>2. CASE RecordFails(a)
      <4>1. used' \in [Budget -> Nat] /\ seen' = seen
        BY <3>2 DEF RecordFails
      <4>2. applied' \in Marker
        BY <3>2 DEF RecordFails, Local, Marker
      <4>3. CASE NextAttempt(a)
        <5>1. pc' \in [Actor -> Label] /\ loc' \in [Actor -> Local]
          BY <4>3 DEF NextAttempt, Local
        <5> QED BY <3>2, <4>1, <4>2, <5>1 DEF RecordFails
      <4>4. CASE Goto(a, "unlock") /\ Keep(a, "rc", 2)
        <5>1. pc' \in [Actor -> Label] /\ loc' \in [Actor -> Local]
          BY <4>4 DEF Local
        <5> QED BY <3>2, <4>1, <4>2, <5>1 DEF RecordFails
      <4> QED BY <3>2, <4>3, <4>4 DEF RecordFails
    <3>3. CASE ApplyLockTimeout(a)
      BY <3>3, ReturnsType DEF ApplyLockTimeout
    <3>4. CASE PrepareFails(a)
      BY <3>4 DEF PrepareFails, Local
    <3>5. CASE Crash(a)
      <4>1. pc' \in [Actor -> Label] /\ loc' \in [Actor -> Local]
        BY <3>5, ReturnsType DEF Crash
      <4>2. meta' \in Marker /\ applied' \in Marker
        BY <3>5 DEF Crash, Marker, NextRev, Local
      <4>3. hal' \in [pid : Nat, up : BOOLEAN, rules : HalRules]
        BY <3>5, UnpatchedType DEF Crash
      <4>4. tmpPkgs' \in Pkgs \cup {None}
        BY <3>5 DEF Crash, Conf
      <4> QED BY <3>5, <4>1, <4>2, <4>3, <4>4 DEF Crash, Orphan
    <3> QED BY <2>7, <3>1, <3>2, <3>3, <3>4, <3>5 DEF Failure
  <2>8. ASSUME NEW w \in Worker, WorkerStep(w) PROVE TypeOK'
    <3>1. CASE ReadPending(w)
      BY <3>1 DEF ReadPending, Local, Actor
    <3>2. CASE RemovePending(w)
      BY <3>2 DEF RemovePending, Local, Actor
    <3>3. CASE WorkerPrepare(w)
      BY <3>3, PrepareType DEF WorkerPrepare, PrepareConfig, PrepareFiles, Local, Actor
    <3>4. CASE Requeue(w)
      BY <3>4, PreparedType DEF Requeue, Actor
    <3>5. CASE ReleaseWorkerLock(w) \/ Recheck(w) \/ TakePending(w) \/ JudgePending(w)
      BY <3>5 DEF ReleaseWorkerLock, Recheck, TakePending, JudgePending, Actor
    <3> QED BY <2>8, <3>1, <3>2, <3>3, <3>4, <3>5 DEF WorkerStep
  <2>9. CASE ServiceStep
    <3>1. CASE BootApply
      BY <3>1 DEF BootApply, Local, Actor
    <3>2. CASE ReadLastPid \/ Probe \/ ProbeCompare
      BY <3>2 DEF ReadLastPid, Probe, ProbeCompare, Actor
    <3>3. CASE ProbePrepare
      BY <3>3, PrepareType DEF ProbePrepare, PrepareConfig, PrepareFiles, Local, Actor
    <3>4. CASE ProbeDecide
      BY <3>4 DEF ProbeDecide, Local, Actor
    <3> QED BY <2>9, <3>1, <3>2, <3>3, <3>4 DEF ServiceStep
  <2>10. CASE ExternalEdit
    BY <2>10, EditType DEF ExternalEdit, NoOtherFile, Conf
  <2>11. CASE HalDies \/ HalStarts
    <3>1. CASE HalDies
      BY <3>1 DEF HalDies
    <3>2. CASE HalStarts
      BY <3>2, UnpatchedType DEF HalStarts
    <3> QED BY <2>11, <3>1, <3>2
  <2>12. CASE Reboot
    <3>1. hal' \in [pid : Nat, up : BOOLEAN, rules : HalRules]
      BY <2>12, UnpatchedType, BoundsAssumption DEF Reboot
    <3>2. pc' \in [Actor -> Label] /\ loc' \in [Actor -> Local]
      BY <2>12 DEF Reboot
    <3>3. used' \in [Budget -> Nat] /\ seen' \subseteq Snapshot
      BY <2>12 DEF Reboot
    <3> HIDE DEF CanSpend
    <3> QED BY <2>12, <3>1, <3>2, <3>3 DEF Reboot
  <2>13. CASE UNCHANGED vars
    BY <2>13 DEF vars
  <2> QED
    BY <2>1, <2>2, <2>3, <2>4, <2>5, <2>6, <2>7, <2>8, <2>9, <2>10, <2>11, <2>12,
       <2>13 DEF Next
<1> QED BY <1>1, <1>2, PTL DEF Spec

-----------------------------------------------------------------------------
(* The apply lock.                                                         *)

ApplyHeld == {"prepare", "patch", "pid", "match", "reprepare", "record", "unlock"}

\* Whoever is between acquire_apply_lock and release_apply_lock owns the lock.
LockInv == \A a \in Actor : pc[a] \in ApplyHeld => applyLock = a

LEMMA LockStep == TypeOK /\ LockInv /\ [Next]_vars => LockInv'
<1> SUFFICES ASSUME TypeOK, LockInv, [Next]_vars PROVE LockInv'
  OBVIOUS
<1> USE ActorsDisjoint
    DEF TypeOK, LockInv, ApplyHeld, At, Goto, Forget, Actor
<1>1. ASSUME NEW c \in Client, CommitQueue(c) \/ SetControls(c) \/ RunCommand(c)
      PROVE LockInv'
  BY <1>1 DEF CommitQueue, SetControls, RunCommand, NoOtherFile
<1>2. ASSUME NEW c \in Client, ClientStep(c) \/ StartFails(c) PROVE LockInv'
  BY <1>2 DEF ClientStep, MarkDirty, QueuePrepare, MarkPending, SnapshotOnly, Mark,
              StartWorker, StartFails, PrepareConfig, PrepareFiles
<1>3. ASSUME NEW a \in Actor, ApplyStep(a) PROVE LockInv'
  <2>1. CASE AcquireApplyLock(a)
    BY <2>1 DEF AcquireApplyLock
  <2>2. CASE ReleaseApplyLock(a)
    BY <2>2 DEF ReleaseApplyLock, Returns
  <2>3. CASE ApplyPrepare(a) \/ Patch(a) \/ PatchFails(a) \/ RecordPid(a)
    BY <2>3 DEF ApplyPrepare, Patch, PatchFails, RecordPid, PrepareConfig, PrepareFiles
  <2>4. CASE MatchRaw(a) \/ Reprepare(a) \/ RecordApplied(a)
    BY <2>4 DEF MatchRaw, Reprepare, RecordApplied, PrepareFiles, NextAttempt, OnlyPc
  <2> QED BY <1>3, <2>1, <2>2, <2>3, <2>4 DEF ApplyStep
<1>4. ASSUME NEW a \in Actor, Failure(a) PROVE LockInv'
  <2>1. CASE RecordPidFails(a) \/ RecordFails(a)
    BY <2>1 DEF RecordPidFails, RecordFails, NextAttempt
  <2>2. CASE ApplyLockTimeout(a)
    BY <2>2 DEF ApplyLockTimeout, Returns
  <2>3. CASE PrepareFails(a)
    BY <2>3 DEF PrepareFails, Preparing
  <2>4. CASE Crash(a)
    BY <2>4 DEF Crash, Returns, Orphan
  <2> QED BY <1>4, <2>1, <2>2, <2>3, <2>4 DEF Failure
<1>5. ASSUME NEW w \in Worker, WorkerStep(w) PROVE LockInv'
  <2>1. CASE ReadPending(w) \/ RemovePending(w) \/ WorkerPrepare(w) \/ Requeue(w)
    BY <2>1 DEF ReadPending, RemovePending, WorkerPrepare, Requeue, PrepareConfig,
                PrepareFiles, OnlyPc
  <2>2. CASE ReleaseWorkerLock(w)
    BY <2>2 DEF ReleaseWorkerLock, None, Stale
  <2>3. CASE Recheck(w)
    BY <2>3 DEF Recheck
  <2>4. CASE TakePending(w)
    BY <2>4 DEF TakePending
  <2>5. CASE JudgePending(w)
    BY <2>5 DEF JudgePending
  <2> QED BY <1>5, <2>1, <2>2, <2>3, <2>4, <2>5 DEF WorkerStep
<1>6. CASE ServiceStep
  BY <1>6 DEF ServiceStep, BootApply, ReadLastPid, Probe, ProbePrepare, ProbeCompare,
              ProbeDecide, PrepareConfig, PrepareFiles, OnlyPc
<1>7. CASE ExternalEdit \/ HalDies \/ HalStarts
  <2>1. UNCHANGED <<pc, applyLock>>
    BY <1>7 DEF ExternalEdit, HalDies, HalStarts, NoOtherFile
  <2> QED BY <2>1
<1>8. CASE Reboot
  BY <1>8 DEF Reboot
<1>9. CASE UNCHANGED vars
  BY <1>9 DEF vars
<1> QED BY <1>1, <1>2, <1>3, <1>4, <1>5, <1>6, <1>7, <1>8, <1>9 DEF Next

THEOREM OneApplier == Spec => [](TypeOK /\ LockInv)
<1>1. Init => LockInv
  BY DEF Init, LockInv, ApplyHeld
<1>2. Spec => []TypeOK
  BY Typing
<1> QED BY <1>1, <1>2, LockStep, PTL DEF Spec

-----------------------------------------------------------------------------
(* Revisions.                                                              *)

\* The revision that an applier works for lies between the one that is
\* recorded as applied and the newest.
RevInv ==
    /\ applied.rev <= meta.rev
    /\ \A a \in Actor :
          pc[a] \in {"patch", "pid", "match", "reprepare", "record"} =>
              applied.rev <= loc[a].rev /\ loc[a].rev <= meta.rev

LEMMA NextRevBound ==
    ASSUME TypeOK
    PROVE  NextRev \in Nat /\ meta.rev \in Nat /\ meta.rev <= NextRev
  BY DEF TypeOK, Marker, NextRev

LEMMA RevStep == TypeOK /\ LockInv /\ RevInv /\ [Next]_vars => RevInv'
<1> SUFFICES ASSUME TypeOK, LockInv, RevInv, [Next]_vars PROVE RevInv'
  OBVIOUS
<1>0. /\ meta.rev \in Nat /\ applied.rev \in Nat /\ \A a \in Actor : loc[a].rev \in Nat
      /\ NextRev \in Nat /\ meta.rev <= NextRev
  BY NextRevBound DEF TypeOK, Marker, Local
<1> USE <1>0, ActorsDisjoint
    DEF LockInv, RevInv, ApplyHeld, At, Goto, Forget, Actor, Keep
<1>1. ASSUME NEW c \in Client, CommitQueue(c) \/ SetControls(c) \/ RunCommand(c)
      PROVE RevInv'
  BY <1>1 DEF CommitQueue, SetControls, RunCommand, NoOtherFile, TypeOK
<1>2. ASSUME NEW c \in Client, ClientStep(c) \/ StartFails(c) PROVE RevInv'
  BY <1>2 DEF ClientStep, MarkDirty, QueuePrepare, MarkPending, SnapshotOnly, Mark,
              StartWorker, StartFails, PrepareConfig, PrepareFiles, TypeOK, files, Local
<1>3. ASSUME NEW a \in Actor, ApplyStep(a) PROVE RevInv'
  <2>1. CASE AcquireApplyLock(a)
    BY <2>1 DEF AcquireApplyLock, TypeOK, files
  <2>2. CASE ReleaseApplyLock(a)
    BY <2>2 DEF ReleaseApplyLock, Returns, TypeOK, files
  <2>3. CASE ApplyPrepare(a)
    BY <2>3 DEF ApplyPrepare, PrepareConfig, PrepareFiles, TypeOK, Local
  <2>4. CASE Patch(a) \/ PatchFails(a) \/ RecordPid(a)
    BY <2>4 DEF Patch, PatchFails, RecordPid, TypeOK, Local, files
  <2>5. CASE MatchRaw(a)
    BY <2>5 DEF MatchRaw, NextAttempt, OnlyPc, TypeOK, Local, files
  <2>6. CASE Reprepare(a)
    BY <2>6 DEF Reprepare, PrepareFiles, NextAttempt, TypeOK, Local
  <2>7. CASE RecordApplied(a)
    BY <2>7 DEF RecordApplied, Prepared, TypeOK
  <2> QED BY <1>3, <2>1, <2>2, <2>3, <2>4, <2>5, <2>6, <2>7 DEF ApplyStep
<1>4. ASSUME NEW a \in Actor, Failure(a) PROVE RevInv'
  <2>1. CASE RecordPidFails(a)
    BY <2>1 DEF RecordPidFails, TypeOK, Local, files
  <2>2. CASE RecordFails(a)
    BY <2>2 DEF RecordFails, NextAttempt, TypeOK, Local, Marker
  <2>3. CASE ApplyLockTimeout(a)
    BY <2>3 DEF ApplyLockTimeout, Returns, TypeOK, files
  <2>4. CASE PrepareFails(a)
    BY <2>4 DEF PrepareFails, Preparing, TypeOK, files, Local
  <2>5. CASE Crash(a)
    <3>1. pc'[a] \notin {"patch", "pid", "match", "reprepare", "record"}
      BY <2>5 DEF Crash, Returns, TypeOK
    <3>2. \A b \in Actor \ {a} : pc'[b] = pc[b] /\ loc'[b] = loc[b]
      BY <2>5 DEF Crash, Returns, TypeOK
    <3>3. applied.rev <= applied'.rev /\ applied'.rev <= meta'.rev /\ meta.rev <= meta'.rev
      BY <2>5 DEF Crash, TypeOK, Marker
    <3>4. \/ applied' = applied
          \/ pc[a] = "record" /\ applied'.rev = loc[a].rev
      BY <2>5 DEF Crash, TypeOK, Marker
    <3>5. pc[a] = "record" => \A b \in Actor \ {a} : pc[b] \notin ApplyHeld
      OBVIOUS
    <3>6. meta'.rev \in Nat /\ applied'.rev \in Nat
      BY <2>5 DEF Crash, TypeOK, Marker, Local
    <3> QED BY <3>1, <3>2, <3>3, <3>4, <3>5, <3>6
  <2> QED BY <1>4, <2>1, <2>2, <2>3, <2>4, <2>5 DEF Failure
<1>5. ASSUME NEW w \in Worker, WorkerStep(w) PROVE RevInv'
  <2>1. CASE ReadPending(w) \/ RemovePending(w) \/ WorkerPrepare(w) \/ Requeue(w)
    BY <2>1 DEF ReadPending, RemovePending, WorkerPrepare, Requeue, PrepareConfig,
                PrepareFiles, OnlyPc, TypeOK, files
  <2>2. CASE ReleaseWorkerLock(w) \/ Recheck(w) \/ TakePending(w) \/ JudgePending(w)
    BY <2>2 DEF ReleaseWorkerLock, Recheck, TakePending, JudgePending, TypeOK, files
  <2> QED BY <1>5, <2>1, <2>2 DEF WorkerStep
<1>6. CASE ServiceStep
  BY <1>6 DEF ServiceStep, BootApply, ReadLastPid, Probe, ProbePrepare, ProbeCompare,
              ProbeDecide, PrepareConfig, PrepareFiles, OnlyPc, TypeOK, files
<1>7. CASE ExternalEdit \/ HalDies \/ HalStarts
  BY <1>7 DEF ExternalEdit, HalDies, HalStarts, NoOtherFile, files
<1>8. CASE Reboot
  BY <1>8 DEF Reboot
<1>9. CASE UNCHANGED vars
  BY <1>9 DEF vars, files
<1> QED BY <1>1, <1>2, <1>3, <1>4, <1>5, <1>6, <1>7, <1>8, <1>9 DEF Next

\* Only the owner of the apply lock records, so revisions never go back.
LEMMA MonotoneStep ==
    TypeOK /\ LockInv /\ RevInv /\ [Next]_vars => applied'.rev >= applied.rev
<1> SUFFICES ASSUME TypeOK, RevInv, Next PROVE applied'.rev >= applied.rev
  BY DEF vars, files, TypeOK, Marker
<1>0. /\ applied.rev \in Nat /\ \A a \in Actor : loc[a].rev \in Nat
  BY DEF TypeOK, Marker, Local
<1>1. \/ applied' = applied
      \/ \E a \in Actor : /\ pc[a] = "record" /\ applied'.rev \in {applied.rev, loc[a].rev}
  <2>1. ASSUME NEW a \in Actor, ApplyStep(a)
        PROVE applied' = applied \/ (pc[a] = "record" /\ applied'.rev = loc[a].rev)
    BY <2>1 DEF ApplyStep, AcquireApplyLock, ApplyPrepare, Patch, PatchFails, RecordPid,
       MatchRaw, Reprepare, RecordApplied, ReleaseApplyLock, PrepareConfig,
       PrepareFiles, Prepared, OnlyPc, files, At
  <2>2. ASSUME NEW a \in Actor, Failure(a)
        PROVE \/ applied' = applied
              \/ pc[a] = "record" /\ applied'.rev \in {applied.rev, loc[a].rev}
    BY <2>2 DEF Failure, RecordPidFails, RecordFails, ApplyLockTimeout, PrepareFails,
       Crash, files, At, TypeOK, Marker
  <2>3. ASSUME NEW c \in Client,
               \/ CommitQueue(c) \/ SetControls(c) \/ RunCommand(c)
               \/ ClientStep(c) \/ StartFails(c)
        PROVE applied' = applied
    BY <2>3 DEF CommitQueue, SetControls, RunCommand, NoOtherFile, ClientStep, MarkDirty,
       QueuePrepare, MarkPending, SnapshotOnly, Mark, StartWorker, StartFails,
       PrepareConfig, PrepareFiles, files
  <2>4. ASSUME NEW w \in Worker, WorkerStep(w) PROVE applied' = applied
    BY <2>4 DEF WorkerStep, ReadPending, RemovePending, WorkerPrepare, Requeue,
       ReleaseWorkerLock, Recheck, TakePending, JudgePending, PrepareConfig,
       PrepareFiles, OnlyPc, files
  <2>5. ASSUME ServiceStep \/ ExternalEdit \/ HalDies \/ HalStarts \/ Reboot
        PROVE applied' = applied
    BY <2>5 DEF ServiceStep, BootApply, ReadLastPid, Probe, ProbePrepare, ProbeCompare,
       ProbeDecide, PrepareConfig, PrepareFiles, OnlyPc, ExternalEdit, HalDies,
       HalStarts, Reboot, NoOtherFile, files
  <2> QED BY <2>1, <2>2, <2>3, <2>4, <2>5 DEF Next
<1> QED BY <1>0, <1>1 DEF RevInv

\* AppliedMonotone, for any number of commands, workers and failures.
THEOREM AppliedNeverGoesBack == Spec => AppliedMonotone
<1>1. Init => RevInv
  BY DEF Init, RevInv, NoMeta
<1>2. Spec => [](TypeOK /\ LockInv)
  BY OneApplier
<1> QED BY <1>1, <1>2, RevStep, MonotoneStep, PTL DEF Spec, AppliedMonotone

-----------------------------------------------------------------------------
(* The worker lock and the pending request.                                *)

WorkerHeld == ApplyHeld \cup {"loop", "remove", "lock", "wprepare", "requeue",
                               "release", "coalesce", "judge"}

\* A worker between its start and its release owns the worker lock, and only
\* a killed worker leaves the lock behind.
WorkerInv ==
    /\ \A w \in Worker : pc[w] \in WorkerHeld => workerLock = w
    /\ workerLock = Stale => used["crashes"] > 0

LEMMA SpentCrash ==
    ASSUME TypeOK, CanSpend("crashes", MaxCrashes)
    PROVE  used'["crashes"] > 0
  BY BoundsAssumption DEF TypeOK, CanSpend, Budget

CrashesGrow == /\ used["crashes"] \in Nat /\ used'["crashes"] \in Nat
               /\ used'["crashes"] >= used["crashes"]

LEMMA UsedGrows ==
    ASSUME TypeOK, Next
    PROVE  CrashesGrow
<1> USE DEF TypeOK, Budget, CanSpend, Fault, files, CrashesGrow
<1>1. ASSUME NEW c \in Client, \/ CommitQueue(c) \/ SetControls(c) \/ RunCommand(c)
                              \/ ClientStep(c) \/ StartFails(c)
      PROVE CrashesGrow
  <2>1. CASE CommitQueue(c) \/ SetControls(c) \/ RunCommand(c)
    <3>1. used' = [used EXCEPT !["commands"] = @ + 1]
      BY <2>1 DEF CommitQueue, SetControls, RunCommand, Edit
    <3> QED BY <3>1
  <2>2. CASE ClientStep(c)
    BY <2>2 DEF ClientStep, MarkDirty, QueuePrepare, MarkPending, SnapshotOnly, Mark,
       StartWorker, PrepareConfig, PrepareFiles
  <2>3. CASE StartFails(c)
    BY <2>3 DEF StartFails
  <2> QED BY <1>1, <2>1, <2>2, <2>3
<1>2. ASSUME NEW a \in Actor, ApplyStep(a) PROVE CrashesGrow
  BY <1>2 DEF ApplyStep, AcquireApplyLock, ApplyPrepare, Patch, PatchFails, RecordPid,
     MatchRaw, Reprepare, RecordApplied, ReleaseApplyLock, PrepareConfig, PrepareFiles,
     OnlyPc
<1>3. ASSUME NEW a \in Actor, Failure(a) PROVE CrashesGrow
  BY <1>3 DEF Failure, RecordPidFails, RecordFails, ApplyLockTimeout, PrepareFails, Crash
<1>4. ASSUME NEW w \in Worker, WorkerStep(w) PROVE CrashesGrow
  BY <1>4 DEF WorkerStep, ReadPending, RemovePending, WorkerPrepare, Requeue,
     ReleaseWorkerLock, Recheck, TakePending, JudgePending, PrepareConfig,
     PrepareFiles, OnlyPc
<1>5. CASE ServiceStep
  BY <1>5 DEF ServiceStep, BootApply, ReadLastPid, Probe, ProbePrepare, ProbeCompare,
     ProbeDecide, PrepareConfig, PrepareFiles, OnlyPc
<1>6. CASE ExternalEdit
  <2>1. used' = [used EXCEPT !["commands"] = @ + 1]
    BY <1>6 DEF ExternalEdit, Edit
  <2> QED BY <2>1
<1>7. CASE HalDies \/ HalStarts \/ Reboot
  BY <1>7 DEF HalDies, HalStarts, Reboot
<1> QED BY <1>1, <1>2, <1>3, <1>4, <1>5, <1>6, <1>7 DEF Next

LEMMA WorkerLockStep == TypeOK /\ WorkerInv /\ [Next]_vars => WorkerInv'
<1> SUFFICES ASSUME TypeOK, WorkerInv, Next PROVE WorkerInv'
  BY DEF WorkerInv, vars
<1>0. CrashesGrow
  BY UsedGrows
<1> USE <1>0, ActorsDisjoint
    DEF CrashesGrow, TypeOK, WorkerInv, WorkerHeld, ApplyHeld, At, Goto, Forget, Actor, Keep
<1>1. ASSUME NEW c \in Client, CommitQueue(c) \/ SetControls(c) \/ RunCommand(c)
      PROVE WorkerInv'
  BY <1>1 DEF CommitQueue, SetControls, RunCommand, NoOtherFile
<1>2. ASSUME NEW c \in Client, ClientStep(c) \/ StartFails(c) PROVE WorkerInv'
  <2>1. CASE StartWorker(c)
    BY <2>1 DEF StartWorker
  <2>2. CASE ~StartWorker(c)
    BY <1>2, <2>2 DEF ClientStep, MarkDirty, QueuePrepare, MarkPending, SnapshotOnly,
       Mark, StartFails, PrepareConfig, PrepareFiles
  <2> QED BY <2>1, <2>2
<1>3. ASSUME NEW a \in Actor, ApplyStep(a) PROVE WorkerInv'
  <2>1. CASE ReleaseApplyLock(a)
    BY <2>1 DEF ReleaseApplyLock, Returns
  <2>2. CASE ApplyPrepare(a) \/ Patch(a) \/ PatchFails(a) \/ RecordPid(a)
             \/ AcquireApplyLock(a)
    BY <2>2 DEF ApplyPrepare, Patch, PatchFails, RecordPid, AcquireApplyLock,
       PrepareConfig, PrepareFiles
  <2>3. CASE MatchRaw(a) \/ Reprepare(a) \/ RecordApplied(a)
    BY <2>3 DEF MatchRaw, Reprepare, RecordApplied, PrepareFiles, NextAttempt, OnlyPc
  <2> QED BY <1>3, <2>1, <2>2, <2>3 DEF ApplyStep
<1>4. ASSUME NEW a \in Actor, Failure(a) PROVE WorkerInv'
  <2>1. CASE RecordPidFails(a) \/ RecordFails(a)
    BY <2>1 DEF RecordPidFails, RecordFails, NextAttempt
  <2>2. CASE ApplyLockTimeout(a)
    BY <2>2 DEF ApplyLockTimeout, Returns
  <2>3. CASE PrepareFails(a)
    BY <2>3 DEF PrepareFails, Preparing
  <2>4. CASE Crash(a)
    <3>1. used'["crashes"] > 0
      BY <2>4, SpentCrash DEF Crash
    <3>2. pc'[a] \notin WorkerHeld \/ a \notin Worker
      BY <2>4 DEF Crash, Returns
    <3>3. \A b \in Actor \ {a} : pc'[b] = pc[b]
      BY <2>4 DEF Crash, Returns
    <3>4. workerLock' = IF workerLock = a THEN Stale ELSE workerLock
      BY <2>4 DEF Crash, Orphan
    <3> QED BY <3>1, <3>2, <3>3, <3>4
  <2> QED BY <1>4, <2>1, <2>2, <2>3, <2>4 DEF Failure
<1>5. ASSUME NEW w \in Worker, WorkerStep(w) PROVE WorkerInv'
  <2>1. CASE ReadPending(w) \/ RemovePending(w) \/ WorkerPrepare(w) \/ Requeue(w)
    BY <2>1 DEF ReadPending, RemovePending, WorkerPrepare, Requeue, PrepareConfig,
                PrepareFiles, OnlyPc
  <2>2. CASE ReleaseWorkerLock(w)
    BY <2>2 DEF ReleaseWorkerLock, None, Stale
  <2>3. CASE Recheck(w)
    BY <2>3 DEF Recheck
  <2>4. CASE TakePending(w)
    BY <2>4 DEF TakePending
  <2>5. CASE JudgePending(w)
    BY <2>5 DEF JudgePending
  <2> QED BY <1>5, <2>1, <2>2, <2>3, <2>4, <2>5 DEF WorkerStep
<1>6. CASE ServiceStep
  BY <1>6 DEF ServiceStep, BootApply, ReadLastPid, Probe, ProbePrepare, ProbeCompare,
              ProbeDecide, PrepareConfig, PrepareFiles, OnlyPc
<1>7. CASE ExternalEdit \/ HalDies \/ HalStarts
  <2>1. UNCHANGED <<pc, workerLock>>
    BY <1>7 DEF ExternalEdit, HalDies, HalStarts, NoOtherFile
  <2> QED BY <2>1
<1>8. CASE Reboot
  BY <1>8 DEF Reboot, None, Stale
<1> QED BY <1>1, <1>2, <1>3, <1>4, <1>5, <1>6, <1>7, <1>8 DEF Next

\* A step that leaves the pending file, the worker lock and the processes that
\* look after a request alone keeps NoOrphanRequest.
LEMMA NoOrphanFrame ==
    ASSUME TypeOK, NoOrphanRequest, CrashesGrow,
           UNCHANGED <<pending, workerLock>>,
           \A a \in Actor : pc[a] \in {"start", "recheck"} => pc'[a] = pc[a]
    PROVE  NoOrphanRequest'
  BY DEF NoOrphanRequest, CrashesGrow, At, Actor

LEMMA NoOrphanStep ==
    TypeOK /\ WorkerInv /\ NoOrphanRequest /\ [Next]_vars => NoOrphanRequest'
<1>0. CASE UNCHANGED vars
  BY <1>0 DEF NoOrphanRequest, vars, files, At
<1> SUFFICES ASSUME TypeOK, WorkerInv, NoOrphanRequest, Next PROVE NoOrphanRequest'
  BY <1>0
<1>1. CrashesGrow
  BY UsedGrows
<1>2. pc \in [Actor -> Label]
  BY DEF TypeOK
<1> USE <1>1, <1>2, ActorsDisjoint DEF At, Goto, Forget, Actor
<1>3. ASSUME NEW c \in Client, CommitQueue(c) \/ SetControls(c) \/ RunCommand(c)
      PROVE NoOrphanRequest'
  BY <1>3, NoOrphanFrame DEF CommitQueue, SetControls, RunCommand, NoOtherFile
<1>4. ASSUME NEW c \in Client, ClientStep(c) PROVE NoOrphanRequest'
  <2>1. CASE MarkDirty(c) \/ MarkPending(c)
    BY <2>1 DEF MarkDirty, MarkPending, Mark, NoOrphanRequest
  <2>2. CASE QueuePrepare(c) \/ SnapshotOnly(c)
    BY <2>2, NoOrphanFrame DEF QueuePrepare, SnapshotOnly, PrepareConfig, PrepareFiles
  <2>3. CASE StartWorker(c)
    BY <2>3 DEF StartWorker, NoOrphanRequest
  <2> QED BY <1>4, <2>1, <2>2, <2>3 DEF ClientStep
<1>5. ASSUME NEW c \in Client, StartFails(c) PROVE NoOrphanRequest'
  BY <1>5, SpentCrash DEF StartFails, NoOrphanRequest
<1>6. ASSUME NEW a \in Actor, ApplyStep(a) PROVE NoOrphanRequest'
  <2>1. UNCHANGED <<pending, workerLock>>
    BY <1>6 DEF ApplyStep, AcquireApplyLock, ApplyPrepare, Patch, PatchFails, RecordPid,
       MatchRaw, Reprepare, RecordApplied, ReleaseApplyLock, PrepareConfig, PrepareFiles,
       OnlyPc, files
  <2>2. pc[a] \notin {"start", "recheck"} /\ \A b \in Actor \ {a} : pc'[b] = pc[b]
    BY <1>6 DEF ApplyStep, AcquireApplyLock, ApplyPrepare, Patch, PatchFails, RecordPid,
       MatchRaw, Reprepare, RecordApplied, ReleaseApplyLock, NextAttempt, Returns
  <2> QED BY <2>1, <2>2, NoOrphanFrame
<1>7. ASSUME NEW a \in Actor, Failure(a) PROVE NoOrphanRequest'
  <2>1. CASE RecordPidFails(a) \/ RecordFails(a)
    BY <2>1, NoOrphanFrame DEF RecordPidFails, RecordFails, NextAttempt, files
  <2>2. CASE ApplyLockTimeout(a)
    BY <2>2, NoOrphanFrame DEF ApplyLockTimeout, Returns, files
  <2>3. CASE PrepareFails(a)
    BY <2>3, NoOrphanFrame DEF PrepareFails, Preparing, files
  <2>4. CASE Crash(a)
    BY <2>4, SpentCrash DEF Crash, NoOrphanRequest
  <2> QED BY <1>7, <2>1, <2>2, <2>3, <2>4 DEF Failure
<1>8. ASSUME NEW w \in Worker, WorkerStep(w) PROVE NoOrphanRequest'
  <2>1. CASE ReadPending(w) \/ WorkerPrepare(w)
    BY <2>1, NoOrphanFrame DEF ReadPending, WorkerPrepare, PrepareConfig, PrepareFiles,
       OnlyPc, files
  <2>2. CASE RemovePending(w) \/ TakePending(w)
    BY <2>2 DEF RemovePending, TakePending, NoOrphanRequest
  <2>3. CASE Requeue(w) \/ JudgePending(w)
    <3>1. workerLock = w
      BY <2>3 DEF Requeue, JudgePending, WorkerInv, WorkerHeld
    <3>2. UNCHANGED workerLock
      BY <2>3 DEF Requeue, JudgePending
    <3> QED BY <3>1, <3>2 DEF NoOrphanRequest
  <2>4. CASE ReleaseWorkerLock(w)
    BY <2>4 DEF ReleaseWorkerLock, NoOrphanRequest
  <2>5. CASE Recheck(w)
    <3>1. workerLock \in Worker \cup {None, Stale}
      BY DEF TypeOK
    <3>2. CASE workerLock = None
      BY <2>5, <3>2 DEF Recheck, NoOrphanRequest, files
    <3>3. CASE workerLock \in Worker
      BY <2>5, <3>3 DEF Recheck, NoOrphanRequest
    <3>4. CASE workerLock = Stale
      BY <2>5, <3>4 DEF Recheck, NoOrphanRequest, WorkerInv, CrashesGrow
    <3> QED BY <3>1, <3>2, <3>3, <3>4
  <2> QED BY <1>8, <2>1, <2>2, <2>3, <2>4, <2>5 DEF WorkerStep
<1>9. CASE ServiceStep
  BY <1>9, NoOrphanFrame DEF ServiceStep, BootApply, ReadLastPid, Probe, ProbePrepare,
     ProbeCompare, ProbeDecide, PrepareConfig, PrepareFiles, OnlyPc, files
<1>10. CASE ExternalEdit \/ HalDies \/ HalStarts
  <2>1. UNCHANGED <<pc, workerLock, pending>>
    BY <1>10 DEF ExternalEdit, HalDies, HalStarts, NoOtherFile, files
  <2> QED BY <2>1, NoOrphanFrame
<1>11. CASE Reboot
  BY <1>11 DEF Reboot, NoOrphanRequest
<1> QED BY <1>3, <1>4, <1>5, <1>6, <1>7, <1>8, <1>9, <1>10, <1>11 DEF Next

\* NoOrphanRequest, for any number of commands, workers and failures: as long
\* as nobody was killed, a saved request always has a worker to look at it.
THEOREM RequestsHaveAWorker == Spec => []NoOrphanRequest
<1>1. Init => WorkerInv /\ NoOrphanRequest
  BY ActorsDisjoint DEF Init, WorkerInv, WorkerHeld, ApplyHeld, NoOrphanRequest, None,
     Stale, Actor
<1>2. Spec => []TypeOK
  BY Typing
<1> QED BY <1>1, <1>2, WorkerLockStep, NoOrphanStep, PTL DEF Spec
-----------------------------------------------------------------------------
(* What the records certify, while no pid is used twice and no edit brings  *)
(* back an earlier configuration.                                           *)

Changing == {"patch", "pid", "match", "reprepare", "record"}
Good     == hal.rules \in {Rules(conf.mode, conf.pkgs), Torn}
Past     == seen \cup {NoMeta.snap}

\* The attempt of a is about the configuration as it is now.
Current(a) == Snap(loc[a].raw) = Snap(conf)

\* What was recorded or prepared has been the configuration once.
PastInv ==
    /\ Snap(conf) \in seen /\ applied.snap \in Past
    /\ \A a \in Actor : Snap(loc[a].raw) \in Past

\* The recorded pids never run ahead of the HAL, and the last one that was
\* recorded is the newest.
PidInv ==
    /\ svcPid <= lastPid /\ lastPid <= hal.pid
    /\ \A a \in Actor : At(a, "pid") => lastPid <= loc[a].pid /\ loc[a].pid <= hal.pid

\* An attempt that is about another configuration than the present one began
\* before the present one could have been recorded.  One that is about the
\* present one finds its packages in the shared file, and from its patch on the
\* HAL it has patched, if that still runs, follows them.
AttemptInv(a) ==
    /\ pc[a] \in Changing /\ applied.snap = Snap(conf) => Current(a)
    /\ At(a, "patch") /\ Current(a) => tmpPkgs = conf.pkgs
    /\ At(a, "pid") /\ Current(a) /\ hal.pid = loc[a].pid => Good
    /\ pc[a] \in {"match", "reprepare", "record"} /\ loc[a].rc = 0 =>
          (Current(a) /\ hal.pid = lastPid => Good)
    /\ At(a, "record") => loc[a].rc = 0

CertInv == applied.snap = Snap(conf) /\ hal.pid = lastPid => Good

CertifyInv == PastInv /\ PidInv /\ (\A a \in Actor : AttemptInv(a)) /\ CertInv

\* The configuration is the same, or one that has never been.
NewOrSame ==
    \/ Snap(conf') = Snap(conf) /\ seen' = seen
    \/ Snap(conf') \notin Past /\ seen' = seen \cup {Snap(conf')}

\* An actor leaves or never enters an attempt.
OutOf(b) ==
    \/ pc'[b] = pc[b] /\ loc'[b] = loc[b]
    \/ pc'[b] \notin Changing /\ Snap(loc'[b].raw) \in Past

\* What a step keeps that neither patches nor records.
LEMMA CertifyQuiet ==
    ASSUME TypeOK, CertifyInv, NewOrSame,
           hal'.pid = hal.pid, hal'.rules \in {hal.rules, Torn},
           lastPid' = lastPid, svcPid' <= lastPid, applied'.snap = applied.snap,
           tmpPkgs' \in {tmpPkgs, conf.pkgs},
           \A b \in Actor : OutOf(b)
    PROVE  CertifyInv'
<1>1. CASE Snap(conf') = Snap(conf) /\ seen' = seen
  <2>1. conf'.mode = conf.mode /\ conf'.pkgs = conf.pkgs /\ (Good => Good')
    BY <1>1 DEF Snap, Good
  <2>2. PastInv'
    BY <1>1 DEF CertifyInv, PastInv, Past, OutOf
  <2>3. PidInv'
    BY DEF CertifyInv, PidInv, OutOf, Changing, At
  <2>4. ASSUME NEW a \in Actor PROVE AttemptInv(a)'
    <3>1. CASE pc'[a] \notin Changing
      BY <3>1 DEF AttemptInv, Changing, At
    <3>2. CASE pc'[a] = pc[a] /\ loc'[a] = loc[a]
      <4>1. AttemptInv(a)
        BY DEF CertifyInv
      <4> QED BY <1>1, <2>1, <3>2, <4>1 DEF AttemptInv, Current, At
    <3> QED BY <3>1, <3>2 DEF OutOf
  <2>5. CertInv'
    BY <1>1, <2>1 DEF CertifyInv, CertInv
  <2> QED BY <2>2, <2>3, <2>4, <2>5 DEF CertifyInv
<1>2. CASE Snap(conf') \notin Past /\ seen' = seen \cup {Snap(conf')}
  <2>1. applied'.snap # Snap(conf')
    BY <1>2 DEF CertifyInv, PastInv
  <2>2. \A a \in Actor : Snap(loc'[a].raw) # Snap(conf')
    BY <1>2 DEF CertifyInv, PastInv, OutOf
  <2>3. PastInv'
    BY <1>2 DEF CertifyInv, PastInv, Past, OutOf
  <2>4. PidInv'
    BY DEF CertifyInv, PidInv, OutOf, Changing, At
  <2>5. ASSUME NEW a \in Actor PROVE AttemptInv(a)'
    <3>1. At(a, "record")' => loc'[a].rc = 0
      BY DEF CertifyInv, AttemptInv, OutOf, Changing, At
    <3> QED BY <2>1, <2>2, <3>1 DEF AttemptInv, Current
  <2>6. CertInv'
    BY <2>1 DEF CertInv
  <2> QED BY <2>3, <2>4, <2>5, <2>6 DEF CertifyInv
<1> QED BY <1>1, <1>2 DEF NewOrSame

\* No edit brings back what was the configuration before.
LEMMA EditIsNew ==
    ASSUME TypeOK, PastInv, Revert = FALSE, NEW c \in Conf, c.pkgs \in Pkgs, Edit(c)
    PROVE  NewOrSame
<1>1. Snap(c) # NoMeta.snap
  BY ConfigAssumption DEF Snap, NoMeta, NoConf
<1>2. conf' = c /\ seen' = seen \cup {Snap(c)} /\ (Snap(c) = Snap(conf) \/ Snap(c) \notin seen)
  BY BoundsAssumption DEF Edit
<1> QED BY <1>1, <1>2 DEF NewOrSame, PastInv, Past

\* Who works under the apply lock is the only one in an attempt.
LEMMA Alone ==
    ASSUME LockInv, NEW a \in Actor, pc[a] \in ApplyHeld
    PROVE  \A b \in Actor \ {a} : pc[b] \notin Changing
  BY DEF LockInv, ApplyHeld, Changing

\* apply_stable returns with what the attempt was about, or nothing.
LEMMA ReturnsOut ==
    ASSUME TypeOK, PastInv, NEW a \in Actor, NEW rc, Returns(a, rc)
    PROVE  \A b \in Actor : OutOf(b)
<1> SUFFICES ASSUME NEW b \in Actor PROVE OutOf(b)
  OBVIOUS
<1>0. pc \in [Actor -> Label] /\ loc \in [Actor -> Local]
  BY DEF TypeOK
<1>1. Snap(NoLoc.raw) \in Past /\ Snap(loc[a].raw) \in Past
  BY DEF PastInv, Past, NoLoc, NoMeta
<1>2. CASE b # a
  BY <1>0, <1>2 DEF Returns, Goto, Forget, OutOf
<1>3. CASE b = a
  <2>1. pc'[a] \notin Changing
    BY <1>0 DEF Returns, Goto, Forget, Changing
  <2>2. loc'[a] = NoLoc \/ loc'[a].raw = loc[a].raw
    BY <1>0, NoLocType DEF Returns, Forget, Local, NoLoc
  <2> QED BY <1>1, <1>3, <2>1, <2>2 DEF OutOf
<1> QED BY <1>2, <1>3

\* A step of the attempt of a itself: the others are in none.
LEMMA CertifyOwn ==
    ASSUME TypeOK, LockInv, CertifyInv, NEW a \in Actor, pc[a] \in ApplyHeld,
           UNCHANGED <<conf, seen, svcPid>>, hal'.pid = hal.pid,
           \A b \in Actor \ {a} : pc'[b] = pc[b] /\ loc'[b] = loc[b],
           Snap(loc'[a].raw) \in Past, applied'.snap \in Past,
           lastPid <= lastPid', lastPid' <= hal.pid, lastPid' \in Nat,
           At(a, "pid")' => lastPid' <= loc'[a].pid /\ loc'[a].pid <= hal.pid,
           AttemptInv(a)', CertInv'
    PROVE  CertifyInv'
<1>1. \A b \in Actor \ {a} : pc[b] \notin Changing
  BY Alone
<1>2. PastInv'
  BY DEF CertifyInv, PastInv, Past
<1>3. PidInv'
  <2>1. svcPid \in Nat /\ lastPid \in Nat /\ svcPid <= lastPid
    BY DEF CertifyInv, PidInv, TypeOK
  <2>2. svcPid' <= lastPid'
    BY <2>1
  <2>3. ASSUME NEW b \in Actor \ {a} PROVE ~At(b, "pid")'
    BY <1>1, <2>3 DEF At, Changing
  <2> QED BY <2>2, <2>3 DEF PidInv
<1>4. ASSUME NEW b \in Actor PROVE AttemptInv(b)'
  <2>1. CASE b = a
    BY <2>1
  <2>2. CASE b # a
    BY <1>1, <2>2 DEF AttemptInv, Changing, At
  <2> QED BY <2>1, <2>2
<1> QED BY <1>2, <1>3, <1>4 DEF CertifyInv

LEMMA CertifyStep ==
    ASSUME PidReuse = FALSE, Revert = FALSE
    PROVE  TypeOK /\ LockInv /\ CertifyInv /\ [Next]_vars => CertifyInv'
<1> SUFFICES ASSUME TypeOK, LockInv, CertifyInv, [Next]_vars PROVE CertifyInv'
  OBVIOUS
<1>0. /\ lastPid \in Nat /\ svcPid \in Nat /\ hal.pid \in Nat
      /\ svcPid <= lastPid /\ lastPid <= hal.pid
      /\ Snap(NoLoc.raw) \in Past /\ Snap(conf) \in Past /\ applied.snap \in Past
      /\ \A b \in Actor : Snap(loc[b].raw) \in Past
      /\ pc \in [Actor -> Label] /\ loc \in [Actor -> Local]
  BY DEF CertifyInv, PastInv, PidInv, TypeOK, Past, NoLoc, NoMeta
<1> USE <1>0, ActorsDisjoint DEF At, Goto, Forget, Keep, Actor
<1>1. ASSUME NEW c \in Client, CommitQueue(c) \/ SetControls(c) \/ RunCommand(c)
      PROVE CertifyInv'
  <2>1. NewOrSame
    <3>1. CASE CommitQueue(c)
      <4>1. PICK m \in Mode, p \in Pkgs : Edit([mode |-> m, pkgs |-> p, gen |-> conf.gen + 1])
        BY <3>1 DEF CommitQueue
      <4>2. [mode |-> m, pkgs |-> p, gen |-> conf.gen + 1] \in Conf
        BY DEF Conf, TypeOK
      <4> QED BY <4>1, <4>2, EditIsNew DEF CertifyInv
    <3>2. CASE SetControls(c)
      <4>1. PICK m \in Mode : Edit([conf EXCEPT !.mode = m])
        BY <3>2 DEF SetControls
      <4>2. [conf EXCEPT !.mode = m] \in Conf /\ [conf EXCEPT !.mode = m].pkgs \in Pkgs
        BY DEF Conf, TypeOK
      <4> QED BY <4>1, <4>2, EditIsNew DEF CertifyInv
    <3>3. CASE RunCommand(c)
      <4>1. conf \in Conf /\ conf.pkgs \in Pkgs /\ Edit(conf)
        BY <3>3 DEF RunCommand, Conf, TypeOK
      <4> QED BY <4>1, EditIsNew DEF CertifyInv
    <3> QED BY <1>1, <3>1, <3>2, <3>3
  <2>2. UNCHANGED <<tmpPkgs, applied, lastPid, hal, svcPid>>
    BY <1>1 DEF CommitQueue, SetControls, RunCommand, NoOtherFile
  <2>3. \A b \in Actor : OutOf(b)
    BY <1>1 DEF CommitQueue, SetControls, RunCommand, OutOf, Changing, Local
  <2> QED BY <2>1, <2>2, <2>3, CertifyQuiet
<1>2. ASSUME NEW c \in Client, ClientStep(c) \/ StartFails(c) PROVE CertifyInv'
  <2>1. /\ UNCHANGED <<conf, seen, applied, lastPid, hal, svcPid>>
        /\ tmpPkgs' \in {tmpPkgs, conf.pkgs}
    BY <1>2 DEF ClientStep, MarkDirty, QueuePrepare, MarkPending, SnapshotOnly, Mark,
       StartWorker, StartFails, PrepareConfig, PrepareFiles, CanSpend, files
  <2>2. \A b \in Actor : OutOf(b)
    BY <1>2 DEF ClientStep, MarkDirty, QueuePrepare, MarkPending, SnapshotOnly, Mark,
       StartWorker, StartFails, PrepareConfig, PrepareFiles, OutOf, Changing, Local
  <2> QED BY <2>1, <2>2, CertifyQuiet DEF NewOrSame
<1>3. ASSUME NEW a \in Actor, ApplyStep(a) PROVE CertifyInv'
  <2>0. AttemptInv(a)
    BY DEF CertifyInv
  <2>1. CASE AcquireApplyLock(a)
    <3>1. UNCHANGED <<conf, seen, applied, lastPid, hal, svcPid, tmpPkgs>>
      BY <2>1 DEF AcquireApplyLock, files
    <3>2. \A b \in Actor : OutOf(b)
      BY <2>1 DEF AcquireApplyLock, OutOf, Changing
    <3> QED BY <3>1, <3>2, CertifyQuiet DEF NewOrSame
  <2>2. CASE ReleaseApplyLock(a)
    <3>1. UNCHANGED <<conf, seen, applied, lastPid, hal, svcPid, tmpPkgs>>
      BY <2>2 DEF ReleaseApplyLock, files
    <3>2. \A b \in Actor : OutOf(b)
      BY <2>2, ReturnsOut DEF ReleaseApplyLock, CertifyInv
    <3> QED BY <3>1, <3>2, CertifyQuiet DEF NewOrSame
  <2>3. CASE ApplyPrepare(a)
    <3>1. /\ UNCHANGED <<conf, seen, applied, lastPid, hal, svcPid>>
          /\ tmpPkgs' = conf.pkgs /\ loc'[a].raw = conf /\ pc[a] \in ApplyHeld
          /\ pc'[a] \in {"patch", "unlock"}
          /\ \A b \in Actor \ {a} : pc'[b] = pc[b] /\ loc'[b] = loc[b]
      BY <2>3 DEF ApplyPrepare, PrepareConfig, PrepareFiles, ApplyHeld, Local
    <3>2. AttemptInv(a)'
      BY <3>1 DEF AttemptInv, Changing, Current
    <3>3. CertInv'
      BY <3>1 DEF CertifyInv, CertInv, Good
    <3> QED BY <3>1, <3>2, <3>3, CertifyOwn
  <2>4. CASE Patch(a)
    <3>1. /\ UNCHANGED <<conf, seen, applied, lastPid, svcPid, tmpPkgs>>
          /\ hal'.rules = Rules(loc[a].raw.mode, tmpPkgs) /\ hal'.pid = hal.pid
          /\ loc'[a].raw = loc[a].raw /\ loc'[a].pid = hal.pid
          /\ pc[a] = "patch" /\ pc'[a] = "pid"
          /\ \A b \in Actor \ {a} : pc'[b] = pc[b] /\ loc'[b] = loc[b]
      BY <2>4 DEF Patch, files, TypeOK, Local
    <3>2. Current(a) => Good'
      BY <2>0, <3>1 DEF AttemptInv, Current, Good, Snap
    <3>3. applied.snap = Snap(conf) => Current(a)
      BY <2>0, <3>1 DEF AttemptInv, Changing
    <3>4. AttemptInv(a)'
      BY <3>1, <3>2, <3>3 DEF AttemptInv, Changing, Current
    <3>5. CertInv'
      BY <3>1, <3>2, <3>3 DEF CertInv
    <3> QED BY <3>1, <3>4, <3>5, CertifyOwn DEF ApplyHeld
  <2>5. CASE PatchFails(a)
    <3>1. /\ UNCHANGED <<conf, seen, applied, lastPid, svcPid, tmpPkgs, hal>>
          /\ loc'[a].raw = loc[a].raw /\ loc'[a].rc = 1
          /\ pc[a] = "patch" /\ pc'[a] = "match"
          /\ \A b \in Actor \ {a} : pc'[b] = pc[b] /\ loc'[b] = loc[b]
      BY <2>5 DEF PatchFails, Fault, CanSpend, files, Local
    <3>2. AttemptInv(a)'
      BY <2>0, <3>1 DEF AttemptInv, Changing, Current
    <3>3. CertInv'
      BY <3>1 DEF CertifyInv, CertInv, Good
    <3> QED BY <3>1, <3>2, <3>3, CertifyOwn DEF ApplyHeld
  <2>6. CASE RecordPid(a)
    <3>1. /\ UNCHANGED <<conf, seen, applied, svcPid, tmpPkgs, hal>>
          /\ lastPid' = loc[a].pid /\ loc'[a].raw = loc[a].raw
          /\ pc[a] = "pid" /\ pc'[a] = "match"
          /\ \A b \in Actor \ {a} : pc'[b] = pc[b] /\ loc'[b] = loc[b]
      BY <2>6 DEF RecordPid, Local
    <3>2. lastPid <= loc[a].pid /\ loc[a].pid <= hal.pid /\ loc[a].pid \in Nat
      BY <3>1 DEF CertifyInv, PidInv, Local
    <3>3. Current(a) /\ hal.pid = lastPid' => Good
      BY <2>0, <3>1 DEF AttemptInv
    <3>4. AttemptInv(a)'
      BY <2>0, <3>1, <3>3 DEF AttemptInv, Changing, Current, Good
    <3>5. CertInv'
      BY <2>0, <3>1, <3>3 DEF CertInv, AttemptInv, Changing, Good
    <3> QED BY <3>1, <3>2, <3>4, <3>5, CertifyOwn DEF ApplyHeld
  <2>7. CASE MatchRaw(a)
    <3>1. /\ UNCHANGED <<conf, seen, applied, lastPid, svcPid, tmpPkgs, hal>>
          /\ loc'[a].raw = loc[a].raw /\ pc[a] = "match"
          /\ \/ pc'[a] = "record" /\ loc[a].rc = 0 /\ loc' = loc
             \/ pc'[a] = "reprepare" /\ loc' = loc
             \/ pc'[a] \in {"prepare", "unlock"}
          /\ \A b \in Actor \ {a} : pc'[b] = pc[b] /\ loc'[b] = loc[b]
      BY <2>7 DEF MatchRaw, NextAttempt, OnlyPc, files, Local
    <3>2. AttemptInv(a)'
      BY <2>0, <3>1 DEF AttemptInv, Changing, Current, Good
    <3>3. CertInv'
      BY <3>1 DEF CertifyInv, CertInv, Good
    <3> QED BY <3>1, <3>2, <3>3, CertifyOwn DEF ApplyHeld
  <2>8. CASE Reprepare(a)
    <3>1. /\ UNCHANGED <<conf, seen, applied, lastPid, svcPid, hal>>
          /\ loc'[a].raw = loc[a].raw /\ pc[a] = "reprepare"
          /\ \/ pc'[a] = "record" /\ loc[a].rc = 0 /\ loc'[a].rc = 0
             \/ pc'[a] \in {"prepare", "unlock"}
          /\ \A b \in Actor \ {a} : pc'[b] = pc[b] /\ loc'[b] = loc[b]
      BY <2>8 DEF Reprepare, PrepareFiles, NextAttempt, Local
    <3>2. AttemptInv(a)'
      BY <2>0, <3>1 DEF AttemptInv, Changing, Current, Good
    <3>3. CertInv'
      BY <3>1 DEF CertifyInv, CertInv, Good
    <3> QED BY <3>1, <3>2, <3>3, CertifyOwn DEF ApplyHeld
  <2>9. CASE RecordApplied(a)
    <3>1. /\ UNCHANGED <<conf, seen, lastPid, svcPid, hal>> /\ loc' = loc
          /\ applied'.snap = Snap(loc[a].raw) /\ pc[a] = "record" /\ pc'[a] = "unlock"
          /\ \A b \in Actor \ {a} : pc'[b] = pc[b] /\ loc'[b] = loc[b]
      BY <2>9 DEF RecordApplied, Prepared
    <3>2. AttemptInv(a)'
      BY <3>1 DEF AttemptInv, Changing
    <3>3. CertInv'
      BY <2>0, <3>1 DEF CertInv, AttemptInv, Current, Good
    <3> QED BY <3>1, <3>2, <3>3, CertifyOwn DEF ApplyHeld
  <2> QED BY <1>3, <2>1, <2>2, <2>3, <2>4, <2>5, <2>6, <2>7, <2>8, <2>9 DEF ApplyStep
<1>4. ASSUME NEW a \in Actor, Failure(a) PROVE CertifyInv'
  <2>1. UNCHANGED <<conf, seen, lastPid, svcPid>> /\ applied'.snap = applied.snap
    BY <1>4 DEF Failure, RecordPidFails, RecordFails, ApplyLockTimeout, PrepareFails,
       Crash, Fault, CanSpend, files, TypeOK, Marker
  <2>2. hal'.pid = hal.pid /\ hal'.rules \in {hal.rules, Torn} /\ tmpPkgs' \in {tmpPkgs, conf.pkgs}
    BY <1>4 DEF Failure, RecordPidFails, RecordFails, ApplyLockTimeout, PrepareFails,
       Crash, files, TypeOK
  <2>3. \A b \in Actor : OutOf(b)
    <3>1. CASE RecordPidFails(a) \/ RecordFails(a)
      BY <3>1 DEF RecordPidFails, RecordFails, NextAttempt, OutOf, Changing, Local
    <3>2. CASE ApplyLockTimeout(a)
      BY <3>2, ReturnsOut DEF ApplyLockTimeout, CertifyInv
    <3>3. CASE PrepareFails(a)
      BY <3>3 DEF PrepareFails, Preparing, OutOf, Changing, Local
    <3>4. CASE Crash(a)
      <4>1. Returns(a, 1) \/ Forget(a, "watch") \/ Forget(a, "idle")
        BY <3>4 DEF Crash
      <4> QED BY <4>1, ReturnsOut DEF OutOf, Changing, CertifyInv
    <3> QED BY <1>4, <3>1, <3>2, <3>3, <3>4 DEF Failure
  <2> QED BY <2>1, <2>2, <2>3, CertifyQuiet DEF NewOrSame
<1>5. ASSUME NEW w \in Worker, WorkerStep(w) PROVE CertifyInv'
  <2>1. /\ UNCHANGED <<conf, seen, applied, lastPid, hal, svcPid>>
        /\ tmpPkgs' \in {tmpPkgs, conf.pkgs}
    BY <1>5 DEF WorkerStep, ReadPending, RemovePending, WorkerPrepare, Requeue,
       ReleaseWorkerLock, Recheck, TakePending, JudgePending, PrepareConfig,
       PrepareFiles, OnlyPc, files
  <2>2. \A b \in Actor : OutOf(b)
    <3>1. CASE ReadPending(w) \/ RemovePending(w)
      <4>1. loc'[w].raw = NoLoc.raw /\ pc'[w] \notin Changing
        BY <3>1 DEF ReadPending, RemovePending, Changing, NoLoc
      <4>2. \A b \in Actor \ {w} : pc'[b] = pc[b] /\ loc'[b] = loc[b]
        BY <3>1 DEF ReadPending, RemovePending
      <4> QED BY <4>1, <4>2 DEF OutOf
    <3>2. CASE WorkerPrepare(w)
      BY <3>2 DEF WorkerPrepare, PrepareConfig, OutOf, Changing, Local
    <3>4. CASE Requeue(w)
      BY <3>4 DEF Requeue, OutOf, Changing
    <3>3. CASE ReleaseWorkerLock(w) \/ Recheck(w) \/ TakePending(w) \/ JudgePending(w)
      BY <3>3 DEF ReleaseWorkerLock, Recheck, TakePending, JudgePending, OutOf, Changing
    <3> QED BY <1>5, <3>1, <3>2, <3>3, <3>4 DEF WorkerStep
  <2> QED BY <2>1, <2>2, CertifyQuiet DEF NewOrSame
<1>6. CASE ServiceStep
  <2>1. /\ UNCHANGED <<conf, seen, applied, lastPid, hal>>
        /\ tmpPkgs' \in {tmpPkgs, conf.pkgs} /\ svcPid' <= lastPid
    BY <1>6 DEF ServiceStep, BootApply, ReadLastPid, Probe, ProbePrepare, ProbeCompare,
       ProbeDecide, UpToDate, PrepareConfig, PrepareFiles, OnlyPc, files
  <2>2. \A b \in Actor : OutOf(b)
    <3>1. CASE BootApply \/ ProbeDecide
      BY <3>1 DEF BootApply, ProbeDecide, OutOf, Changing, NoLoc
    <3>2. CASE ReadLastPid \/ Probe \/ ProbeCompare
      BY <3>2 DEF ReadLastPid, Probe, ProbeCompare, OutOf, Changing
    <3>3. CASE ProbePrepare
      BY <3>3 DEF ProbePrepare, PrepareConfig, OutOf, Changing, Local
    <3> QED BY <1>6, <3>1, <3>2, <3>3 DEF ServiceStep
  <2> QED BY <2>1, <2>2, CertifyQuiet DEF NewOrSame
<1>7. CASE ExternalEdit
  <2>1. PICK m \in Mode, p \in Pkgs : Edit([conf EXCEPT !.mode = m, !.pkgs = p])
    BY <1>7 DEF ExternalEdit
  <2>2. /\ [conf EXCEPT !.mode = m, !.pkgs = p] \in Conf
        /\ [conf EXCEPT !.mode = m, !.pkgs = p].pkgs \in Pkgs
    BY DEF Conf, TypeOK
  <2>3. NewOrSame
    BY <2>1, <2>2, EditIsNew DEF CertifyInv
  <2> QED BY <1>7, <2>3, CertifyQuiet DEF ExternalEdit, NoOtherFile, OutOf
<1>8. CASE HalDies
  BY <1>8, CertifyQuiet DEF HalDies, CanSpend, files, OutOf, NewOrSame
<1>9. CASE HalStarts
  <2>1. /\ UNCHANGED <<conf, seen, applied, lastPid, svcPid, tmpPkgs, pc, loc>>
        /\ hal'.pid = hal.pid + 1
    BY <1>9 DEF HalStarts, files
  <2>2. \A a \in Actor : loc[a].pid \in Nat
    BY DEF Local
  <2>3. PidInv' /\ hal'.pid # lastPid'
    BY <2>1, <2>2 DEF CertifyInv, PidInv
  <2>4. \A a \in Actor : At(a, "pid") => hal'.pid # loc[a].pid
    BY <2>1, <2>2 DEF CertifyInv, PidInv
  <2>5. ASSUME NEW a \in Actor PROVE AttemptInv(a)'
    BY <2>1, <2>3, <2>4 DEF CertifyInv, AttemptInv, Current
  <2> QED BY <2>1, <2>3, <2>5 DEF CertifyInv, PastInv, Past, CertInv
<1>10. CASE Reboot
  <2>1. /\ UNCHANGED <<conf, seen, applied, lastPid>> /\ svcPid' = 0
        /\ hal'.pid \in Nat /\ hal'.pid > hal.pid
    BY <1>10, BoundsAssumption DEF Reboot, CanSpend
  <2>2. \A a \in Actor : pc'[a] \in {"boot", "idle"} /\ loc'[a] = NoLoc
    BY <1>10 DEF Reboot
  <2>3. PastInv'
    BY <2>1, <2>2 DEF CertifyInv, PastInv, Past
  <2>4. PidInv' /\ hal'.pid # lastPid'
    BY <2>1, <2>2 DEF PidInv
  <2> QED BY <2>2, <2>3, <2>4 DEF CertifyInv, AttemptInv, Changing, CertInv
<1>11. CASE UNCHANGED vars
  BY <1>11, CertifyQuiet DEF vars, files, OutOf, NewOrSame
<1> QED
  BY <1>1, <1>2, <1>3, <1>4, <1>5, <1>6, <1>7, <1>8, <1>9, <1>10, <1>11 DEF Next

\* NeverCertifiesStale, for any number of processes, commands, failures, kills,
\* restarts and reboots: what the records call applied is in the HAL.
THEOREM RecordsAreTrue ==
    ASSUME PidReuse = FALSE, Revert = FALSE
    PROVE  Spec => []NeverCertifiesStale
<1>1. Init => CertifyInv
  <2> SUFFICES ASSUME Init PROVE CertifyInv
    OBVIOUS
  <2>1. conf.pkgs \in Pkgs /\ applied.snap = NoMeta.snap /\ seen = {Snap(conf)}
    BY DEF Init
  <2>2. \A a \in Actor : loc[a] = NoLoc /\ pc[a] \in {"boot", "idle"}
    BY DEF Init
  <2>3. lastPid = 0 /\ svcPid = 0 /\ hal.pid = 1
    BY DEF Init
  <2>4. applied.snap # Snap(conf)
    BY <2>1, ConfigAssumption DEF NoMeta, NoConf, Snap
  <2>5. Snap(NoLoc.raw) = NoMeta.snap
    BY DEF NoLoc, NoMeta
  <2>6. PastInv
    BY <2>1, <2>2, <2>5 DEF PastInv, Past
  <2>7. PidInv
    BY <2>2, <2>3 DEF PidInv, At
  <2> QED BY <2>2, <2>4, <2>6, <2>7 DEF CertifyInv, AttemptInv, CertInv, Changing, At
<1>2. TypeOK /\ CertifyInv => NeverCertifiesStale
  BY DEF TypeOK, CertifyInv, PidInv, CertInv, Good, NeverCertifiesStale, Certified
<1>3. Spec => [](TypeOK /\ LockInv)
  BY OneApplier
<1> QED BY <1>1, <1>2, <1>3, CertifyStep, PTL DEF Spec
=============================================================================
