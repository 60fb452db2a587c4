-------------------------- MODULE ThreadFreezeProofs --------------------------
(***************************************************************************)
(* Proofs about ThreadFreeze for every number of threads and CPUs, of      *)
(* failing calls, kills and signals.  The steps of an action that changes  *)
(* many variables are typed variable by variable, in lemmas of their own.  *)
(***************************************************************************)
EXTENDS ThreadFreeze, FiniteSetTheorems, TLAPS

USE DEF kernel, records, attach, flush, history

LEMMA ListTypes == TypeOK /\ List => TypeOK'
<1> SUFFICES ASSUME TypeOK, List PROVE TypeOK'
  OBVIOUS
<1>1. pc' \in Label
  BY DEF TypeOK, List, GiveUp, Return, Listed, New, Fault, Goto, Label, Freezing, Frozen
<1>2. faults' \in Nat
  BY DEF TypeOK, List, GiveUp, Return, Listed, New, Fault, Goto
<1>3. todo' \subseteq Thread \ group'
  BY DEF TypeOK, List, GiveUp, Return, Listed, New, Fault, Goto
<1>4. added' \in BOOLEAN
  BY DEF TypeOK, List, GiveUp, Return, Listed, New, Fault, Goto
<1>5. pass' \in Nat
  BY DEF TypeOK, List, GiveUp, Return, Listed, New, Fault, Goto
<1>6. stable' \in Nat
  BY DEF TypeOK, List, GiveUp, Return, Listed, New, Fault, Goto
<1>7. froze' \in BOOLEAN
  BY DEF TypeOK, List, GiveUp, Return, Listed, New, Fault, Goto
<1>8. gaps' \in Nat
  BY DEF TypeOK, List, GiveUp, Return, Listed, New, Fault, Goto
<1> QED
  BY <1>1, <1>2, <1>3, <1>4, <1>5, <1>6, <1>7, <1>8 DEF TypeOK, List

LEMMA SeizeTypes == TypeOK /\ Seize => TypeOK'
<1> SUFFICES ASSUME TypeOK, Seize PROVE TypeOK'
  OBVIOUS
<1>1. pc' \in Label
  BY DEF TypeOK, Seize, GiveUp, Return, Fault, Goto, Label, Freezing, Frozen
<1>2. hand' \in Thread
  BY DEF TypeOK, Seize, GiveUp, Return, Fault, Goto
<1>3. traced' \subseteq Thread
  BY DEF TypeOK, Seize, GiveUp, Return, Fault, Goto
<1>4. group' \subseteq Thread
  BY DEF TypeOK, Seize, GiveUp, Return, Fault, Goto
<1>5. faults' \in Nat
  BY DEF TypeOK, Seize, GiveUp, Return, Fault, Goto
<1>6. todo' \subseteq Thread \ group'
  BY DEF TypeOK, Seize, GiveUp, Return, Fault, Goto
<1>7. added' \in BOOLEAN
  BY DEF TypeOK, Seize, GiveUp, Return, Fault, Goto
<1>8. pass' \in Nat
  BY DEF TypeOK, Seize, GiveUp, Return, Fault, Goto
<1>9. stable' \in Nat
  BY DEF TypeOK, Seize, GiveUp, Return, Fault, Goto
<1>10. froze' \in BOOLEAN
  BY DEF TypeOK, Seize, GiveUp, Return, Fault, Goto
<1>11. gaps' \in Nat
  BY DEF TypeOK, Seize, GiveUp, Return, Fault, Goto
<1> QED
  BY <1>1, <1>2, <1>3, <1>4, <1>5, <1>6, <1>7, <1>8, <1>9, <1>10, <1>11 DEF TypeOK, Seize

LEMMA InterruptTypes == TypeOK /\ Interrupt => TypeOK'
<1> SUFFICES ASSUME TypeOK, Interrupt PROVE TypeOK'
  OBVIOUS
<1>1. pc' \in Label
  BY DEF TypeOK, Interrupt, GiveUp, Return, Fault, Goto, Label, Freezing, Frozen
<1>2. group' \subseteq Thread
  BY DEF TypeOK, Interrupt, GiveUp, Return, Fault, Goto
<1>3. trap' \subseteq Thread
  BY DEF TypeOK, Interrupt, GiveUp, Return, Fault, Goto
<1>4. faults' \in Nat
  BY DEF TypeOK, Interrupt, GiveUp, Return, Fault, Goto
<1>5. hurt' \subseteq Thread
  BY DEF TypeOK, Interrupt, GiveUp, Return, Fault, Goto
<1>6. todo' \subseteq Thread \ group'
  BY DEF TypeOK, Interrupt, GiveUp, Return, Fault, Goto
<1>7. added' \in BOOLEAN
  BY DEF TypeOK, Interrupt, GiveUp, Return, Fault, Goto
<1>8. pass' \in Nat
  BY DEF TypeOK, Interrupt, GiveUp, Return, Fault, Goto
<1>9. stable' \in Nat
  BY DEF TypeOK, Interrupt, GiveUp, Return, Fault, Goto
<1>10. froze' \in BOOLEAN
  BY DEF TypeOK, Interrupt, GiveUp, Return, Fault, Goto
<1>11. gaps' \in Nat
  BY DEF TypeOK, Interrupt, GiveUp, Return, Fault, Goto
<1> QED
  BY <1>1, <1>2, <1>3, <1>4, <1>5, <1>6, <1>7, <1>8, <1>9, <1>10, <1>11 DEF TypeOK, Interrupt

LEMMA AwaitTypes == TypeOK /\ Await => TypeOK'
<1> SUFFICES ASSUME TypeOK, Await PROVE TypeOK'
  OBVIOUS
<1>1. pc' \in Label
  BY DEF TypeOK, Await, GiveUp, Return, Seen, Fault, Goto, Label, Freezing, Frozen
<1>2. group' \subseteq Thread
  BY DEF TypeOK, Await, GiveUp, Return, Seen, Fault, Goto
<1>3. held' \subseteq Thread
  BY DEF TypeOK, Await, GiveUp, Return, Seen, Fault, Goto
<1>4. resume' \subseteq Thread
  BY DEF TypeOK, Await, GiveUp, Return, Seen, Fault, Goto
<1>5. faults' \in Nat
  BY DEF TypeOK, Await, GiveUp, Return, Seen, Fault, Goto
<1>6. hurt' \subseteq Thread
  BY DEF TypeOK, Await, GiveUp, Return, Seen, Fault, Goto
<1>7. todo' \subseteq Thread \ group'
  BY DEF TypeOK, Await, GiveUp, Return, Seen, Fault, Goto
<1>8. added' \in BOOLEAN
  BY DEF TypeOK, Await, GiveUp, Return, Seen, Fault, Goto
<1>9. pass' \in Nat
  BY DEF TypeOK, Await, GiveUp, Return, Seen, Fault, Goto
<1>10. stable' \in Nat
  BY DEF TypeOK, Await, GiveUp, Return, Seen, Fault, Goto
<1>11. froze' \in BOOLEAN
  BY DEF TypeOK, Await, GiveUp, Return, Seen, Fault, Goto
<1>12. gaps' \in Nat
  BY DEF TypeOK, Await, GiveUp, Return, Seen, Fault, Goto
<1> QED
  BY <1>1, <1>2, <1>3, <1>4, <1>5, <1>6, <1>7, <1>8, <1>9, <1>10, <1>11, <1>12 DEF TypeOK, Await

LEMMA VerifyTypes == TypeOK /\ Verify => TypeOK'
<1> SUFFICES ASSUME TypeOK, Verify PROVE TypeOK'
  OBVIOUS
<1>1. pc' \in Label
  BY DEF TypeOK, Verify, GiveUp, Return, Again, Listed, Fault, Goto, Label, Freezing, Frozen
<1>2. faults' \in Nat
  BY DEF TypeOK, Verify, GiveUp, Return, Again, Listed, Fault, Goto
<1>3. todo' \subseteq Thread \ group'
  BY DEF TypeOK, Verify, GiveUp, Return, Again, Listed, Fault, Goto
<1>4. added' \in BOOLEAN
  BY DEF TypeOK, Verify, GiveUp, Return, Again, Listed, Fault, Goto
<1>5. pass' \in Nat
  BY DEF TypeOK, Verify, GiveUp, Return, Again, Listed, Fault, Goto
<1>6. stable' \in Nat
  BY DEF TypeOK, Verify, GiveUp, Return, Again, Listed, Fault, Goto
<1>7. froze' \in BOOLEAN
  BY DEF TypeOK, Verify, GiveUp, Return, Again, Listed, Fault, Goto
<1>8. gaps' \in Nat
  BY DEF TypeOK, Verify, GiveUp, Return, Again, Listed, Fault, Goto
<1> QED
  BY <1>1, <1>2, <1>3, <1>4, <1>5, <1>6, <1>7, <1>8 DEF TypeOK, Verify

LEMMA EnsureTypes == TypeOK /\ Ensure => TypeOK'
<1> SUFFICES ASSUME TypeOK, Ensure PROVE TypeOK'
  OBVIOUS
<1>1. pc' \in Label
  BY DEF TypeOK, Ensure, Fault, Goto, Label, Frozen
<1>2. aim' \in {"self", "target"}
  BY DEF TypeOK, Ensure, Fault, Goto
<1>3. helper' \in {"zero", "own", "torn", "else"}
  BY DEF TypeOK, Ensure, Fault, Goto
<1>4. ready' \in BOOLEAN
  BY DEF TypeOK, Ensure, Fault, Goto
<1>5. stale' \in [{"self", "target"} -> SUBSET Cpu]
  BY DEF TypeOK, Ensure, Fault, Goto
<1>6. faults' \in Nat
  BY DEF TypeOK, Ensure, Fault, Goto
<1> QED
  BY <1>1, <1>2, <1>3, <1>4, <1>5, <1>6 DEF TypeOK, Ensure

LEMMA BindTypes == TypeOK /\ Bind => TypeOK'
<1> SUFFICES ASSUME TypeOK, Bind PROVE TypeOK'
  OBVIOUS
<1>1. pc' \in Label
  BY DEF TypeOK, Bind, Borrow, Fault, Goto, Label, Frozen
<1>2. hand' \in Thread
  BY DEF TypeOK, Bind, Borrow, Fault, Goto
<1>3. done' \in BOOLEAN
  BY DEF TypeOK, Bind, Borrow, Fault, Goto
<1>4. cpus' \in [Thread -> SUBSET Cpu]
  BY DEF TypeOK, Bind, Borrow, Fault, Goto
<1>5. saved' \in [Thread -> SUBSET Cpu]
  BY DEF TypeOK, Bind, Borrow, Fault, Goto
<1>6. cpusPending' \subseteq Thread
  BY DEF TypeOK, Bind, Borrow, Fault, Goto
<1>7. used' \subseteq Thread
  BY DEF TypeOK, Bind, Borrow, Fault, Goto
<1>8. foreign' \subseteq Thread
  BY DEF TypeOK, Bind, Borrow, Fault, Goto
<1>9. regsPending' \subseteq Thread
  BY DEF TypeOK, Bind, Borrow, Fault, Goto
<1>10. held' \subseteq Thread
  BY DEF TypeOK, Bind, Borrow, Fault, Goto
<1>11. stat' \in [Thread -> {"unborn", "runs", "stop", "gone"}]
  BY DEF TypeOK, Bind, Borrow, Fault, Goto
<1>12. compromised' \in BOOLEAN
  BY DEF TypeOK, Bind, Borrow, Fault, Goto
<1>13. faults' \in Nat
  BY DEF TypeOK, Bind, Borrow, Fault, Goto
<1>14. hurt' \subseteq Thread
  BY DEF TypeOK, Bind, Borrow, Fault, Goto
<1>15. left' \subseteq Cpu
  BY DEF TypeOK, Bind, Borrow, Fault, Goto
<1> QED
  BY <1>1, <1>2, <1>3, <1>4, <1>5, <1>6, <1>7, <1>8, <1>9, <1>10, <1>11, <1>12, <1>13, <1>14,
     <1>15 DEF TypeOK, Bind

LEMMA RegainTypes == TypeOK /\ Regain => TypeOK'
<1> SUFFICES ASSUME TypeOK, Regain PROVE TypeOK'
  OBVIOUS
<1>1. pc' \in Label
  BY DEF TypeOK, Regain, Seen, Fault, Goto, Label, Frozen
<1>2. held' \subseteq Thread
  BY DEF TypeOK, Regain, Seen, Fault, Goto
<1>3. resume' \subseteq Thread
  BY DEF TypeOK, Regain, Seen, Fault, Goto
<1>4. foreign' \subseteq Thread
  BY DEF TypeOK, Regain, Seen, Fault, Goto
<1>5. regsPending' \subseteq Thread
  BY DEF TypeOK, Regain, Seen, Fault, Goto
<1>6. done' \in BOOLEAN
  BY DEF TypeOK, Regain, Seen, Fault, Goto
<1>7. compromised' \in BOOLEAN
  BY DEF TypeOK, Regain, Seen, Fault, Goto
<1>8. faults' \in Nat
  BY DEF TypeOK, Regain, Seen, Fault, Goto
<1>9. hurt' \subseteq Thread
  BY DEF TypeOK, Regain, Seen, Fault, Goto
<1> QED
  BY <1>1, <1>2, <1>3, <1>4, <1>5, <1>6, <1>7, <1>8, <1>9 DEF TypeOK, Regain

LEMMA OverdueTypes == TypeOK /\ Overdue => TypeOK'
<1> SUFFICES ASSUME TypeOK, Overdue PROVE TypeOK'
  OBVIOUS
<1>1. pc' \in Label
  BY DEF TypeOK, Overdue, Fault, Goto, Label, Frozen
<1>2. trap' \subseteq Thread
  BY DEF TypeOK, Overdue, Fault, Goto
<1>3. regsPending' \subseteq Thread
  BY DEF TypeOK, Overdue, Fault, Goto
<1>4. compromised' \in BOOLEAN
  BY DEF TypeOK, Overdue, Fault, Goto
<1>5. faults' \in Nat
  BY DEF TypeOK, Overdue, Fault, Goto
<1>6. hurt' \subseteq Thread
  BY DEF TypeOK, Overdue, Fault, Goto
<1> QED
  BY <1>1, <1>2, <1>3, <1>4, <1>5, <1>6 DEF TypeOK, Overdue

LEMMA UnbindTypes == TypeOK /\ Unbind => TypeOK'
<1> SUFFICES ASSUME TypeOK, Unbind PROVE TypeOK'
  OBVIOUS
<1>1. pc' \in Label
  BY DEF TypeOK, Unbind, Fault, Goto, Label, Frozen
<1>2. cpus' \in [Thread -> SUBSET Cpu]
  BY DEF TypeOK, Unbind, Fault, Goto
<1>3. cpusPending' \subseteq Thread
  BY DEF TypeOK, Unbind, Fault, Goto
<1>4. left' \subseteq Cpu
  BY DEF TypeOK, Unbind, Fault, Goto
<1>5. compromised' \in BOOLEAN
  BY DEF TypeOK, Unbind, Fault, Goto
<1>6. faults' \in Nat
  BY DEF TypeOK, Unbind, Fault, Goto
<1>7. hurt' \subseteq Thread
  BY DEF TypeOK, Unbind, Fault, Goto
<1> QED
  BY <1>1, <1>2, <1>3, <1>4, <1>5, <1>6, <1>7 DEF TypeOK, Unbind

LEMMA HaltingTypes == TypeOK /\ Halting => TypeOK'
<1> SUFFICES ASSUME TypeOK, Halting PROVE TypeOK'
  OBVIOUS
<1>1. pc' \in Label
  BY DEF TypeOK, Halting, Seen, Drop, Abandon, Fault, Goto, Label
<1>2. held' \subseteq Thread
  BY DEF TypeOK, Halting, Seen, Drop, Abandon, Fault, Goto
<1>3. resume' \subseteq Thread
  BY DEF TypeOK, Halting, Seen, Drop, Abandon, Fault, Goto
<1>4. group' \subseteq Thread
  BY DEF TypeOK, Halting, Seen, Drop, Abandon, Fault, Goto
<1>5. compromised' \in BOOLEAN
  BY DEF TypeOK, Halting, Seen, Drop, Abandon, Fault, Goto
<1>6. faults' \in Nat
  BY DEF TypeOK, Halting, Seen, Drop, Abandon, Fault, Goto
<1>7. hurt' \subseteq Thread
  BY DEF TypeOK, Halting, Seen, Drop, Abandon, Fault, Goto
<1>8. todo' \subseteq Thread \ group'
  BY DEF TypeOK, Halting, Seen, Drop, Abandon, Fault, Goto
<1> QED
  BY <1>1, <1>2, <1>3, <1>4, <1>5, <1>6, <1>7, <1>8 DEF TypeOK, Halting

LEMMA DetachTypes == TypeOK /\ Detach => TypeOK'
<1> SUFFICES ASSUME TypeOK, Detach PROVE TypeOK'
  OBVIOUS
<1>1. pc' \in Label
  BY DEF TypeOK, Detach, PutBack, Drop, Abandon, Fault, Goto, Label
<1>2. group' \subseteq Thread
  BY DEF TypeOK, Detach, PutBack, Drop, Abandon, Fault, Goto
<1>3. stat' \in [Thread -> {"unborn", "runs", "stop", "gone"}]
  BY DEF TypeOK, Detach, PutBack, Drop, Abandon, Fault, Goto
<1>4. cpus' \in [Thread -> SUBSET Cpu]
  BY DEF TypeOK, Detach, PutBack, Drop, Abandon, Fault, Goto
<1>5. foreign' \subseteq Thread
  BY DEF TypeOK, Detach, PutBack, Drop, Abandon, Fault, Goto
<1>6. traced' \subseteq Thread
  BY DEF TypeOK, Detach, PutBack, Drop, Abandon, Fault, Goto
<1>7. trap' \subseteq Thread
  BY DEF TypeOK, Detach, PutBack, Drop, Abandon, Fault, Goto
<1>8. hurt' \subseteq Thread
  BY DEF TypeOK, Detach, PutBack, Drop, Abandon, Fault, Goto
<1>9. lost' \subseteq Thread
  BY DEF TypeOK, Detach, PutBack, Drop, Abandon, Fault, Goto
<1>10. compromised' \in BOOLEAN
  BY DEF TypeOK, Detach, PutBack, Drop, Abandon, Fault, Goto
<1>11. faults' \in Nat
  BY DEF TypeOK, Detach, PutBack, Drop, Abandon, Fault, Goto
<1>12. todo' \subseteq Thread \ group'
  BY DEF TypeOK, Detach, PutBack, Drop, Abandon, Fault, Goto
<1> QED
  BY <1>1, <1>2, <1>3, <1>4, <1>5, <1>6, <1>7, <1>8, <1>9, <1>10, <1>11, <1>12 DEF TypeOK,
     Detach

LEMMA WorkTypes == TypeOK /\ Work => TypeOK'
<1> SUFFICES ASSUME TypeOK, Work PROVE TypeOK'
  OBVIOUS
<1>1. pc' \in Label
  BY DEF TypeOK, Work, Goto, Label, Frozen
<1>2. round' \in Nat
  BY DEF TypeOK, Work, Goto
<1>3. flushed' \in BOOLEAN
  BY DEF TypeOK, Work, Goto
<1>4. stale' \in [{"self", "target"} -> SUBSET Cpu]
  BY DEF TypeOK, Work, Goto
<1> QED
  BY <1>1, <1>2, <1>3, <1>4 DEF TypeOK, Work

LEMMA InitTypes == Init => TypeOK
<1> SUFFICES ASSUME Init PROVE TypeOK
  OBVIOUS
<1>1. home \in [Thread -> SUBSET Cpu]
  BY HomesAssumption DEF Init
<1>2. Leader \in Thread /\ Early \subseteq Thread
  BY ThreadAssumption
<1> QED
  BY <1>1, <1>2 DEF Init, TypeOK, Label, Freezing, Frozen

\* Every step keeps the types.
LEMMA TypeStep ==
    ASSUME TypeOK, [Next]_vars PROVE TypeOK'
<1> USE DEF TypeOK
<1>1. CASE Start
  BY <1>1, HomesAssumption DEF Start
<1>2. CASE End
  BY <1>2 DEF End
<1>3. CASE Post
  BY <1>3 DEF Post, Alive
<1>4. CASE Take
  BY <1>4 DEF Take
<1>5. CASE Stop
  BY <1>5 DEF Stop
<1>6. CASE Helper
  BY <1>6 DEF Helper
<1>7. CASE KillHal
  BY <1>7 DEF KillHal, Fault
<1>8. CASE List
  BY <1>8, ListTypes
<1>9. CASE SeizeAll
  BY <1>9 DEF SeizeAll, Goto, Label, Freezing
<1>10. CASE Seize
  BY <1>10, SeizeTypes
<1>11. CASE Interrupt
  BY <1>11, InterruptTypes
<1>12. CASE Await
  BY <1>12, AwaitTypes
<1>13. CASE Verify
  BY <1>13, VerifyTypes
<1>14. CASE Work
  BY <1>14, WorkTypes
<1>15. CASE Ensure
  BY <1>15, EnsureTypes
<1>16. CASE Cpus
  BY <1>16 DEF Cpus, CpuUnion, Fault, Goto, Label, Frozen
<1>17. CASE Covered
  BY <1>17 DEF Covered, Goto, Label, Frozen
<1>18. CASE Bind
  BY <1>18, BindTypes
<1>19. CASE Regain
  BY <1>19, RegainTypes
<1>20. CASE Overdue
  BY <1>20, OverdueTypes
<1>21. CASE Unbind
  BY <1>21, UnbindTypes
<1>22. CASE Halt
  BY <1>22 DEF Halt, Fault, Goto, Label
<1>23. CASE Halting
  BY <1>23, HaltingTypes
<1>24. CASE Detach
  BY <1>24, DetachTypes
<1>25. CASE DetachGone
  BY <1>25 DEF DetachGone, Drop, Goto, Label
<1>26. CASE Detached
  BY <1>26 DEF Detached, Goto, Label
<1>27. CASE Exit
  BY <1>27 DEF Exit, Release, Goto, Label
<1>28. CASE Crash
  BY <1>28 DEF Crash, Release, Fault, Goto, Label
<1>29. CASE UNCHANGED vars
  BY <1>29 DEF vars
<1> QED
  BY <1>1, <1>2, <1>3, <1>4, <1>5, <1>6, <1>7, <1>8, <1>9, <1>10, <1>11, <1>12, <1>13,
     <1>14, <1>15, <1>16, <1>17, <1>18, <1>19, <1>20, <1>21, <1>22, <1>23, <1>24,
     <1>25, <1>26, <1>27, <1>28, <1>29
     DEF Next, Hal, Patcher, Attach, Flush, Detaching, Ended

\* Every variable of the freeze keeps its type, and no thread is seized twice
\* (PTRACE_SEIZE of a thread of the group would fail and give up the freeze).
THEOREM Typing == Spec => []TypeOK
<1>1. TypeOK /\ [Next]_vars => TypeOK'
  BY TypeStep
<1> QED
  BY InitTypes, <1>1, PTL DEF Spec

-----------------------------------------------------------------------------
(* Nobody runs while the HAL is frozen.                                    *)

\* A thread whose stop has been seen stays stopped until it is let go.
HeldInv == \A t \in held :
    \/ stat[t] \in {"stop", "gone"}
    \/ pc = "gone" \/ (t \notin group /\ pc \notin Freezing)

Quiet == \A t \in Thread : Runs(t) => t \in foreign

\* Who is quiet stays quiet; before that every pass that passed for a quiet
\* one has cost a listing that missed somebody.
QuietInv ==
    /\ pc \in Freezing => Quiet \/ gaps >= stable
    /\ pc \in Frozen => Quiet

\* Threads run again only when they are borrowed or given back.
LEMMA HeldStep ==
    ASSUME TypeOK, HeldInv, [Next]_vars PROVE HeldInv'
<1> USE DEF HeldInv, TypeOK, Runs, Halted, Gone, Freezing
<1>1. CASE Start
  BY <1>1 DEF Start
<1>2. CASE End
  BY <1>2 DEF End
<1>3. CASE Post
  BY <1>3 DEF Post, Alive
<1>4. CASE Take
  BY <1>4 DEF Take
<1>5. CASE Stop
  BY <1>5 DEF Stop
<1>6. CASE Helper
  BY <1>6 DEF Helper
<1>7. CASE KillHal
  BY <1>7 DEF KillHal, Fault, Alive
<1>8. CASE List
  BY <1>8 DEF List, GiveUp, Return, Listed, New, Fault, Goto
<1>9. CASE SeizeAll
  BY <1>9 DEF SeizeAll, Goto
<1>10. CASE Seize
  BY <1>10 DEF Seize, GiveUp, Return, Fault, Goto
<1>11. CASE Interrupt
  BY <1>11 DEF Interrupt, GiveUp, Return, Fault, Goto
<1>12. CASE Await
  BY <1>12 DEF Await, GiveUp, Return, Seen, Fault, Goto
<1>13. CASE Verify
  BY <1>13 DEF Verify, GiveUp, Return, Again, Listed, StableEnough, Fault, Goto
<1>14. CASE Work
  BY <1>14 DEF Work, Goto
<1>15. CASE Ensure
  BY <1>15 DEF Ensure, Fault, Goto
<1>16. CASE Cpus
  BY <1>16 DEF Cpus, CpuUnion, Fault, Goto
<1>17. CASE Covered
  BY <1>17 DEF Covered, Goto
<1>18. CASE Bind
  BY <1>18 DEF Bind, Borrow, Fault, Goto
<1>19. CASE Regain
  BY <1>19 DEF Regain, Seen, Fault, Goto
<1>20. CASE Overdue
  BY <1>20 DEF Overdue, Fault, Goto
<1>21. CASE Unbind
  BY <1>21 DEF Unbind, Fault, Goto
<1>22. CASE Halt
  BY <1>22 DEF Halt, Fault, Goto
<1>23. CASE Halting
  BY <1>23 DEF Halting, Seen, Drop, Abandon, Fault, Goto
<1>24. CASE Detach
  BY <1>24 DEF Detach, PutBack, Drop, Abandon, Fault, Goto
<1>25. CASE DetachGone
  BY <1>25 DEF DetachGone, Drop, Goto
<1>26. CASE Detached
  BY <1>26 DEF Detached, Goto
<1>27. CASE Exit
  BY <1>27 DEF Exit, Release, Goto
<1>28. CASE Crash
  BY <1>28 DEF Crash, Release, Fault, Goto
<1>29. CASE UNCHANGED vars
  BY <1>29 DEF vars
<1> QED
  BY <1>1, <1>2, <1>3, <1>4, <1>5, <1>6, <1>7, <1>8, <1>9, <1>10, <1>11, <1>12, <1>13,
     <1>14, <1>15, <1>16, <1>17, <1>18, <1>19, <1>20, <1>21, <1>22, <1>23, <1>24,
     <1>25, <1>26, <1>27, <1>28, <1>29
     DEF Next, Hal, Patcher, Attach, Flush, Detaching, Ended

\* Verify is the step that matters: a listing that misses nobody proves the
\* quiet, and one that does misses again.
LEMMA QuietStep ==
    ASSUME MaxGaps < StablePasses, TypeOK, HeldInv, QuietInv, [Next]_vars PROVE QuietInv'
<1> USE DEF QuietInv, Quiet, TypeOK, Runs, Halted, Gone, Alive, Freezing, Frozen
<1>1. CASE Start
  BY <1>1 DEF Start
<1>2. CASE End
  BY <1>2 DEF End
<1>3. CASE Post
  BY <1>3 DEF Post, Alive
<1>4. CASE Take
  BY <1>4 DEF Take
<1>5. CASE Stop
  BY <1>5 DEF Stop
<1>6. CASE Helper
  BY <1>6 DEF Helper
<1>7. CASE KillHal
  BY <1>7 DEF KillHal, Fault, Alive
<1>8. CASE List
  BY <1>8 DEF List, GiveUp, Return, Listed, New, Fault, Goto
<1>9. CASE SeizeAll
  BY <1>9 DEF SeizeAll, Goto
<1>10. CASE Seize
  BY <1>10 DEF Seize, GiveUp, Return, Fault, Goto
<1>11. CASE Interrupt
  BY <1>11 DEF Interrupt, GiveUp, Return, Fault, Goto
<1>12. CASE Await
  BY <1>12 DEF Await, GiveUp, Return, Seen, Fault, Goto
<1>13. CASE Verify
  <2>1. ASSUME NEW ids \in SUBSET Thread, Listed(ids, 0), ids \subseteq group \cap held,
               pc = "verify"
        PROVE  Quiet
    BY <2>1, NumberAssumption DEF Listed, HeldInv, Quiet, Alive, Runs, Freezing, TypeOK
  <2>2. Quiet => Quiet'
    BY <1>13 DEF Verify, Quiet, Runs
  <2>3. pc = "verify" /\ (Quiet \/ gaps >= stable)
    BY <1>13 DEF Verify, QuietInv, Freezing
  <2>4. ASSUME NEW ids \in SUBSET Thread, NEW missed \in 0 .. 1, Listed(ids, missed),
               ids \subseteq group \cap held, StableEnough, Return(TRUE)
        PROVE  QuietInv'
    <3>1. Quiet
      BY <2>1, <2>3, <2>4, NumberAssumption DEF Listed, StableEnough, TypeOK
    <3> QED
      BY <3>1, <2>2, <2>4 DEF Return, Goto, QuietInv, Freezing, Frozen
  <2>5. ASSUME NEW ids \in SUBSET Thread, NEW missed \in 0 .. 1, Listed(ids, missed),
               ids \subseteq group \cap held, stable' = stable + 1, Again(missed)
        PROVE  QuietInv'
    <3>1. Quiet \/ gaps + missed >= stable + 1
      BY <2>1, <2>3, <2>5 DEF Listed, TypeOK
    <3> QED
      BY <3>1, <2>2, <2>5 DEF Again, Goto, QuietInv, Freezing, Frozen
  <2>6. ASSUME NEW missed \in 0 .. 1, stable' = 0, Again(missed)
        PROVE  QuietInv'
    BY <2>6 DEF Again, Goto, QuietInv, Freezing, Frozen, TypeOK
  <2>7. ASSUME GiveUp PROVE QuietInv'
    BY <2>7 DEF GiveUp, Return, Goto, QuietInv, Freezing, Frozen
  <2> QED
    BY <1>13, <2>4, <2>5, <2>6, <2>7 DEF Verify
<1>14. CASE Work
  BY <1>14 DEF Work, Goto
<1>15. CASE Ensure
  BY <1>15 DEF Ensure, Fault, Goto
<1>16. CASE Cpus
  BY <1>16 DEF Cpus, CpuUnion, Fault, Goto
<1>17. CASE Covered
  BY <1>17 DEF Covered, Goto
<1>18. CASE Bind
  BY <1>18 DEF Bind, Borrow, Fault, Goto
<1>19. CASE Regain
  BY <1>19 DEF Regain, Seen, Fault, Goto
<1>20. CASE Overdue
  BY <1>20 DEF Overdue, Fault, Goto
<1>21. CASE Unbind
  BY <1>21 DEF Unbind, Fault, Goto
<1>22. CASE Halt
  BY <1>22 DEF Halt, Fault, Goto
<1>23. CASE Halting
  BY <1>23 DEF Halting, Seen, Drop, Abandon, Fault, Goto
<1>24. CASE Detach
  BY <1>24 DEF Detach, PutBack, Drop, Abandon, Fault, Goto
<1>25. CASE DetachGone
  BY <1>25 DEF DetachGone, Drop, Goto
<1>26. CASE Detached
  BY <1>26 DEF Detached, Goto
<1>27. CASE Exit
  BY <1>27 DEF Exit, Release, Goto
<1>28. CASE Crash
  BY <1>28 DEF Crash, Release, Fault, Goto
<1>29. CASE UNCHANGED vars
  BY <1>29 DEF vars
<1> QED
  BY <1>1, <1>2, <1>3, <1>4, <1>5, <1>6, <1>7, <1>8, <1>9, <1>10, <1>11, <1>12, <1>13,
     <1>14, <1>15, <1>16, <1>17, <1>18, <1>19, <1>20, <1>21, <1>22, <1>23, <1>24,
     <1>25, <1>26, <1>27, <1>28, <1>29
     DEF Next, Hal, Patcher, Attach, Flush, Detaching, Ended

FreezeInv == TypeOK /\ HeldInv /\ QuietInv

LEMMA FreezeSafe == ASSUME MaxGaps < StablePasses PROVE Spec => []FreezeInv
<1>1. Init => FreezeInv
  BY InitTypes DEF FreezeInv, HeldInv, QuietInv, Init, Freezing, Frozen
<1>2. FreezeInv /\ [Next]_vars => FreezeInv'
  BY TypeStep, HeldStep, QuietStep DEF FreezeInv
<1> QED
  BY <1>1, <1>2, PTL DEF Spec

\* NobodyRuns for any number of threads that start and end while trace_attach
\* seizes them, as long as fewer listings miss one than passes must be quiet.
THEOREM FrozenIsQuiet == ASSUME MaxGaps < StablePasses PROVE Spec => []NobodyRuns
<1>1. FreezeInv => NobodyRuns
  BY DEF FreezeInv, QuietInv, Quiet, NobodyRuns
<1> QED
  BY <1>1, FreezeSafe, PTL

-----------------------------------------------------------------------------
(* Every thread gets back what is its own.                                 *)

\* Before the first borrowing nothing is pending and no call has failed.
FreshInv ==
    /\ pc \in Freezing => cpusPending = {} /\ hurt = {}
    /\ \A t \in Thread : stat[t] = "unborn" => t \notin (foreign \cup group) \cup todo

\* What is owed to a thread of the group is on record.
OwedInv == \A t \in group : Gone(t) \/
    /\ t \in foreign => t \in regsPending
    /\ t \notin cpusPending => cpus[t] = home[t]
    /\ t \in cpusPending => saved[t] = home[t]
    /\ t \in cpusPending \ held => t \in (foreign \cup hurt)

\* While nothing is compromised only the thread in hand is away from its CPUs.
OneInv ==
    /\ pc \in {"cpus", "bind", "ran", "again"} \/ (pc = "unbind" /\ done) => ~compromised
    /\ pc \in {"ran", "again", "unbind"} => hand \in group \cap cpusPending
    /\ pc \in {"ran", "again"} => ~done
    /\ pc \in Frozen /\ ~compromised =>
          \A t \in group \cap cpusPending :
             Gone(t) \/ (t = hand /\ pc \in {"ran", "again", "unbind"})

\* To the others nothing is owed.
PaidInv == \A t \in Alive \ (group \cup hurt) : t \notin foreign /\ cpus[t] = home[t]

BackInv ==
    /\ FreshInv
    /\ ~killed => OwedInv /\ OneInv /\ PaidInv
    /\ pc = "exit" \/ (pc = "gone" /\ ~killed) => group = {}

\* What is fresh stays so until the group is frozen.
LEMMA FreshStep ==
    ASSUME TypeOK, FreshInv, [Next]_vars PROVE FreshInv'
<1> USE DEF FreshInv, TypeOK, Runs, Halted, Gone, Alive, Freezing, Frozen
<1>1. CASE Start
  BY <1>1 DEF Start
<1>2. CASE End
  BY <1>2 DEF End
<1>3. CASE Post
  BY <1>3 DEF Post, Alive
<1>4. CASE Take
  BY <1>4 DEF Take
<1>5. CASE Stop
  BY <1>5 DEF Stop
<1>6. CASE Helper
  BY <1>6 DEF Helper
<1>7. CASE KillHal
  BY <1>7 DEF KillHal, Fault, Alive
<1>8. CASE List
  BY <1>8 DEF List, GiveUp, Return, Listed, New, Fault, Goto
<1>9. CASE SeizeAll
  BY <1>9 DEF SeizeAll, Goto
<1>10. CASE Seize
  BY <1>10 DEF Seize, GiveUp, Return, Fault, Goto
<1>11. CASE Interrupt
  BY <1>11 DEF Interrupt, GiveUp, Return, Fault, Goto
<1>12. CASE Await
  BY <1>12 DEF Await, GiveUp, Return, Seen, Fault, Goto
<1>13. CASE Verify
  BY <1>13 DEF Verify, GiveUp, Return, Again, Listed, StableEnough, Fault, Goto
<1>14. CASE Work
  BY <1>14 DEF Work, Goto
<1>15. CASE Ensure
  BY <1>15 DEF Ensure, Fault, Goto
<1>16. CASE Cpus
  BY <1>16 DEF Cpus, CpuUnion, Fault, Goto
<1>17. CASE Covered
  BY <1>17 DEF Covered, Goto
<1>18. CASE Bind
  BY <1>18 DEF Bind, Borrow, Fault, Goto
<1>19. CASE Regain
  BY <1>19 DEF Regain, Seen, Fault, Goto
<1>20. CASE Overdue
  BY <1>20 DEF Overdue, Fault, Goto
<1>21. CASE Unbind
  BY <1>21 DEF Unbind, Fault, Goto
<1>22. CASE Halt
  BY <1>22 DEF Halt, Fault, Goto
<1>23. CASE Halting
  BY <1>23 DEF Halting, Seen, Drop, Abandon, Fault, Goto
<1>24. CASE Detach
  BY <1>24 DEF Detach, PutBack, Drop, Abandon, Fault, Goto
<1>25. CASE DetachGone
  BY <1>25 DEF DetachGone, Drop, Goto
<1>26. CASE Detached
  BY <1>26 DEF Detached, Goto
<1>27. CASE Exit
  BY <1>27 DEF Exit, Release, Goto
<1>28. CASE Crash
  BY <1>28 DEF Crash, Release, Fault, Goto
<1>29. CASE UNCHANGED vars
  BY <1>29 DEF vars
<1> QED
  BY <1>1, <1>2, <1>3, <1>4, <1>5, <1>6, <1>7, <1>8, <1>9, <1>10, <1>11, <1>12, <1>13,
     <1>14, <1>15, <1>16, <1>17, <1>18, <1>19, <1>20, <1>21, <1>22, <1>23, <1>24,
     <1>25, <1>26, <1>27, <1>28, <1>29
     DEF Next, Hal, Patcher, Attach, Flush, Detaching, Ended

\* No step forgets what is owed.
LEMMA OwedStep ==
    ASSUME TypeOK, HeldInv, BackInv, ~killed', [Next]_vars PROVE OwedInv'
<1> USE DEF BackInv, OwedInv, OneInv, PaidInv, FreshInv, HeldInv, TypeOK, Runs, Halted, Gone,
   Alive, Freezing, Frozen
<1>1. CASE Start
  BY <1>1 DEF Start
<1>2. CASE End
  BY <1>2 DEF End
<1>3. CASE Post
  BY <1>3 DEF Post, Alive
<1>4. CASE Take
  BY <1>4 DEF Take
<1>5. CASE Stop
  BY <1>5 DEF Stop
<1>6. CASE Helper
  BY <1>6 DEF Helper
<1>7. CASE KillHal
  BY <1>7 DEF KillHal, Fault, Alive
<1>8. CASE List
  BY <1>8 DEF List, GiveUp, Return, Listed, New, Fault, Goto
<1>9. CASE SeizeAll
  BY <1>9 DEF SeizeAll, Goto
<1>10. CASE Seize
  BY <1>10 DEF Seize, GiveUp, Return, Fault, Goto
<1>11. CASE Interrupt
  BY <1>11 DEF Interrupt, GiveUp, Return, Fault, Goto
<1>12. CASE Await
  BY <1>12 DEF Await, GiveUp, Return, Seen, Fault, Goto
<1>13. CASE Verify
  BY <1>13 DEF Verify, GiveUp, Return, Again, Listed, StableEnough, Fault, Goto
<1>14. CASE Work
  BY <1>14 DEF Work, Goto
<1>15. CASE Ensure
  BY <1>15 DEF Ensure, Fault, Goto
<1>16. CASE Cpus
  BY <1>16 DEF Cpus, CpuUnion, Fault, Goto
<1>17. CASE Covered
  BY <1>17 DEF Covered, Goto
<1>18. CASE Bind
  BY <1>18 DEF Bind, Borrow, Fault, Goto
<1>19. CASE Regain
  BY <1>19 DEF Regain, Seen, Fault, Goto
<1>20. CASE Overdue
  BY <1>20 DEF Overdue, Fault, Goto
<1>21. CASE Unbind
  <2>1. pc = "unbind" /\ ~killed /\ OwedInv /\ OneInv /\ PaidInv
    BY <1>21 DEF Unbind, BackInv
  <2>2. /\ stat' = stat /\ home' = home /\ foreign' = foreign /\ group' = group
        /\ held' = held /\ regsPending' = regsPending /\ saved' = saved /\ hand' = hand
        /\ (pc' = "frozen" \/ (pc' = "bind" /\ done)) /\ hurt \subseteq hurt'
    BY <1>21 DEF Unbind, Goto
  <2>3. CASE /\ ~Gone(hand) /\ cpus' = [cpus EXCEPT ![hand] = saved[hand]]
             /\ cpusPending' = cpusPending \ {hand} /\ UNCHANGED compromised
    BY <2>1, <2>2, <2>3 DEF OwedInv, OneInv, TypeOK, Gone, Alive, Frozen
  <2>4. CASE Gone(hand) /\ cpusPending' = cpusPending \ {hand} /\ UNCHANGED <<cpus,
     compromised>>
    BY <2>1, <2>2, <2>4 DEF OwedInv, OneInv, TypeOK, Gone, Alive, Frozen
  <2>5. CASE compromised' /\ pc' = "frozen" /\ UNCHANGED <<cpus, cpusPending>>
    BY <2>1, <2>2, <2>5 DEF OwedInv, OneInv, TypeOK, Gone, Alive, Frozen
  <2> QED
    BY <1>21, <2>3, <2>4, <2>5 DEF Unbind, Goto
<1>22. CASE Halt
  BY <1>22 DEF Halt, Fault, Goto
<1>23. CASE Halting
  BY <1>23 DEF Halting, Seen, Drop, Abandon, Fault, Goto
<1>24. CASE Detach
  BY <1>24 DEF Detach, PutBack, Drop, Abandon, Fault, Goto
<1>25. CASE DetachGone
  BY <1>25 DEF DetachGone, Drop, Goto
<1>26. CASE Detached
  BY <1>26 DEF Detached, Goto
<1>27. CASE Exit
  BY <1>27 DEF Exit, Release, Goto
<1>28. CASE Crash
  BY <1>28 DEF Crash, Release, Fault, Goto
<1>29. CASE UNCHANGED vars
  BY <1>29 DEF vars
<1> QED
  BY <1>1, <1>2, <1>3, <1>4, <1>5, <1>6, <1>7, <1>8, <1>9, <1>10, <1>11, <1>12, <1>13,
     <1>14, <1>15, <1>16, <1>17, <1>18, <1>19, <1>20, <1>21, <1>22, <1>23, <1>24,
     <1>25, <1>26, <1>27, <1>28, <1>29
     DEF Next, Hal, Patcher, Attach, Flush, Detaching, Ended

\* A second thread is borrowed only when the first has its CPUs back.
LEMMA OneStep ==
    ASSUME TypeOK, BackInv, ~killed', [Next]_vars PROVE OneInv'
<1> USE DEF BackInv, OneInv, FreshInv, TypeOK, Runs, Halted, Gone, Alive, Freezing, Frozen
<1>1. CASE Start
  BY <1>1 DEF Start
<1>2. CASE End
  BY <1>2 DEF End
<1>3. CASE Post
  BY <1>3 DEF Post, Alive
<1>4. CASE Take
  BY <1>4 DEF Take
<1>5. CASE Stop
  BY <1>5 DEF Stop
<1>6. CASE Helper
  BY <1>6 DEF Helper
<1>7. CASE KillHal
  BY <1>7 DEF KillHal, Fault, Alive
<1>8. CASE List
  BY <1>8 DEF List, GiveUp, Return, Listed, New, Fault, Goto
<1>9. CASE SeizeAll
  BY <1>9 DEF SeizeAll, Goto
<1>10. CASE Seize
  BY <1>10 DEF Seize, GiveUp, Return, Fault, Goto
<1>11. CASE Interrupt
  BY <1>11 DEF Interrupt, GiveUp, Return, Fault, Goto
<1>12. CASE Await
  BY <1>12 DEF Await, GiveUp, Return, Seen, Fault, Goto
<1>13. CASE Verify
  BY <1>13 DEF Verify, GiveUp, Return, Again, Listed, StableEnough, Fault, Goto
<1>14. CASE Work
  BY <1>14 DEF Work, Goto
<1>15. CASE Ensure
  BY <1>15 DEF Ensure, Fault, Goto
<1>16. CASE Cpus
  BY <1>16 DEF Cpus, CpuUnion, Fault, Goto
<1>17. CASE Covered
  BY <1>17 DEF Covered, Goto
<1>18. CASE Bind
  BY <1>18 DEF Bind, Borrow, Fault, Goto
<1>19. CASE Regain
  BY <1>19 DEF Regain, Seen, Fault, Goto
<1>20. CASE Overdue
  BY <1>20 DEF Overdue, Fault, Goto
<1>21. CASE Unbind
  <2>1. pc = "unbind" /\ ~killed /\ OwedInv /\ OneInv /\ PaidInv
    BY <1>21 DEF Unbind, BackInv
  <2>2. /\ stat' = stat /\ home' = home /\ foreign' = foreign /\ group' = group
        /\ held' = held /\ regsPending' = regsPending /\ saved' = saved /\ hand' = hand
        /\ (pc' = "frozen" \/ (pc' = "bind" /\ done)) /\ hurt \subseteq hurt'
    BY <1>21 DEF Unbind, Goto
  <2>3. CASE /\ ~Gone(hand) /\ cpus' = [cpus EXCEPT ![hand] = saved[hand]]
             /\ cpusPending' = cpusPending \ {hand} /\ UNCHANGED compromised
    BY <2>1, <2>2, <2>3 DEF OneInv, OwedInv, TypeOK, Gone, Alive, Frozen
  <2>4. CASE Gone(hand) /\ cpusPending' = cpusPending \ {hand} /\ UNCHANGED <<cpus,
     compromised>>
    BY <2>1, <2>2, <2>4 DEF OneInv, OwedInv, TypeOK, Gone, Alive, Frozen
  <2>5. CASE compromised' /\ pc' = "frozen" /\ UNCHANGED <<cpus, cpusPending>>
    BY <2>1, <2>2, <2>5 DEF OneInv, OwedInv, TypeOK, Gone, Alive, Frozen
  <2> QED
    BY <1>21, <2>3, <2>4, <2>5 DEF Unbind, Goto
<1>22. CASE Halt
  BY <1>22 DEF Halt, Fault, Goto
<1>23. CASE Halting
  BY <1>23 DEF Halting, Seen, Drop, Abandon, Fault, Goto
<1>24. CASE Detach
  BY <1>24 DEF Detach, PutBack, Drop, Abandon, Fault, Goto
<1>25. CASE DetachGone
  BY <1>25 DEF DetachGone, Drop, Goto
<1>26. CASE Detached
  BY <1>26 DEF Detached, Goto
<1>27. CASE Exit
  BY <1>27 DEF Exit, Release, Goto
<1>28. CASE Crash
  BY <1>28 DEF Crash, Release, Fault, Goto
<1>29. CASE UNCHANGED vars
  BY <1>29 DEF vars
<1> QED
  BY <1>1, <1>2, <1>3, <1>4, <1>5, <1>6, <1>7, <1>8, <1>9, <1>10, <1>11, <1>12, <1>13,
     <1>14, <1>15, <1>16, <1>17, <1>18, <1>19, <1>20, <1>21, <1>22, <1>23, <1>24,
     <1>25, <1>26, <1>27, <1>28, <1>29
     DEF Next, Hal, Patcher, Attach, Flush, Detaching, Ended

\* Who leaves the group is paid, gone, or has been reported.
LEMMA PaidStep ==
    ASSUME TypeOK, HeldInv, BackInv, ~killed', [Next]_vars PROVE PaidInv'
<1> USE DEF BackInv, PaidInv, OwedInv, FreshInv, HeldInv, TypeOK, Runs, Halted, Gone, Alive,
   Freezing, Frozen
<1>1. CASE Start
  BY <1>1 DEF Start
<1>2. CASE End
  BY <1>2 DEF End
<1>3. CASE Post
  BY <1>3 DEF Post, Alive
<1>4. CASE Take
  BY <1>4 DEF Take
<1>5. CASE Stop
  BY <1>5 DEF Stop
<1>6. CASE Helper
  BY <1>6 DEF Helper
<1>7. CASE KillHal
  BY <1>7 DEF KillHal, Fault, Alive
<1>8. CASE List
  BY <1>8 DEF List, GiveUp, Return, Listed, New, Fault, Goto
<1>9. CASE SeizeAll
  BY <1>9 DEF SeizeAll, Goto
<1>10. CASE Seize
  BY <1>10 DEF Seize, GiveUp, Return, Fault, Goto
<1>11. CASE Interrupt
  BY <1>11 DEF Interrupt, GiveUp, Return, Fault, Goto
<1>12. CASE Await
  BY <1>12 DEF Await, GiveUp, Return, Seen, Fault, Goto
<1>13. CASE Verify
  BY <1>13 DEF Verify, GiveUp, Return, Again, Listed, StableEnough, Fault, Goto
<1>14. CASE Work
  BY <1>14 DEF Work, Goto
<1>15. CASE Ensure
  BY <1>15 DEF Ensure, Fault, Goto
<1>16. CASE Cpus
  BY <1>16 DEF Cpus, CpuUnion, Fault, Goto
<1>17. CASE Covered
  BY <1>17 DEF Covered, Goto
<1>18. CASE Bind
  BY <1>18 DEF Bind, Borrow, Fault, Goto
<1>19. CASE Regain
  BY <1>19 DEF Regain, Seen, Fault, Goto
<1>20. CASE Overdue
  BY <1>20 DEF Overdue, Fault, Goto
<1>21. CASE Unbind
  <2>1. pc = "unbind" /\ ~killed /\ OwedInv /\ OneInv /\ PaidInv
    BY <1>21 DEF Unbind, BackInv
  <2>2. /\ stat' = stat /\ home' = home /\ foreign' = foreign /\ group' = group
        /\ held' = held /\ regsPending' = regsPending /\ saved' = saved /\ hand' = hand
        /\ (pc' = "frozen" \/ (pc' = "bind" /\ done)) /\ hurt \subseteq hurt'
    BY <1>21 DEF Unbind, Goto
  <2>3. CASE /\ ~Gone(hand) /\ cpus' = [cpus EXCEPT ![hand] = saved[hand]]
             /\ cpusPending' = cpusPending \ {hand} /\ UNCHANGED compromised
    BY <2>1, <2>2, <2>3 DEF PaidInv, OneInv, TypeOK, Gone, Alive, Frozen
  <2>4. CASE Gone(hand) /\ cpusPending' = cpusPending \ {hand} /\ UNCHANGED <<cpus,
     compromised>>
    BY <2>1, <2>2, <2>4 DEF PaidInv, OneInv, TypeOK, Gone, Alive, Frozen
  <2>5. CASE compromised' /\ pc' = "frozen" /\ UNCHANGED <<cpus, cpusPending>>
    BY <2>1, <2>2, <2>5 DEF PaidInv, OneInv, TypeOK, Gone, Alive, Frozen
  <2> QED
    BY <1>21, <2>3, <2>4, <2>5 DEF Unbind, Goto
<1>22. CASE Halt
  BY <1>22 DEF Halt, Fault, Goto
<1>23. CASE Halting
  BY <1>23 DEF Halting, Seen, Drop, Abandon, Fault, Goto
<1>24. CASE Detach
  BY <1>24 DEF Detach, PutBack, Drop, Abandon, Fault, Goto
<1>25. CASE DetachGone
  BY <1>25 DEF DetachGone, Drop, Goto
<1>26. CASE Detached
  BY <1>26 DEF Detached, Goto
<1>27. CASE Exit
  BY <1>27 DEF Exit, Release, Goto
<1>28. CASE Crash
  BY <1>28 DEF Crash, Release, Fault, Goto
<1>29. CASE UNCHANGED vars
  BY <1>29 DEF vars
<1> QED
  BY <1>1, <1>2, <1>3, <1>4, <1>5, <1>6, <1>7, <1>8, <1>9, <1>10, <1>11, <1>12, <1>13,
     <1>14, <1>15, <1>16, <1>17, <1>18, <1>19, <1>20, <1>21, <1>22, <1>23, <1>24,
     <1>25, <1>26, <1>27, <1>28, <1>29
     DEF Next, Hal, Patcher, Attach, Flush, Detaching, Ended

\* Kills are for ever.
LEMMA KilledStep == ASSUME TypeOK, [Next]_vars PROVE killed => killed'
<1> USE DEF TypeOK
<1>1. CASE Start
  BY <1>1 DEF Start
<1>2. CASE End
  BY <1>2 DEF End
<1>3. CASE Post
  BY <1>3 DEF Post, Alive
<1>4. CASE Take
  BY <1>4 DEF Take
<1>5. CASE Stop
  BY <1>5 DEF Stop
<1>6. CASE Helper
  BY <1>6 DEF Helper
<1>7. CASE KillHal
  BY <1>7 DEF KillHal, Fault, Alive
<1>8. CASE List
  BY <1>8 DEF List, GiveUp, Return, Listed, New, Fault, Goto
<1>9. CASE SeizeAll
  BY <1>9 DEF SeizeAll, Goto
<1>10. CASE Seize
  BY <1>10 DEF Seize, GiveUp, Return, Fault, Goto
<1>11. CASE Interrupt
  BY <1>11 DEF Interrupt, GiveUp, Return, Fault, Goto
<1>12. CASE Await
  BY <1>12 DEF Await, GiveUp, Return, Seen, Fault, Goto
<1>13. CASE Verify
  BY <1>13 DEF Verify, GiveUp, Return, Again, Listed, StableEnough, Fault, Goto
<1>14. CASE Work
  BY <1>14 DEF Work, Goto
<1>15. CASE Ensure
  BY <1>15 DEF Ensure, Fault, Goto
<1>16. CASE Cpus
  BY <1>16 DEF Cpus, CpuUnion, Fault, Goto
<1>17. CASE Covered
  BY <1>17 DEF Covered, Goto
<1>18. CASE Bind
  BY <1>18 DEF Bind, Borrow, Fault, Goto
<1>19. CASE Regain
  BY <1>19 DEF Regain, Seen, Fault, Goto
<1>20. CASE Overdue
  BY <1>20 DEF Overdue, Fault, Goto
<1>21. CASE Unbind
  BY <1>21 DEF Unbind, Fault, Goto
<1>22. CASE Halt
  BY <1>22 DEF Halt, Fault, Goto
<1>23. CASE Halting
  BY <1>23 DEF Halting, Seen, Drop, Abandon, Fault, Goto
<1>24. CASE Detach
  BY <1>24 DEF Detach, PutBack, Drop, Abandon, Fault, Goto
<1>25. CASE DetachGone
  BY <1>25 DEF DetachGone, Drop, Goto
<1>26. CASE Detached
  BY <1>26 DEF Detached, Goto
<1>27. CASE Exit
  BY <1>27 DEF Exit, Release, Goto
<1>28. CASE Crash
  BY <1>28 DEF Crash, Release, Fault, Goto
<1>29. CASE UNCHANGED vars
  BY <1>29 DEF vars
<1> QED
  BY <1>1, <1>2, <1>3, <1>4, <1>5, <1>6, <1>7, <1>8, <1>9, <1>10, <1>11, <1>12, <1>13,
     <1>14, <1>15, <1>16, <1>17, <1>18, <1>19, <1>20, <1>21, <1>22, <1>23, <1>24,
     <1>25, <1>26, <1>27, <1>28, <1>29
     DEF Next, Hal, Patcher, Attach, Flush, Detaching, Ended

LEMMA EmptyStep ==
    ASSUME TypeOK, BackInv, [Next]_vars
    PROVE  (pc = "exit" \/ (pc = "gone" /\ ~killed) => group = {})'
<1> USE DEF BackInv, TypeOK, Runs, Halted, Gone, Alive, Freezing, Frozen
<1>1. CASE Start
  BY <1>1 DEF Start
<1>2. CASE End
  BY <1>2 DEF End
<1>3. CASE Post
  BY <1>3 DEF Post, Alive
<1>4. CASE Take
  BY <1>4 DEF Take
<1>5. CASE Stop
  BY <1>5 DEF Stop
<1>6. CASE Helper
  BY <1>6 DEF Helper
<1>7. CASE KillHal
  BY <1>7 DEF KillHal, Fault, Alive
<1>8. CASE List
  BY <1>8 DEF List, GiveUp, Return, Listed, New, Fault, Goto
<1>9. CASE SeizeAll
  BY <1>9 DEF SeizeAll, Goto
<1>10. CASE Seize
  BY <1>10 DEF Seize, GiveUp, Return, Fault, Goto
<1>11. CASE Interrupt
  BY <1>11 DEF Interrupt, GiveUp, Return, Fault, Goto
<1>12. CASE Await
  BY <1>12 DEF Await, GiveUp, Return, Seen, Fault, Goto
<1>13. CASE Verify
  BY <1>13 DEF Verify, GiveUp, Return, Again, Listed, StableEnough, Fault, Goto
<1>14. CASE Work
  BY <1>14 DEF Work, Goto
<1>15. CASE Ensure
  BY <1>15 DEF Ensure, Fault, Goto
<1>16. CASE Cpus
  BY <1>16 DEF Cpus, CpuUnion, Fault, Goto
<1>17. CASE Covered
  BY <1>17 DEF Covered, Goto
<1>18. CASE Bind
  BY <1>18 DEF Bind, Borrow, Fault, Goto
<1>19. CASE Regain
  BY <1>19 DEF Regain, Seen, Fault, Goto
<1>20. CASE Overdue
  BY <1>20 DEF Overdue, Fault, Goto
<1>21. CASE Unbind
  BY <1>21 DEF Unbind, Fault, Goto
<1>22. CASE Halt
  BY <1>22 DEF Halt, Fault, Goto
<1>23. CASE Halting
  BY <1>23 DEF Halting, Seen, Drop, Abandon, Fault, Goto
<1>24. CASE Detach
  BY <1>24 DEF Detach, PutBack, Drop, Abandon, Fault, Goto
<1>25. CASE DetachGone
  BY <1>25 DEF DetachGone, Drop, Goto
<1>26. CASE Detached
  BY <1>26 DEF Detached, Goto
<1>27. CASE Exit
  BY <1>27 DEF Exit, Release, Goto
<1>28. CASE Crash
  BY <1>28 DEF Crash, Release, Fault, Goto
<1>29. CASE UNCHANGED vars
  BY <1>29 DEF vars
<1> QED
  BY <1>1, <1>2, <1>3, <1>4, <1>5, <1>6, <1>7, <1>8, <1>9, <1>10, <1>11, <1>12, <1>13,
     <1>14, <1>15, <1>16, <1>17, <1>18, <1>19, <1>20, <1>21, <1>22, <1>23, <1>24,
     <1>25, <1>26, <1>27, <1>28, <1>29
     DEF Next, Hal, Patcher, Attach, Flush, Detaching, Ended

LEMMA BackStep == ASSUME TypeOK, HeldInv, BackInv, [Next]_vars PROVE BackInv'
  BY FreshStep, OwedStep, OneStep, PaidStep, KilledStep, EmptyStep DEF BackInv

GiveInv == TypeOK /\ HeldInv /\ BackInv

LEMMA GiveSafe == Spec => []GiveInv
<1>1. Init => HeldInv /\ BackInv
  BY DEF Init, HeldInv, BackInv, FreshInv, OwedInv, OneInv, PaidInv, Freezing, Frozen,
         Alive, Gone
<1>2. GiveInv /\ [Next]_vars => GiveInv'
  BY TypeStep, HeldStep, BackStep DEF GiveInv
<1> QED
  BY InitTypes, <1>1, <1>2, PTL DEF Spec, GiveInv

\* GivenBack, whatever fails and however often, wherever the freeze stops.
THEOREM ThreadsAreGivenBack == Spec => []GivenBack
<1>1. GiveInv => GivenBack
  BY DEF GiveInv, BackInv, PaidInv, GivenBack
<1> QED
  BY <1>1, GiveSafe, PTL

-----------------------------------------------------------------------------
(* A synchronisation that succeeds has reached every CPU.                  *)

\* Who is alive while the HAL is frozen is in the group.
MembersInv ==
    /\ pc \in Freezing \cup Frozen => traced \subseteq group \cup {t \in Thread : Gone(t)}
    /\ \A t \in Thread : Halted(t) => t \in traced
    /\ pc \in Freezing \cup Frozen => foreign \subseteq group \cup {t \in Thread : Gone(t)}
    /\ killed => pc = "gone" \/ Alive = {}

\* No thread may run on a CPU with old bytes, but for the ones in set.
ReachedBut(set) == \A t \in Alive : home[t] \cap stale["target"] \subseteq set

\* What is still to be done is in left, or the CPU of the thread in hand.
ReachInv ==
    /\ pc \in Freezing => ~flushed
    /\ pc \in Frozen /\ flushed => pc = "frozen" /\ ReachedBut({})
    /\ aim = "target" =>
          /\ pc = "bind" \/ (pc = "unbind" /\ done) => ReachedBut(left)
          /\ pc \in {"ran", "again"} =>
                \E c \in Cpu :
                   /\ cpus[hand] = {c} /\ ReachedBut(left \cup {c})
                   /\ Halted(hand) /\ why[hand] = "brk" => ReachedBut(left)

\* Threads are born outside the group, but not while it is frozen.
LEMMA MembersStep ==
    ASSUME TypeOK, FreshInv, HeldInv, MembersInv, [Next]_vars PROVE MembersInv'
<1> USE DEF MembersInv, FreshInv, HeldInv, TypeOK, Runs, Halted, Gone, Alive, Freezing, Frozen
<1>1. CASE Start
  BY <1>1 DEF Start
<1>2. CASE End
  BY <1>2 DEF End
<1>3. CASE Post
  BY <1>3 DEF Post, Alive
<1>4. CASE Take
  BY <1>4 DEF Take
<1>5. CASE Stop
  BY <1>5 DEF Stop
<1>6. CASE Helper
  BY <1>6 DEF Helper
<1>7. CASE KillHal
  BY <1>7 DEF KillHal, Fault, Alive
<1>8. CASE List
  BY <1>8 DEF List, GiveUp, Return, Listed, New, Fault, Goto
<1>9. CASE SeizeAll
  BY <1>9 DEF SeizeAll, Goto
<1>10. CASE Seize
  BY <1>10 DEF Seize, GiveUp, Return, Fault, Goto
<1>11. CASE Interrupt
  BY <1>11 DEF Interrupt, GiveUp, Return, Fault, Goto
<1>12. CASE Await
  BY <1>12 DEF Await, GiveUp, Return, Seen, Fault, Goto
<1>13. CASE Verify
  BY <1>13 DEF Verify, GiveUp, Return, Again, Listed, StableEnough, Fault, Goto
<1>14. CASE Work
  BY <1>14 DEF Work, Goto
<1>15. CASE Ensure
  BY <1>15 DEF Ensure, Fault, Goto
<1>16. CASE Cpus
  BY <1>16 DEF Cpus, CpuUnion, Fault, Goto
<1>17. CASE Covered
  BY <1>17 DEF Covered, Goto
<1>18. CASE Bind
  BY <1>18 DEF Bind, Borrow, Fault, Goto
<1>19. CASE Regain
  BY <1>19 DEF Regain, Seen, Fault, Goto
<1>20. CASE Overdue
  BY <1>20 DEF Overdue, Fault, Goto
<1>21. CASE Unbind
  BY <1>21 DEF Unbind, Fault, Goto
<1>22. CASE Halt
  BY <1>22 DEF Halt, Fault, Goto
<1>23. CASE Halting
  BY <1>23 DEF Halting, Seen, Drop, Abandon, Fault, Goto
<1>24. CASE Detach
  BY <1>24 DEF Detach, PutBack, Drop, Abandon, Fault, Goto
<1>25. CASE DetachGone
  BY <1>25 DEF DetachGone, Drop, Goto
<1>26. CASE Detached
  BY <1>26 DEF Detached, Goto
<1>27. CASE Exit
  BY <1>27 DEF Exit, Release, Goto
<1>28. CASE Crash
  BY <1>28 DEF Crash, Release, Fault, Goto
<1>29. CASE UNCHANGED vars
  BY <1>29 DEF vars
<1> QED
  BY <1>1, <1>2, <1>3, <1>4, <1>5, <1>6, <1>7, <1>8, <1>9, <1>10, <1>11, <1>12, <1>13,
     <1>14, <1>15, <1>16, <1>17, <1>18, <1>19, <1>20, <1>21, <1>22, <1>23, <1>24,
     <1>25, <1>26, <1>27, <1>28, <1>29
     DEF Next, Hal, Patcher, Attach, Flush, Detaching, Ended

\* A CPU leaves left only when the helper has run on it.
LEMMA ReachStep ==
    ASSUME TypeOK, HeldInv, QuietInv, BackInv, MembersInv, ReachInv, [Next]_vars PROVE ReachInv'
<1> USE DEF OwedInv, OneInv, FreshInv, HeldInv, QuietInv, Quiet, BackInv, MembersInv,
           ReachInv, ReachedBut, TypeOK, Runs, Halted, Gone, Alive, Freezing, Frozen
<1>1. CASE Start
  BY <1>1 DEF Start
<1>2. CASE End
  BY <1>2 DEF End
<1>3. CASE Post
  BY <1>3 DEF Post, Alive
<1>4. CASE Take
  BY <1>4 DEF Take
<1>5. CASE Stop
  BY <1>5 DEF Stop
<1>6. CASE Helper
  BY <1>6 DEF Helper
<1>7. CASE KillHal
  BY <1>7 DEF KillHal, Fault, Alive
<1>8. CASE List
  BY <1>8 DEF List, GiveUp, Return, Listed, New, Fault, Goto
<1>9. CASE SeizeAll
  BY <1>9 DEF SeizeAll, Goto
<1>10. CASE Seize
  BY <1>10 DEF Seize, GiveUp, Return, Fault, Goto
<1>11. CASE Interrupt
  BY <1>11 DEF Interrupt, GiveUp, Return, Fault, Goto
<1>12. CASE Await
  BY <1>12 DEF Await, GiveUp, Return, Seen, Fault, Goto
<1>13. CASE Verify
  BY <1>13 DEF Verify, GiveUp, Return, Again, Listed, StableEnough, Fault, Goto
<1>14. CASE Work
  BY <1>14 DEF Work, Goto
<1>15. CASE Ensure
  BY <1>15 DEF Ensure, Fault, Goto
<1>16. CASE Cpus
  BY <1>16 DEF Cpus, CpuUnion, Fault, Goto
<1>17. CASE Covered
  BY <1>17 DEF Covered, Goto
<1>18. CASE Bind
  BY <1>18 DEF Bind, Borrow, Fault, Goto
<1>19. CASE Regain
  BY <1>19 DEF Regain, Seen, Fault, Goto
<1>20. CASE Overdue
  BY <1>20 DEF Overdue, Fault, Goto
<1>21. CASE Unbind
  BY <1>21 DEF Unbind, Fault, Goto
<1>22. CASE Halt
  BY <1>22 DEF Halt, Fault, Goto
<1>23. CASE Halting
  BY <1>23 DEF Halting, Seen, Drop, Abandon, Fault, Goto
<1>24. CASE Detach
  BY <1>24 DEF Detach, PutBack, Drop, Abandon, Fault, Goto
<1>25. CASE DetachGone
  BY <1>25 DEF DetachGone, Drop, Goto
<1>26. CASE Detached
  BY <1>26 DEF Detached, Goto
<1>27. CASE Exit
  BY <1>27 DEF Exit, Release, Goto
<1>28. CASE Crash
  BY <1>28 DEF Crash, Release, Fault, Goto
<1>29. CASE UNCHANGED vars
  BY <1>29 DEF vars
<1> QED
  BY <1>1, <1>2, <1>3, <1>4, <1>5, <1>6, <1>7, <1>8, <1>9, <1>10, <1>11, <1>12, <1>13,
     <1>14, <1>15, <1>16, <1>17, <1>18, <1>19, <1>20, <1>21, <1>22, <1>23, <1>24,
     <1>25, <1>26, <1>27, <1>28, <1>29
     DEF Next, Hal, Patcher, Attach, Flush, Detaching, Ended

SyncInv == FreezeInv /\ BackInv /\ MembersInv /\ ReachInv

LEMMA SyncSafe == ASSUME MaxGaps < StablePasses PROVE Spec => []SyncInv
<1>1. Init => MembersInv /\ ReachInv
  BY DEF Init, MembersInv, ReachInv, Freezing, Frozen, Halted, Gone
<1>2. FreezeInv /\ FreezeInv' /\ GiveInv /\ GiveInv' /\ MembersInv /\ ReachInv /\ [Next]_vars
      => MembersInv' /\ ReachInv'
  BY MembersStep, ReachStep DEF FreezeInv, GiveInv, BackInv
<1> QED
  BY <1>1, <1>2, FreezeSafe, GiveSafe, PTL DEF Spec, SyncInv, GiveInv

\* FlushReachesAll: the union of the affinities, read when all are stopped and
\* none is borrowed, is where threads may run, and nobody is born meanwhile.
THEOREM SynchronisedEverywhere ==
    ASSUME MaxGaps < StablePasses PROVE Spec => []FlushReachesAll
<1>1. SyncInv => FlushReachesAll
  BY DEF SyncInv, ReachInv, ReachedBut, FlushReachesAll, Frozen
<1> QED
  BY <1>1, SyncSafe, PTL
-----------------------------------------------------------------------------
(* A signal that stopped a thread goes on with it.                         *)

\* A signal that was taken is kept by the stop that it caused, and once that
\* stop has been seen also by resume_signal, until the thread is borrowed.
LossInv ==
    /\ pc = "gone" => traced = {}
    /\ \A t \in traced \cap held : stat[t] \in {"stop", "gone"}
    /\ \A t \in lost \ used :
          \/ Gone(t)
          \/ Halted(t) /\ why[t] = "signal" /\ pc # "gone" /\ (t \in held => t \in resume)

LEMMA LossStep ==
    ASSUME TypeOK, HeldInv, LossInv, [Next]_vars PROVE LossInv'
<1> USE DEF LossInv, HeldInv, TypeOK, Runs, Halted, Gone, Freezing
<1>1. CASE Start
  BY <1>1 DEF Start
<1>2. CASE End
  BY <1>2 DEF End
<1>3. CASE Post
  BY <1>3 DEF Post, Alive
<1>4. CASE Take
  BY <1>4 DEF Take
<1>5. CASE Stop
  BY <1>5 DEF Stop
<1>6. CASE Helper
  BY <1>6 DEF Helper
<1>7. CASE KillHal
  BY <1>7 DEF KillHal, Fault, Alive
<1>8. CASE List
  BY <1>8 DEF List, GiveUp, Return, Listed, New, Fault, Goto
<1>9. CASE SeizeAll
  BY <1>9 DEF SeizeAll, Goto
<1>10. CASE Seize
  BY <1>10 DEF Seize, GiveUp, Return, Fault, Goto
<1>11. CASE Interrupt
  BY <1>11 DEF Interrupt, GiveUp, Return, Fault, Goto
<1>12. CASE Await
  BY <1>12 DEF Await, GiveUp, Return, Seen, Fault, Goto
<1>13. CASE Verify
  BY <1>13 DEF Verify, GiveUp, Return, Again, Listed, StableEnough, Fault, Goto
<1>14. CASE Work
  BY <1>14 DEF Work, Goto
<1>15. CASE Ensure
  BY <1>15 DEF Ensure, Fault, Goto
<1>16. CASE Cpus
  BY <1>16 DEF Cpus, CpuUnion, Fault, Goto
<1>17. CASE Covered
  BY <1>17 DEF Covered, Goto
<1>18. CASE Bind
  BY <1>18 DEF Bind, Borrow, Fault, Goto
<1>19. CASE Regain
  BY <1>19 DEF Regain, Seen, Fault, Goto
<1>20. CASE Overdue
  BY <1>20 DEF Overdue, Fault, Goto
<1>21. CASE Unbind
  BY <1>21 DEF Unbind, Fault, Goto
<1>22. CASE Halt
  BY <1>22 DEF Halt, Fault, Goto
<1>23. CASE Halting
  BY <1>23 DEF Halting, Seen, Drop, Abandon, Fault, Goto
<1>24. CASE Detach
  BY <1>24 DEF Detach, PutBack, Drop, Abandon, Fault, Goto
<1>25. CASE DetachGone
  BY <1>25 DEF DetachGone, Drop, Goto
<1>26. CASE Detached
  BY <1>26 DEF Detached, Goto
<1>27. CASE Exit
  BY <1>27 DEF Exit, Release, Goto
<1>28. CASE Crash
  BY <1>28 DEF Crash, Release, Fault, Goto
<1>29. CASE UNCHANGED vars
  BY <1>29 DEF vars
<1> QED
  BY <1>1, <1>2, <1>3, <1>4, <1>5, <1>6, <1>7, <1>8, <1>9, <1>10, <1>11, <1>12, <1>13,
     <1>14, <1>15, <1>16, <1>17, <1>18, <1>19, <1>20, <1>21, <1>22, <1>23, <1>24,
     <1>25, <1>26, <1>27, <1>28, <1>29
     DEF Next, Hal, Patcher, Attach, Flush, Detaching, Ended

\* SignalsReturn: a thread that was never borrowed is given back from the very
\* stop that its signal caused.
THEOREM SignalsAreKept == Spec => []SignalsReturn
<1>1. Init => LossInv
  BY DEF Init, LossInv
<1>2. LossInv => SignalsReturn
  BY DEF LossInv, SignalsReturn, Alive, Gone
<1>3. GiveInv /\ LossInv /\ [Next]_vars => LossInv'
  BY LossStep DEF GiveInv
<1> QED
  BY <1>1, <1>2, <1>3, GiveSafe, PTL DEF Spec

-----------------------------------------------------------------------------
(* The freeze succeeds unless a call fails: MaxPasses passes are enough.   *)
(*                                                                         *)
(* A pass that is not quiet has a reason: a thread was born, a thread that *)
(* was born has been settled (stopped, or it has ended), an early one has  *)
(* been settled that a listing had missed, or a listing missed somebody.   *)
(* None of these happens twice, so what has happened pays for the passes:  *)
(* each reason for one that is not quiet and those, fewer than             *)
(* StablePasses, that were quiet before it.  The first pass is for all     *)
(* early threads, however many, except those that its listing misses.      *)

InPass  == pc \in {"seize", "interrupt", "await", "verify"}
InHand  == IF pc \in {"interrupt", "await"} THEN {hand} ELSE {}
Missing == Alive \ (held \cup todo \cup InHand)

Born    == {t \in Thread \ Early : stat[t] # "unborn"}
Settled == {t \in Thread \ Early : t \in held \/ Gone(t)}
Open    == {t \in Early : t \notin held /\ ~Gone(t)}

\* What the passes so far may be paid from, and the price of n reasons.
Purse(g, b, s, o) == 1 + g + Cardinality(b) + Cardinality(s) - Cardinality(o)
Reasons   == Purse(gaps, Born, Settled, Open)
Within(n) == pass <= StablePasses * n + stable

\* Who is in the group has been stopped, or is being stopped.
GroupInv ==
    /\ Leader \in Alive /\ \A t \in Early : stat[t] # "unborn"
    /\ held \cap Alive \subseteq group
    /\ group \cap Alive \subseteq held \cup InHand
    /\ InHand \subseteq group \ held
    /\ pc = "verify" => todo = {}
    /\ gaps <= MaxGaps /\ stable < StablePasses

\* A pass has found its reason, or nobody new has been met in it so far.
BudgetInv ==
    /\ pc = "list" /\ pass > 0 => Within(Reasons)
    /\ InPass /\ pass > 0 =>
          Within(Reasons - 1) \/ (Within(Reasons) /\ ~added /\ Missing = {})
    /\ InPass /\ pass = 0 => Cardinality(Missing \cap Early) <= gaps

SuccessInv ==
    faults = 0 /\ ~killed => IF pc \in Freezing THEN GroupInv /\ BudgetInv ELSE froze

LEMMA TimesMonotone ==
    ASSUME NEW k \in Nat, NEW m \in Int, NEW n \in Int, m <= n PROVE k * m <= k * n
<1>1. n - m \in Nat /\ n = m + (n - m)
  OBVIOUS
<1>2. k * (n - m) >= 0
  BY <1>1
<1>3. k * n = k * m + k * (n - m)
  BY <1>1
<1> QED
  BY <1>2, <1>3

\* A reason more pays for StablePasses passes more.
LEMMA TimesNext == ASSUME NEW k \in Nat, NEW m \in Int PROVE k * (m + 1) = k * m + k
  OBVIOUS

LEMMA PurseType ==
    ASSUME IsFiniteSet(Thread), NEW g \in Nat, NEW b \in SUBSET Thread,
           NEW s \in SUBSET Thread, NEW o \in SUBSET Thread
    PROVE  Purse(g, b, s, o) \in Int
  BY FS_Subset, FS_CardinalityType DEF Purse

\* The purse never loses, and gains with every reason.
LEMMA PurseGrows ==
    ASSUME IsFiniteSet(Thread), NEW g \in Nat, NEW b \in SUBSET Thread,
           NEW s \in SUBSET Thread, NEW o \in SUBSET Thread,
           NEW h \in Nat, NEW c \in SUBSET Thread,
           NEW u \in SUBSET Thread, NEW p \in SUBSET Thread,
           g <= h, b \subseteq c, s \subseteq u, p \subseteq o
    PROVE  /\ Purse(g, b, s, o) <= Purse(h, c, u, p)
           /\ ~(g = h /\ b = c /\ s = u /\ p = o) =>
                 Purse(g, b, s, o) + 1 <= Purse(h, c, u, p)
<1>1. IsFiniteSet(c) /\ IsFiniteSet(u) /\ IsFiniteSet(o)
  BY FS_Subset
<1>2. IsFiniteSet(b) /\ IsFiniteSet(s) /\ IsFiniteSet(p)
  BY FS_Subset
<1>3. /\ Cardinality(b) \in Nat /\ Cardinality(s) \in Nat /\ Cardinality(o) \in Nat
      /\ Cardinality(c) \in Nat /\ Cardinality(u) \in Nat /\ Cardinality(p) \in Nat
  BY <1>1, <1>2, FS_CardinalityType
<1>4. Cardinality(b) <= Cardinality(c) /\ (Cardinality(c) = Cardinality(b) => c = b)
  BY <1>1, FS_Subset
<1>5. Cardinality(s) <= Cardinality(u) /\ (Cardinality(u) = Cardinality(s) => u = s)
  BY <1>1, FS_Subset
<1>6. Cardinality(p) <= Cardinality(o) /\ (Cardinality(o) = Cardinality(p) => o = p)
  BY <1>1, FS_Subset
<1> QED
  BY <1>3, <1>4, <1>5, <1>6 DEF Purse

\* It holds at most two reasons for each thread that is born, and the gaps.
LEMMA PurseBound ==
    ASSUME IsFiniteSet(Thread), NEW g \in Nat, g <= MaxGaps, NEW b \in SUBSET (Thread \ Early),
           NEW s \in SUBSET (Thread \ Early), NEW o \in SUBSET Thread
    PROVE  Purse(g, b, s, o) <= 1 + 2 * Cardinality(Thread \ Early) + MaxGaps
<1>1. IsFiniteSet(Thread \ Early) /\ IsFiniteSet(o)
  BY FS_Subset
<1>2. Cardinality(b) <= Cardinality(Thread \ Early) /\ Cardinality(s) <= Cardinality(Thread \ Early)
  BY <1>1, FS_Subset
<1>3. IsFiniteSet(b) /\ IsFiniteSet(s)
  BY <1>1, FS_Subset
<1>4. /\ Cardinality(b) \in Nat /\ Cardinality(s) \in Nat /\ Cardinality(o) \in Nat
      /\ Cardinality(Thread \ Early) \in Nat
  BY <1>1, <1>3, FS_CardinalityType
<1> QED
  BY <1>2, <1>4, NumberAssumption DEF Purse

\* The steps of a freeze that nobody disturbs.
HalStep == Start \/ End \/ Post \/ Take \/ Stop \/ Helper

LEMMA FreezingSteps ==
    ASSUME TypeOK, pc \in Freezing, faults' = 0, ~killed', [Next]_vars
    PROVE  HalStep \/ Attach \/ UNCHANGED vars
<1> USE DEF Freezing, HalStep
<1>1. ~KillHal /\ ~Crash
  BY DEF KillHal, Crash, Fault, TypeOK
<1>2. ~Work /\ ~Ensure /\ ~Cpus /\ ~Covered /\ ~Bind
  BY DEF Work, Ensure, Cpus, Covered, Bind
<1>3. ~Regain /\ ~Overdue /\ ~Unbind
  BY DEF Regain, Overdue, Unbind
<1>4. ~Halt /\ ~Halting /\ ~Detach
  BY DEF Halt, Halting, Detach
<1>5. ~DetachGone /\ ~Detached /\ ~Exit
  BY DEF DetachGone, Detached, Exit
<1> QED
  BY <1>1, <1>2, <1>3, <1>4, <1>5 DEF Next, Hal, Patcher, Flush, Detaching, Ended, vars

\* No call fails in a step after which none has failed.
LEMMA NoFault == ASSUME TypeOK, faults' = 0 PROVE ~Fault
  BY DEF Fault, TypeOK

\* The HAL's own steps change nothing but the threads' states.
LEMMA HalFrame ==
    ASSUME HalStep
    PROVE  /\ UNCHANGED <<pc, hand, group, held, todo, added, pass, stable, froze, gaps>>
           /\ faults' = faults /\ killed' = killed
<1>1. CASE Start
  BY <1>1 DEF Start
<1>2. CASE End
  BY <1>2 DEF End
<1>3. CASE Post
  BY <1>3 DEF Post
<1>4. CASE Take
  BY <1>4 DEF Take
<1>5. CASE Stop
  BY <1>5 DEF Stop
<1>6. CASE Helper
  BY <1>6 DEF Helper
<1> QED
  BY <1>1, <1>2, <1>3, <1>4, <1>5, <1>6 DEF HalStep

\* ... and a thread is born, ends, or stops.
LEMMA HalStates ==
    ASSUME TypeOK, HalStep
    PROVE  /\ stat' \in [Thread -> {"unborn", "runs", "stop", "gone"}]
           /\ \A t \in Thread :
                 /\ stat[t] # "unborn" => stat'[t] # "unborn"
                 /\ stat[t] = "gone" => stat'[t] = "gone"
                 /\ stat'[t] = "gone" => stat[t] = "gone" \/ t # Leader
                 /\ stat[t] = "unborn" => stat'[t] \in {"unborn", "runs"}
<1> USE DEF TypeOK
<1>1. CASE Start
  BY <1>1 DEF Start, Runs
<1>2. CASE End
  BY <1>2 DEF End, Runs
<1>3. CASE Post
  BY <1>3 DEF Post
<1>4. CASE Take
  BY <1>4 DEF Take
<1>5. CASE Stop
  BY <1>5 DEF Stop, Runs
<1>6. CASE Helper
  BY <1>6 DEF Helper, Runs
<1> QED
  BY <1>1, <1>2, <1>3, <1>4, <1>5, <1>6 DEF HalStep

\* GroupInv, step by step: the HAL, ...
LEMMA GroupHal ==
    ASSUME TypeOK, HalStep, GroupInv, FreshInv, HeldInv, pc \in Freezing PROVE GroupInv'
<1>1. /\ UNCHANGED <<pc, hand, group, held, todo, gaps, stable>> /\ InHand' = InHand
  BY HalFrame DEF InHand
<1>2. Leader \in Thread /\ Early \subseteq Thread
  BY ThreadAssumption
<1>3. Leader \in Alive'
  BY <1>2, HalStates DEF GroupInv, Alive
<1>4. \A t \in Early : stat'[t] # "unborn"
  BY <1>2, HalStates DEF GroupInv
<1>5. \A t \in held : t \in Alive' => t \in Alive
  BY HalStates DEF HeldInv, Alive, TypeOK, Freezing
<1>6. \A t \in group : t \in Alive' => t \in Alive
  BY HalStates DEF FreshInv, Alive, TypeOK
<1>7. held' \cap Alive' \subseteq group' /\ group' \cap Alive' \subseteq held' \cup InHand'
  BY <1>1, <1>5, <1>6 DEF GroupInv
<1> QED
  BY <1>1, <1>3, <1>4, <1>7 DEF GroupInv

\* ... a listing, ...
LEMMA GroupList ==
    ASSUME TypeOK, List, GroupInv, faults' = 0, pc' \in Freezing PROVE GroupInv'
<1>1. /\ pc = "list" /\ pc' = "seize" /\ UNCHANGED <<stat, group, held, hand, stable>>
      /\ gaps' <= MaxGaps
  BY NoFault DEF List, GiveUp, Return, Goto, Freezing, Listed
<1>2. InHand = {} /\ InHand' = {} /\ Alive' = Alive
  BY <1>1 DEF InHand, Alive
<1> QED
  BY <1>1, <1>2 DEF GroupInv

\* ... the threads it has found, ...
LEMMA GroupSeize ==
    ASSUME TypeOK, FreshInv, Seize, GroupInv, faults' = 0, pc' \in Freezing PROVE GroupInv'
<1>1. /\ pc = "seize" /\ UNCHANGED <<stat, held, gaps, stable>> /\ Alive' = Alive
      /\ InHand = {}
  BY NoFault DEF Seize, Alive, InHand, GiveUp, Return, Goto, Freezing
<1>2. \/ pc' = "seize" /\ group' = group
      \/ /\ pc' = "interrupt" /\ hand' \in todo /\ stat[hand'] # "gone"
         /\ group' = group \cup {hand'}
         /\ todo' = todo \ {hand'}
  BY NoFault DEF Seize, GiveUp, Return, Goto, Freezing, TypeOK, Gone
<1>3. CASE pc' = "seize" /\ group' = group
  <2>1. InHand' = {}
    BY <1>3 DEF InHand
  <2> QED
    BY <1>1, <1>3, <2>1 DEF GroupInv
<1>4. CASE /\ pc' = "interrupt" /\ hand' \in todo /\ stat[hand'] # "gone"
           /\ group' = group \cup {hand'}
           /\ todo' = todo \ {hand'}
  <2>1. InHand' = {hand'}
    BY <1>4 DEF InHand
  <2>2. hand' \notin group /\ hand' \in Alive
    BY <1>4 DEF TypeOK, FreshInv, Alive
  <2>3. hand' \notin held
    BY <2>2 DEF GroupInv
  <2> QED
    BY <1>1, <1>4, <2>1, <2>2, <2>3 DEF GroupInv
<1> QED
  BY <1>2, <1>3, <1>4

LEMMA GroupInterrupt ==
    ASSUME TypeOK, Interrupt, GroupInv, faults' = 0, pc' \in Freezing PROVE GroupInv'
<1>1. /\ pc = "interrupt" /\ UNCHANGED <<stat, held, gaps, stable, hand, todo>> /\ Alive' = Alive
      /\ InHand = {hand}
  BY NoFault DEF Interrupt, Alive, InHand, GiveUp, Return, Goto, Freezing
<1>2. \/ pc' = "seize" /\ Gone(hand) /\ group' = group \ {hand}
      \/ pc' = "await" /\ group' = group
  BY NoFault DEF Interrupt, GiveUp, Return, Goto, Freezing
<1>3. InHand' = IF pc' = "await" THEN {hand} ELSE {}
  BY <1>1, <1>2 DEF InHand
<1>4. Gone(hand) => hand \notin Alive
  BY DEF Gone, Alive
<1> QED
  BY <1>1, <1>2, <1>3, <1>4 DEF GroupInv

\* ... their stops, ...
LEMMA GroupAwait ==
    ASSUME TypeOK, Await, GroupInv, faults' = 0, pc' \in Freezing PROVE GroupInv'
<1>1. /\ pc = "await" /\ UNCHANGED <<stat, gaps, stable, hand, todo>> /\ Alive' = Alive
      /\ InHand = {hand} /\ pc' = "seize"
  BY NoFault DEF Await, Alive, InHand, GiveUp, Return, Goto, Freezing, Seen
<1>2. \/ held' = held \cup {hand} /\ group' = group
      \/ Gone(hand) /\ group' = group \ {hand} /\ held' = held
  BY NoFault DEF Await, GiveUp, Return, Goto, Freezing, Seen
<1>3. InHand' = {}
  BY <1>1 DEF InHand
<1>4. Gone(hand) => hand \notin Alive
  BY DEF Gone, Alive
<1> QED
  BY <1>1, <1>2, <1>3, <1>4 DEF GroupInv

\* ... and the second listing.
LEMMA GroupVerify ==
    ASSUME TypeOK, Verify, GroupInv, faults' = 0, pc' \in Freezing PROVE GroupInv'
<1>1. /\ pc = "verify" /\ UNCHANGED <<stat, held, group, hand, todo>> /\ Alive' = Alive
      /\ pc' = "list" /\ gaps' <= MaxGaps
  BY NoFault DEF Verify, Alive, GiveUp, Return, Again, Goto, Freezing, Listed
<1>2. stable' < StablePasses
  BY NoFault, NumberAssumption
     DEF Verify, GiveUp, Return, Again, Goto, Freezing, StableEnough, GroupInv, TypeOK
<1>3. InHand' = {} /\ InHand = {}
  BY <1>1 DEF InHand
<1> QED
  BY <1>1, <1>2, <1>3 DEF GroupInv

LEMMA GroupStep ==
    ASSUME TypeOK, FreshInv, HeldInv, GroupInv, pc \in Freezing, pc' \in Freezing,
           faults' = 0, ~killed', [Next]_vars
    PROVE  GroupInv'
<1>1. CASE HalStep
  BY <1>1, GroupHal
<1>2. CASE List
  BY <1>2, GroupList
<1>3. CASE SeizeAll
  <2>1. /\ pc = "seize" /\ pc' = "verify" /\ todo' = {} /\ Alive' = Alive
        /\ UNCHANGED <<stat, held, group, hand, gaps, stable>>
    BY <1>3 DEF SeizeAll, Goto, Alive
  <2>2. InHand' = {} /\ InHand = {}
    BY <2>1 DEF InHand
  <2> QED
    BY <2>1, <2>2 DEF GroupInv
<1>4. CASE Seize
  BY <1>4, GroupSeize
<1>5. CASE Interrupt
  BY <1>5, GroupInterrupt
<1>6. CASE Await
  BY <1>6, GroupAwait
<1>7. CASE Verify
  BY <1>7, GroupVerify
<1>8. CASE UNCHANGED vars
  BY <1>8 DEF GroupInv, InHand, Alive, vars
<1> QED
  BY <1>1, <1>2, <1>3, <1>4, <1>5, <1>6, <1>7, <1>8, FreezingSteps DEF Attach

LEMMA WithinMore ==
    ASSUME TypeOK, NEW m \in Int, NEW n \in Int, m <= n, Within(m) PROVE Within(n)
<1>1. StablePasses \in Nat /\ stable \in Nat /\ pass \in Nat
  BY NumberAssumption DEF TypeOK
<1>2. StablePasses * m <= StablePasses * n /\ StablePasses * m \in Int /\ StablePasses * n \in Int
  BY <1>1, TimesMonotone
<1> QED
  BY <1>1, <1>2 DEF Within

\* In a step from pass to pass the price stays the same, and more is there.
LEMMA WithinLater ==
    ASSUME TypeOK, UNCHANGED <<pass, stable>>, NEW m \in Int, NEW n \in Int, m <= n, Within(m)
    PROVE  pass' <= StablePasses * n + stable'
  BY WithinMore DEF Within

\* Reasons are not taken back, ...
LEMMA ReasonSets ==
    ASSUME TypeOK, GroupInv, pc \in Freezing, pc' \in Freezing, faults' = 0, ~killed', [Next]_vars
    PROVE  /\ Born \subseteq Born' /\ Settled \subseteq Settled' /\ Open' \subseteq Open
           /\ gaps <= gaps'
<1>1. CASE HalStep
  BY <1>1, HalFrame, HalStates, ThreadAssumption DEF Born, Settled, Open, Gone, TypeOK
<1>2. CASE List
  BY <1>2, NoFault DEF List, GiveUp, Return, Goto, Freezing, Listed, Born, Settled, Open,
     Gone, TypeOK
<1>3. CASE SeizeAll
  BY <1>3 DEF SeizeAll, Born, Settled, Open, Gone, TypeOK
<1>4. CASE Seize
  BY <1>4, NoFault DEF Seize, GiveUp, Return, Goto, Freezing, Born, Settled, Open, Gone, TypeOK
<1>5. CASE Interrupt
  BY <1>5, NoFault DEF Interrupt, GiveUp, Return, Goto, Freezing, Born, Settled, Open, Gone, TypeOK
<1>6. CASE Await
  <2>1. stat' = stat /\ held \subseteq held' /\ gaps' = gaps
    BY <1>6, NoFault DEF Await, GiveUp, Return, Goto, Freezing, Seen
  <2> QED
    BY <2>1 DEF Born, Settled, Open, Gone, TypeOK
<1>7. CASE Verify
  <2>1. stat' = stat /\ held' = held /\ gaps <= gaps'
    BY <1>7, NoFault DEF Verify, GiveUp, Return, Again, Goto, Freezing, TypeOK
  <2> QED
    BY <2>1 DEF Born, Settled, Open, Gone, TypeOK
<1>8. CASE UNCHANGED vars
  BY <1>8 DEF vars, Born, Settled, Open, Gone, TypeOK
<1> QED
  BY <1>1, <1>2, <1>3, <1>4, <1>5, <1>6, <1>7, <1>8, FreezingSteps DEF Attach

\* ... and each one counts.
LEMMA ReasonsGrow ==
    ASSUME IsFiniteSet(Thread), TypeOK, GroupInv, pc \in Freezing, pc' \in Freezing,
           faults' = 0, ~killed', [Next]_vars
    PROVE  /\ Reasons \in Int /\ Reasons' \in Int /\ Reasons <= Reasons'
           /\ gaps' # gaps \/ Born' # Born \/ Settled' # Settled \/ Open' # Open =>
                 Reasons + 1 <= Reasons'
<1>1. TypeOK' /\ gaps \in Nat /\ gaps' \in Nat
  BY TypeStep DEF TypeOK
<1>2. /\ Born \subseteq Thread /\ Settled \subseteq Thread /\ Open \subseteq Thread
      /\ Born' \subseteq Thread /\ Settled' \subseteq Thread /\ Open' \subseteq Thread
  BY ThreadAssumption DEF Born, Settled, Open
<1>3. /\ Purse(gaps, Born, Settled, Open) \in Int
      /\ Purse(gaps', Born', Settled', Open') \in Int
  BY <1>1, <1>2, PurseType
<1>4. /\ Purse(gaps, Born, Settled, Open) <= Purse(gaps', Born', Settled', Open')
      /\ ~(gaps = gaps' /\ Born = Born' /\ Settled = Settled' /\ Open' = Open) =>
            Purse(gaps, Born, Settled, Open) + 1 <= Purse(gaps', Born', Settled', Open')
  BY <1>1, <1>2, ReasonSets, PurseGrows
<1>5. Reasons = Purse(gaps, Born, Settled, Open) /\ Reasons' = Purse(gaps', Born', Settled', Open')
  BY DEF Reasons
<1> HIDE DEF Reasons
<1> QED
  BY <1>3, <1>4, <1>5

\* A step within a pass that adds a reason, or lets nobody escape who was known.
LEMMA PassStep ==
    ASSUME IsFiniteSet(Thread), TypeOK, GroupInv, BudgetInv, InPass, InPass',
           UNCHANGED <<pass, stable>>, faults' = 0, ~killed', [Next]_vars,
           Missing' \cap Early \subseteq Missing,
           Reasons + 1 <= Reasons' \/ (added' = added /\ Missing' \subseteq Missing)
    PROVE  BudgetInv'
<1>1. Reasons \in Int /\ Reasons' \in Int /\ Reasons <= Reasons' /\ gaps <= gaps'
  BY ReasonsGrow, ReasonSets DEF InPass, Freezing
<1>2. CASE pass > 0
  <2>1. CASE Within(Reasons - 1)
    <3>1. pass' <= StablePasses * (Reasons' - 1) + stable'
      BY <1>1, <2>1, WithinLater
    <3> QED
      BY <3>1, <1>2 DEF BudgetInv, Within, InPass
  <2>2. CASE Within(Reasons) /\ Reasons + 1 <= Reasons'
    <3>1. pass' <= StablePasses * (Reasons' - 1) + stable'
      BY <1>1, <2>2, WithinLater
    <3> QED
      BY <3>1, <1>2 DEF BudgetInv, Within, InPass
  <2>3. CASE /\ Within(Reasons) /\ ~added /\ Missing = {} /\ added' = added
             /\ Missing' \subseteq Missing
    <3>1. pass' <= StablePasses * Reasons' + stable'
      BY <1>1, <2>3, WithinLater
    <3> QED
      BY <3>1, <2>3, <1>2 DEF BudgetInv, Within, InPass
  <2> QED
    BY <1>2, <2>1, <2>2, <2>3 DEF BudgetInv
<1>3. CASE pass = 0
  <2>1. Cardinality(Missing \cap Early) <= gaps
    BY <1>3 DEF BudgetInv
  <2>2. IsFiniteSet(Missing \cap Early)
    BY FS_Subset, ThreadAssumption DEF Missing, Alive
  <2>3. Missing' \cap Early \in SUBSET (Missing \cap Early)
    OBVIOUS
  <2>4. /\ IsFiniteSet(Missing' \cap Early)
        /\ Cardinality(Missing' \cap Early) <= Cardinality(Missing \cap Early)
    BY <2>2, <2>3, FS_Subset
  <2>5. Cardinality(Missing' \cap Early) \in Nat /\ Cardinality(Missing \cap Early) \in Nat
    BY <2>2, <2>4, FS_CardinalityType
  <2>6. Cardinality(Missing' \cap Early) <= gaps'
    BY <1>1, <2>1, <2>4, <2>5, TypeStep DEF TypeOK
  <2> QED
    BY <1>3, <2>6 DEF BudgetInv, InPass
<1>4. pass \in Nat
  BY DEF TypeOK
<1> QED
  BY <1>2, <1>3, <1>4

\* BudgetInv, step by step.
LEMMA BudgetHal ==
    ASSUME IsFiniteSet(Thread), TypeOK, GroupInv, BudgetInv, pc \in Freezing, faults' = 0,
           ~killed', [Next]_vars, HalStep
    PROVE  BudgetInv'
<1>1. /\ UNCHANGED <<pc, hand, held, todo, added, pass, stable>> /\ InHand' = InHand
  BY HalFrame DEF InHand
<1>2. /\ Reasons \in Int /\ Reasons' \in Int /\ Reasons <= Reasons'
      /\ Born' # Born => Reasons + 1 <= Reasons'
  BY <1>1, ReasonsGrow
<1>3. CASE pc = "list"
  <2>1. pass > 0 => pass' <= StablePasses * Reasons' + stable'
    BY <1>1, <1>2, <1>3, WithinLater DEF BudgetInv
  <2> QED
    BY <2>1, <1>1, <1>3 DEF BudgetInv, Within, InPass
<1>4. CASE InPass
  <2>1. Missing' \cap Early \subseteq Missing
    BY <1>1, HalStates, ThreadAssumption DEF Missing, Alive, GroupInv, TypeOK
  <2>2. ASSUME Born' = Born PROVE Missing' \subseteq Missing
    <3>1. \A t \in Thread : t \in Alive' => t \in Alive
      BY <2>2, HalStates DEF Alive, Born, GroupInv, TypeOK
    <3> QED
      BY <1>1, <3>1 DEF Missing, Alive
  <2>3. Reasons + 1 <= Reasons' \/ (added' = added /\ Missing' \subseteq Missing)
    BY <1>1, <1>2, <2>2
  <2>4. InPass'
    BY <1>1, <1>4 DEF InPass
  <2> QED
    BY <1>1, <1>4, <2>1, <2>3, <2>4, PassStep
<1> QED
  BY <1>3, <1>4 DEF Freezing, InPass

\* The first listing of a pass.
LEMMA BudgetList ==
    ASSUME IsFiniteSet(Thread), TypeOK, GroupInv, BudgetInv, faults' = 0, ~killed', [Next]_vars,
           List, pc' \in Freezing
    PROVE  BudgetInv'
<1>1. /\ pc = "list" /\ pc' = "seize" /\ UNCHANGED <<stat, group, held, pass, stable>>
      /\ added' = FALSE
  BY NoFault DEF List, GiveUp, Return, Goto, Freezing
<1>2. PICK ids \in SUBSET Thread, missed \in 0 .. 1 :
         Listed(ids, missed) /\ gaps' = gaps + missed /\ todo' = New(ids)
  BY NoFault DEF List, GiveUp, Return, Goto, Freezing
<1>3. InHand' = {} /\ InHand = {} /\ Alive' = Alive
  BY <1>1 DEF InHand, Alive
<1>4. /\ Reasons \in Int /\ Reasons' \in Int /\ Reasons <= Reasons'
      /\ gaps' # gaps => Reasons + 1 <= Reasons'
  BY <1>1, ReasonsGrow DEF Freezing
<1>5. pass > 0 => Within(Reasons)
  BY <1>1 DEF BudgetInv
<1>6. CASE missed = 0
  <2>1. Missing' = {}
    BY <1>1, <1>2, <1>3, <1>6 DEF Missing, Listed, New, GroupInv
  <2>2. pass > 0 => pass' <= StablePasses * Reasons' + stable'
    BY <1>1, <1>4, <1>5, WithinLater
  <2>3. Cardinality(Missing' \cap Early) <= gaps'
    BY <2>1, <1>2, <1>6, FS_EmptySet DEF TypeOK
  <2> QED
    BY <1>1, <2>1, <2>2, <2>3 DEF BudgetInv, Within, InPass
<1>7. CASE missed = 1
  <2>1. gaps' = gaps + 1 /\ gaps \in Nat
    BY <1>2, <1>7 DEF TypeOK
  <2>2. pass > 0 => pass' <= StablePasses * (Reasons' - 1) + stable'
    <3>1. gaps' # gaps
      BY <2>1
    <3>2. Reasons + 1 <= Reasons'
      BY <1>4, <3>1
    <3> QED
      BY <1>1, <1>4, <1>5, <3>2, WithinLater
  <2>3. PICK t \in Alive : ids = Alive \ {t}
    BY <1>2, <1>7 DEF Listed
  <2>4. Missing' \cap Early \in SUBSET {t}
    BY <1>1, <1>2, <1>3, <2>3 DEF Missing, New, GroupInv
  <2>5. IsFiniteSet({t}) /\ Cardinality({t}) = 1
    BY FS_Singleton
  <2>6. Cardinality(Missing' \cap Early) <= 1 /\ Cardinality(Missing' \cap Early) \in Nat
    BY <2>4, <2>5, FS_Subset, FS_CardinalityType
  <2> QED
    BY <1>1, <2>1, <2>2, <2>6 DEF BudgetInv, Within, InPass
<1> QED
  BY <1>6, <1>7

LEMMA BudgetSeize ==
    ASSUME IsFiniteSet(Thread), TypeOK, GroupInv, BudgetInv, faults' = 0, ~killed', [Next]_vars,
           Seize, pc' \in Freezing
    PROVE  BudgetInv'
<1>1. /\ pc = "seize" /\ UNCHANGED <<stat, held, pass, stable, added>> /\ Alive' = Alive
      /\ InHand = {}
  BY NoFault DEF Seize, Alive, InHand, GiveUp, Return, Goto, Freezing
<1>2. \/ pc' = "seize" /\ \E t \in todo : stat[t] = "gone" /\ todo' = todo \ {t}
      \/ pc' = "interrupt" /\ todo' = todo \ {hand'}
  BY NoFault DEF Seize, GiveUp, Return, Goto, Freezing, Gone
<1>3. InHand' = IF pc' = "interrupt" THEN {hand'} ELSE {}
  BY <1>2 DEF InHand
<1>4. Missing' \subseteq Missing
  BY <1>1, <1>2, <1>3 DEF Missing, Alive
<1> QED
  BY <1>1, <1>2, <1>4, PassStep DEF InPass

LEMMA BudgetInterrupt ==
    ASSUME IsFiniteSet(Thread), TypeOK, GroupInv, BudgetInv, faults' = 0, ~killed', [Next]_vars,
           Interrupt, pc' \in Freezing
    PROVE  BudgetInv'
<1>1. /\ pc = "interrupt" /\ UNCHANGED <<stat, held, pass, stable, added, hand, todo>>
      /\ Alive' = Alive /\ InHand = {hand}
  BY NoFault DEF Interrupt, Alive, InHand, GiveUp, Return, Goto, Freezing
<1>2. (pc' = "seize" /\ Gone(hand)) \/ pc' = "await"
  BY NoFault DEF Interrupt, GiveUp, Return, Goto, Freezing
<1>3. InHand' = IF pc' = "await" THEN {hand} ELSE {}
  BY <1>1, <1>2 DEF InHand
<1>4. Missing' \subseteq Missing
  BY <1>1, <1>2, <1>3 DEF Missing, Alive, Gone
<1> QED
  BY <1>1, <1>2, <1>4, PassStep DEF InPass

\* A thread that stops is a reason.
LEMMA BudgetAwait ==
    ASSUME IsFiniteSet(Thread), TypeOK, GroupInv, BudgetInv, faults' = 0, ~killed', [Next]_vars,
           Await, pc' \in Freezing
    PROVE  BudgetInv'
<1>1. /\ pc = "await" /\ pc' = "seize" /\ UNCHANGED <<stat, pass, stable, hand, todo>>
      /\ Alive' = Alive /\ InHand = {hand} /\ InHand' = {}
  BY NoFault DEF Await, Alive, InHand, GiveUp, Return, Goto, Freezing, Seen
<1>2. \/ Halted(hand) /\ held' = held \cup {hand}
      \/ Gone(hand) /\ held' = held /\ added' = added
  BY NoFault DEF Await, GiveUp, Return, Goto, Freezing, Seen
<1>3. Missing' \subseteq Missing
  BY <1>1, <1>2 DEF Missing, Alive, Gone
<1>4. Reasons \in Int /\ Reasons' \in Int /\ Reasons <= Reasons'
      /\ (Settled' # Settled \/ Open' # Open => Reasons + 1 <= Reasons')
  BY <1>1, ReasonsGrow DEF Freezing
<1>5. ASSUME Halted(hand), held' = held \cup {hand} PROVE Reasons + 1 <= Reasons'
  <2>1. hand \notin held /\ hand \in Thread /\ ~Gone(hand)
    BY <1>1, <1>5 DEF GroupInv, TypeOK, Halted, Gone
  <2>2. CASE hand \in Early
    <3>1. hand \in Open /\ hand \notin Open'
      BY <1>5, <2>1, <2>2 DEF Open
    <3>2. Open' # Open
      BY <3>1
    <3> QED
      BY <1>4, <3>2
  <2>3. CASE hand \notin Early
    <3>1. hand \notin Settled /\ hand \in Settled'
      BY <1>5, <2>1, <2>3 DEF Settled
    <3>2. Settled' # Settled
      BY <3>1
    <3> QED
      BY <1>4, <3>2
  <2> QED
    BY <2>2, <2>3
<1> QED
  BY <1>1, <1>2, <1>3, <1>5, PassStep DEF InPass

\* The end of a pass that is not the last one.
LEMMA BudgetVerify ==
    ASSUME IsFiniteSet(Thread), TypeOK, GroupInv, BudgetInv, faults' = 0, ~killed', [Next]_vars,
           Verify, pc' \in Freezing
    PROVE  BudgetInv'
<1>1. /\ pc = "verify" /\ pc' = "list" /\ pass' = pass + 1 /\ todo = {} /\ InHand = {}
  BY NoFault DEF Verify, GiveUp, Return, Again, Goto, Freezing, GroupInv, InHand
<1>2. PICK ids \in SUBSET Thread :
         /\ ids \subseteq Alive
         /\ \/ stable' = stable + 1
            \/ stable' = 0 /\ (added \/ ~(ids \subseteq group \cap held))
  BY NoFault DEF Verify, GiveUp, Return, Again, Goto, Freezing, Listed
<1>3. /\ StablePasses \in Nat /\ StablePasses >= 1 /\ stable + 1 <= StablePasses
      /\ pass \in Nat /\ stable \in Nat /\ gaps \in Nat
  BY NumberAssumption DEF GroupInv, TypeOK
<1>4. Reasons \in Int /\ Reasons' \in Int /\ Reasons <= Reasons'
  BY <1>1, ReasonsGrow DEF Freezing
<1>5. /\ StablePasses * Reasons <= StablePasses * Reasons'
      /\ StablePasses * Reasons \in Int /\ StablePasses * Reasons' \in Int
  <2>1. \A k \in Nat, m \in Int : k * m \in Int
    OBVIOUS
  <2>2. StablePasses * Reasons \in Int /\ StablePasses * Reasons' \in Int
    BY <1>3, <1>4, <2>1
  <2>3. StablePasses * Reasons <= StablePasses * Reasons'
    BY <1>3, <1>4, TimesMonotone
  <2> QED
    BY <2>2, <2>3
<1>6. CASE pass > 0 /\ Within(Reasons - 1)
  <2>1. Reasons - 1 \in Int /\ (Reasons - 1) + 1 = Reasons
    BY <1>4
  <2>2. StablePasses * Reasons = StablePasses * (Reasons - 1) + StablePasses
        /\ StablePasses * (Reasons - 1) \in Int
    BY <1>3, <2>1, TimesNext
  <2>3. pass <= StablePasses * (Reasons - 1) + stable
    BY <1>6 DEF Within
  <2>4. pass' <= StablePasses * Reasons' + stable'
    BY <1>1, <1>2, <1>3, <1>5, <2>2, <2>3
  <2> QED
    BY <1>1, <2>4 DEF BudgetInv, Within, InPass
<1>7. CASE pass > 0 /\ Within(Reasons) /\ ~added /\ Missing = {}
  <2>1. Alive \subseteq group \cap held
    BY <1>1, <1>7 DEF Missing, GroupInv
  <2>2. stable' = stable + 1
    BY <1>2, <1>7, <2>1
  <2>3. pass <= StablePasses * Reasons + stable
    BY <1>7 DEF Within
  <2>4. pass' <= StablePasses * Reasons' + stable'
    BY <1>1, <1>3, <1>5, <2>2, <2>3
  <2> QED
    BY <1>1, <2>4 DEF BudgetInv, Within, InPass
<1>8. CASE pass = 0
  <2>1. Open \subseteq Missing \cap Early
    BY <1>1, ThreadAssumption DEF Open, Missing, Alive, GroupInv, Gone, TypeOK
  <2>2. Cardinality(Missing \cap Early) <= gaps
    BY <1>1, <1>8 DEF BudgetInv, InPass
  <2>3. IsFiniteSet(Missing \cap Early)
    BY FS_Subset, ThreadAssumption DEF Missing, Alive
  <2>4. IsFiniteSet(Open) /\ Cardinality(Open) <= Cardinality(Missing \cap Early)
    BY <2>1, <2>3, FS_Subset
  <2>5. IsFiniteSet(Born) /\ IsFiniteSet(Settled)
    BY FS_Subset DEF Born, Settled
  <2>6. /\ Cardinality(Open) \in Nat /\ Cardinality(Missing \cap Early) \in Nat
        /\ Cardinality(Born) \in Nat /\ Cardinality(Settled) \in Nat
    BY <2>3, <2>4, <2>5, FS_CardinalityType
  <2>7. Reasons = 1 + gaps + Cardinality(Born) + Cardinality(Settled) - Cardinality(Open)
    BY DEF Reasons, Purse
  <2>8. 1 <= Reasons
    BY <1>3, <2>2, <2>4, <2>6, <2>7
  <2>9. StablePasses * 1 <= StablePasses * Reasons
    BY <1>3, <1>4, <2>8, TimesMonotone
  <2>10. stable' \in Nat
    BY TypeStep DEF TypeOK
  <2>11. pass' <= StablePasses * Reasons' + stable'
    BY <1>1, <1>3, <1>5, <1>8, <2>9, <2>10
  <2> QED
    BY <1>1, <2>11 DEF BudgetInv, Within, InPass
<1> QED
  BY <1>1, <1>3, <1>6, <1>7, <1>8 DEF BudgetInv, InPass

LEMMA BudgetStep ==
    ASSUME IsFiniteSet(Thread), TypeOK, FreshInv, HeldInv, GroupInv, BudgetInv,
           pc \in Freezing, pc' \in Freezing, faults' = 0, ~killed', [Next]_vars
    PROVE  BudgetInv'
<1>1. CASE HalStep
  BY <1>1, BudgetHal
<1>2. CASE List
  BY <1>2, BudgetList
<1>3. CASE SeizeAll
  <2>1. /\ InPass /\ InPass' /\ Alive' = Alive /\ InHand' = {} /\ InHand = {} /\ todo = {}
        /\ UNCHANGED <<held, pass, stable, added, todo>>
    BY <1>3 DEF SeizeAll, Goto, Alive, InHand, InPass
  <2>2. Missing' = Missing
    BY <2>1 DEF Missing
  <2> QED
    BY <2>1, <2>2, PassStep
<1>4. CASE Seize
  BY <1>4, BudgetSeize
<1>5. CASE Interrupt
  BY <1>5, BudgetInterrupt
<1>6. CASE Await
  BY <1>6, BudgetAwait
<1>7. CASE Verify
  BY <1>7, BudgetVerify
<1>8. CASE UNCHANGED vars
  BY <1>8 DEF BudgetInv, Missing, InHand, Alive, Reasons, Born, Settled, Open, Gone, Within,
     InPass, vars
<1> QED
  BY <1>1, <1>2, <1>3, <1>4, <1>5, <1>6, <1>7, <1>8, FreezingSteps DEF Attach

\* The freeze ends only with its success: the purse is not enough for all passes.
LEMMA SuccessEnd ==
    ASSUME IsFiniteSet(Thread),
           MaxPasses >= StablePasses * (2 + 2 * Cardinality(Thread \ Early) + MaxGaps),
           TypeOK, GroupInv, BudgetInv, pc \in Freezing, pc' \notin Freezing,
           faults' = 0, ~killed', [Next]_vars
    PROVE  froze'
<1> DEFINE b == Cardinality(Thread \ Early)
<1>1. b \in Nat /\ MaxGaps \in Nat /\ MaxPasses \in Nat /\ StablePasses \in Nat /\ StablePasses >= 1
  BY FS_Subset, FS_CardinalityType, NumberAssumption
<1>2. Alive # {}
  BY DEF GroupInv
<1>3. ~(pc = "list" /\ pass = MaxPasses)
  <2> SUFFICES ASSUME pc = "list", pass = MaxPasses PROVE FALSE
    OBVIOUS
  <2>1. stable \in Nat /\ gaps \in Nat /\ stable < StablePasses /\ gaps <= MaxGaps
    BY DEF TypeOK, GroupInv
  <2>2. /\ Born \subseteq Thread \ Early /\ Settled \subseteq Thread \ Early
        /\ Open \subseteq Thread
    BY ThreadAssumption DEF Born, Settled, Open
  <2>3. Purse(gaps, Born, Settled, Open) <= 1 + 2 * b + MaxGaps
        /\ Purse(gaps, Born, Settled, Open) \in Int
    BY <2>1, <2>2, PurseBound, PurseType
  <2>4. Reasons <= 1 + 2 * b + MaxGaps /\ Reasons \in Int
    BY <2>3 DEF Reasons
  <2>5. Within(1 + 2 * b + MaxGaps)
    <3>1. pass > 0
      BY NumberAssumption
    <3>2. Within(Reasons)
      BY <3>1 DEF BudgetInv
    <3>3. 1 + 2 * b + MaxGaps \in Int
      BY <1>1
    <3> QED
      BY <2>4, <3>2, <3>3, WithinMore
  <2>6. MaxPasses <= StablePasses * (1 + 2 * b + MaxGaps) + stable
    BY <2>5 DEF Within
  <2>7. StablePasses * ((1 + 2 * b + MaxGaps) + 1)
           = StablePasses * (1 + 2 * b + MaxGaps) + StablePasses
    BY <1>1, TimesNext
  <2>8. (1 + 2 * b + MaxGaps) + 1 = 2 + 2 * b + MaxGaps
    BY <1>1
  <2>9. MaxPasses >= StablePasses * (1 + 2 * b + MaxGaps) + StablePasses
    BY <2>7, <2>8
  <2>10. StablePasses * (1 + 2 * b + MaxGaps) \in Int
    BY <1>1
  <2> HIDE DEF b
  <2> QED
    BY <1>1, <2>1, <2>6, <2>9, <2>10
<1>4. CASE HalStep
  BY <1>4, HalFrame
<1>5. CASE List
  BY <1>2, <1>3, <1>5, NoFault DEF List, Goto, Freezing
<1>6. CASE SeizeAll
  BY <1>6 DEF SeizeAll, Goto, Freezing
<1>7. CASE Seize
  BY <1>7, NoFault DEF Seize, Goto, Freezing
<1>8. CASE Interrupt
  BY <1>8, NoFault DEF Interrupt, Goto, Freezing
<1>9. CASE Await
  BY <1>9, NoFault DEF Await, Goto, Freezing
<1>10. CASE Verify
  BY <1>2, <1>10, NoFault DEF Verify, Return, Again, Goto, Freezing
<1>11. CASE UNCHANGED vars
  BY <1>11 DEF vars
<1> QED
  BY <1>4, <1>5, <1>6, <1>7, <1>8, <1>9, <1>10, <1>11, FreezingSteps DEF Attach

\* Once it has succeeded it stays so.
LEMMA FrozeStays ==
    ASSUME TypeOK, pc \notin Freezing, froze, [Next]_vars
    PROVE  froze' /\ pc' \notin Freezing
<1> USE DEF Freezing
<1>1. CASE Hal
  BY <1>1 DEF Hal, Start, End, Post, Take, Stop, Helper, KillHal
<1>2. CASE Attach
  BY <1>2 DEF Attach, List, SeizeAll, Seize, Interrupt, Await, Verify
<1>3. CASE Work \/ Ensure \/ Cpus \/ Covered
  BY <1>3 DEF Work, Ensure, Cpus, Covered, Goto
<1>4. CASE Bind
  BY <1>4 DEF Bind, Borrow, Goto
<1>5. CASE Regain \/ Overdue \/ Unbind
  BY <1>5 DEF Regain, Overdue, Unbind, Goto
<1>6. CASE Detaching
  BY <1>6 DEF Detaching, Halt, Halting, Detach, DetachGone, Detached, Exit, Release, Drop,
     Abandon, Goto
<1>7. CASE Crash
  BY <1>7 DEF Crash, Release, Goto
<1>8. CASE UNCHANGED vars
  BY <1>8 DEF vars
<1> QED
  BY <1>1, <1>2, <1>3, <1>4, <1>5, <1>6, <1>7, <1>8 DEF Next, Patcher, Flush, Ended

\* Neither a failed call nor a kill is forgotten.
LEMMA TroubleStays ==
    ASSUME TypeOK, [Next]_vars, faults' = 0, ~killed' PROVE faults = 0 /\ ~killed
<1>1. CASE Hal
  BY <1>1 DEF Hal, Start, End, Post, Take, Stop, Helper, KillHal, Fault, TypeOK
<1>2. CASE List \/ SeizeAll \/ Seize
  BY <1>2 DEF List, SeizeAll, Seize, Fault, TypeOK
<1>3. CASE Interrupt
  BY <1>3 DEF Interrupt, Fault, TypeOK
<1>4. CASE Await
  BY <1>4 DEF Await, Fault, TypeOK
<1>5. CASE Verify
  <2>1. killed' = killed /\ (faults' = faults \/ Fault)
    BY <1>5 DEF Verify
  <2> QED
    BY <2>1 DEF Fault, TypeOK
<1>6. CASE Work \/ Ensure \/ Cpus \/ Covered
  BY <1>6 DEF Work, Ensure, Cpus, Covered, Fault, TypeOK
<1>7. CASE Bind
  BY <1>7 DEF Bind, Borrow, Fault, TypeOK
<1>8. CASE Regain \/ Overdue \/ Unbind
  BY <1>8 DEF Regain, Overdue, Unbind, Fault, TypeOK
<1>9. CASE Detaching
  BY <1>9 DEF Detaching, Halt, Halting, Detach, DetachGone, Detached, Exit, Release, Drop,
     Abandon, Fault, TypeOK
<1>10. CASE Crash
  BY <1>10 DEF Crash, Release, Fault, TypeOK
<1>11. CASE UNCHANGED vars
  BY <1>11 DEF vars
<1> QED
  BY <1>1, <1>2, <1>3, <1>4, <1>5, <1>6, <1>7, <1>8, <1>9, <1>10, <1>11
     DEF Next, Patcher, Attach, Flush, Ended

\* GivesUpForCause for any number of early threads, provided the passes are
\* enough for those that are born meanwhile (with the 16 passes of the code, two
\* of them quiet: for three) and for the listings that miss one.
THEOREM FreezeSucceeds ==
    ASSUME IsFiniteSet(Thread),
           MaxPasses >= StablePasses * (2 + 2 * Cardinality(Thread \ Early) + MaxGaps)
    PROVE  Spec => []GivesUpForCause
<1> DEFINE Inv == TypeOK /\ FreshInv /\ HeldInv /\ SuccessInv
<1>1. Init => Inv
  <2> SUFFICES ASSUME Init PROVE Inv
    OBVIOUS
  <2>1. TypeOK /\ FreshInv /\ HeldInv
    BY InitTypes DEF Init, FreshInv, HeldInv, Freezing
  <2>2. GroupInv
    BY ThreadAssumption, NumberAssumption DEF Init, GroupInv, Alive, InHand
  <2>3. BudgetInv
    BY DEF Init, BudgetInv, InPass
  <2> QED
    BY <2>1, <2>2, <2>3 DEF SuccessInv, Init, Freezing
<1>2. Inv /\ [Next]_vars => Inv'
  <2> SUFFICES ASSUME Inv, [Next]_vars PROVE Inv'
    OBVIOUS
  <2>1. TypeOK' /\ FreshInv' /\ HeldInv'
    BY TypeStep, FreshStep, HeldStep
  <2>2. ASSUME faults' = 0, ~killed'
        PROVE  IF pc' \in Freezing THEN GroupInv' /\ BudgetInv' ELSE froze'
    <3>1. faults = 0 /\ ~killed
      BY <2>2, TroubleStays
    <3>2. CASE pc \in Freezing
      <4>1. GroupInv /\ BudgetInv
        BY <3>1, <3>2 DEF SuccessInv
      <4>2. pc' \in Freezing => GroupInv' /\ BudgetInv'
        BY <2>2, <3>2, <4>1, GroupStep, BudgetStep
      <4>3. pc' \notin Freezing => froze'
        BY <2>2, <3>2, <4>1, SuccessEnd
      <4> QED
        BY <4>2, <4>3
    <3>3. CASE pc \notin Freezing
      BY <3>1, <3>3, FrozeStays DEF SuccessInv
    <3> QED
      BY <3>2, <3>3
  <2> QED
    BY <2>1, <2>2 DEF SuccessInv, Freezing
<1>3. Inv => GivesUpForCause
  BY DEF SuccessInv, GivesUpForCause, Freezing
<1> QED
  BY <1>1, <1>2, <1>3, PTL DEF Spec

=============================================================================
