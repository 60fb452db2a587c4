--------------------------- MODULE AudioLeaseProofs ---------------------------
(***************************************************************************)
(* Properties of the leases, for every set of packages, ports and sessions *)
(* and whatever the budgets.  Triggers may outlive their workers here      *)
(* (Orphans is arbitrary).                                                 *)
(*                                                                         *)
(* A policy lease has an output on file, and a lease has no other way to   *)
(* be without a deadline than a failed write (PolicyHasPort); a lease of a *)
(* package that is no longer allowed is on its way out                     *)
(* (DisallowedIsPending).  Both rest on the same invariant: what the       *)
(* watcher has in hand, line and task, still says what it said when it was *)
(* taken up.                                                               *)
(*                                                                         *)
(* A package never has two workers unless the watcher or logcat died or a  *)
(* record could not be written (OneWorker).  PACKAGE.owner names a worker  *)
(* from its fork to its end, and PACKAGE from the next step on; the        *)
(* watcher takes neither away while the worker runs, except for a worker   *)
(* that it tells to end without waiting (unnamed), and looks for a worker  *)
(* before it forks another.                                                *)
(*                                                                         *)
(* The files of the ports agree with AudioPolicy once all lines are read   *)
(* (PortsAgree).  What they will say then is a function of the files and   *)
(* the lines that are left, and no step changes it but an application's.   *)
(***************************************************************************)
EXTENDS AudioLease, TLAPS

\* A line is only ever the head of the queue, and a start line names a port.
IsStart(l) == l.type = "start" => l.port \in Port \cup Trigger

Lines ==
    /\ \E S : queue \in Seq(S)
    /\ \A i \in 1 .. Len(queue) : IsStart(queue[i])
    /\ last # None => IsStart(last)

\* Where a task is worked on, and where it may still lead to a token.
Granting == {"revoke", "stop", "forget", "alive", "promote", "prepare"}
Working == Granting \cup {"fork", "record", "await", "giveup", "drain"}

IsTask(x) == x = [pkg |-> x.pkg, kind |-> x.kind, start |-> x.start,
                  trigger |-> x.trigger, back |-> x.back]

Shapes ==
    /\ DOMAIN ports = Port \cup Trigger
    /\ DOMAIN token = Package /\ DOMAIN allowed = Package
    /\ IsTask(task)

\* A handler has its line in hand, and returns to where it was called.
InHand ==
    /\ pc \in Handling => queue # <<>>
    /\ task.back \in {"idle", "reconcile", "decide"}
    /\ task.back = "reconcile" => pc \in Working
    /\ task.back = "decide" => pc = "release"
    /\ seen # {} => pc = "reconcile" \/ task.back = "reconcile"

\* Between the port file and the lease of a start, the port is the line's.
DecideInv ==
    pc = "decide" \/ task.back = "decide" =>
        line.port \in DOMAIN ports /\ ports[line.port].pkg = line.pkg

\* A policy lease is asked for only with an output on file, and any lease only
\* for a package that is allowed unless the configuration has changed again.
GrantInv ==
    /\ pc \in Granting /\ task.kind = "policy" => HasPort(task.pkg)
    /\ \/ pc \in {"alive", "promote", "prepare"}
       \/ pc \in {"revoke", "stop", "forget"} /\ task.start
       => allowed[task.pkg] \/ edited \/ marker

\* PolicyHasPort, but for the tokens that a failing write has left empty.
PolicyOnFile ==
    \A p \in Package :
        token[p] = "policy" /\ p \notin leaked =>
            \/ HasPort(p)
            \/ pc = "release" /\ task.pkg = p
            \/ pc \in {"cleanup", "down", "restart"}

ClearedInv ==
    pc \in {"reap", "renew", "grace", "sweep"} => \A p \in Package : token[p] = "none"

LeaseInv ==
    /\ Lines /\ Shapes /\ InHand /\ DecideInv /\ GrantInv /\ ClearedInv
    /\ PolicyOnFile /\ DisallowedIsPending

-----------------------------------------------------------------------------
(* The queue.                                                              *)

\* Appending a line keeps the one in hand; taking it leaves the others.
LEMMA QueueFacts ==
    ASSUME NEW S, NEW q \in Seq(S), NEW l
    PROVE  /\ Append(q, l) \in Seq(S \cup {l})
           /\ Len(Append(q, l)) = Len(q) + 1
           /\ \A i \in 1 .. Len(q) : Append(q, l)[i] = q[i]
           /\ Append(q, l)[Len(q) + 1] = l
           /\ Append(q, l) # <<>>
           /\ q # <<>> => Head(Append(q, l)) = Head(q)
           /\ q # <<>> => Tail(q) \in Seq(S) /\ Len(Tail(q)) = Len(q) - 1
           /\ q # <<>> => \A i \in 1 .. Len(q) - 1 : Tail(q)[i] = q[i + 1]
<1>1. q \in Seq(S \cup {l})
  OBVIOUS
<1>2. Append(q, l) \in Seq(S \cup {l}) /\ Len(Append(q, l)) = Len(q) + 1
  BY <1>1
<1>3. \A i \in 1 .. Len(q) : Append(q, l)[i] = q[i]
  BY <1>1
<1>4. Append(q, l)[Len(q) + 1] = l /\ Append(q, l) # <<>>
  BY <1>1, <1>2
<1>5. q # <<>> => Head(Append(q, l)) = Head(q)
  BY <1>1, <1>2, <1>3
<1>6. q # <<>> => Tail(q) \in Seq(S) /\ Len(Tail(q)) = Len(q) - 1
  OBVIOUS
<1>7. q # <<>> => \A i \in 1 .. Len(q) - 1 : Tail(q)[i] = q[i + 1]
  OBVIOUS
<1> QED BY <1>2, <1>3, <1>4, <1>5, <1>6, <1>7

\* What the log does to the FIFO.
LEMMA LogKeeps ==
    ASSUME Lines, NEW l, IsStart(l), Log(l)
    PROVE  Lines' /\ (queue # <<>> => queue' # <<>> /\ line' = line)
<1>1. PICK S : queue \in Seq(S)
  BY DEF Lines
<1>2. CASE queue' = queue
  BY <1>2 DEF Lines, Log, line, IsStart
<1>3. CASE queue' = Append(queue, l)
  <2>1. queue' \in Seq(S \cup {l}) /\ Len(queue') = Len(queue) + 1 /\ Len(queue) \in Nat
    BY <1>1, <1>3, QueueFacts
  <2>2. \A i \in 1 .. Len(queue') : IsStart(queue'[i])
    <3> SUFFICES ASSUME NEW i \in 1 .. Len(queue') PROVE IsStart(queue'[i])
      OBVIOUS
    <3>1. CASE i = Len(queue) + 1
      BY <3>1, <1>1, <1>3, QueueFacts
    <3>2. CASE i \in 1 .. Len(queue)
      <4>1. queue'[i] = queue[i]
        BY <3>2, <1>1, <1>3, QueueFacts
      <4> QED BY <4>1, <3>2 DEF Lines
    <3> QED BY <3>1, <3>2, <2>1
  <2>3. queue # <<>> => queue' # <<>> /\ Head(queue') = Head(queue)
    BY <1>1, <1>3, QueueFacts
  <2> QED BY <2>1, <2>2, <2>3 DEF Lines, Log, line, IsStart
<1> QED BY <1>2, <1>3 DEF Log

\* What a step of the watcher does to it: nothing, or the line is done.
LEMMA GotoKeeps ==
    ASSUME Lines, NEW label, Goto(label), pc \in Handling \cup {"idle"} /\ label = "idle" => queue # <<>>
    PROVE  Lines' /\ (label # "idle" => queue' = queue)
<1>1. PICK S : queue \in Seq(S)
  BY DEF Lines
<1>2. CASE queue' = queue
  BY <1>2 DEF Lines, Goto, IsStart
<1>3. CASE queue' = Tail(queue) /\ queue # <<>> /\ label = "idle"
  <2>1. queue' \in Seq(S) /\ Len(queue') = Len(queue) - 1 /\ Len(queue) \in Nat
    BY <1>1, <1>3, QueueFacts
  <2>2. \A i \in 1 .. Len(queue') : queue'[i] = queue[i + 1] /\ i + 1 \in 1 .. Len(queue)
    BY <2>1, <1>1, <1>3, QueueFacts
  <2>3. \A i \in 1 .. Len(queue') : IsStart(queue'[i])
    BY <2>2 DEF Lines, IsStart
  <2> QED BY <1>3, <2>1, <2>3 DEF Lines, Goto, IsStart
<1> QED BY <1>2, <1>3 DEF Goto, Handling

-----------------------------------------------------------------------------
(* Everybody but the watcher.                                              *)

\* Tokens may go, lines may come, and a change of the configuration stays
\* pending: no conjunct is disturbed.
LEMMA OutsideKeeps ==
    ASSUME LeaseInv, Lines',
           queue # <<>> => queue' # <<>> /\ line' = line,
           UNCHANGED <<pc, task, seen, ports, leaked, allowed>>,
           DOMAIN token' = Package,
           \A p \in Package : token'[p] \in {token[p], "none"},
           edited \/ marker => edited' \/ marker'
    PROVE  LeaseInv'
<1>1. Shapes' /\ InHand' /\ ClearedInv'
  BY DEF LeaseInv, Shapes, IsTask, InHand, ClearedInv
<1>2. DecideInv'
  BY DEF LeaseInv, DecideInv, InHand, Handling
<1>3. GrantInv'
  BY DEF LeaseInv, GrantInv, HasPort
<1>4. PolicyOnFile'
  BY DEF LeaseInv, PolicyOnFile, HasPort
<1>5. DisallowedIsPending'
  BY DEF LeaseInv, DisallowedIsPending
<1> QED BY <1>1, <1>2, <1>3, <1>4, <1>5 DEF LeaseInv

\* The applications, AudioPolicy, the vendor's events and a2h_apply.
LEMMA WorldKeeps ==
    ASSUME LeaseInv, World
    PROVE  LeaseInv'
<1> USE DEF LeaseInv, Shapes
<1>1. ASSUME NEW q \in Port, NEW p \in Package, NEW s \in Session, AppStarts(q, p, s)
      PROVE  LeaseInv'
  <2>1. Log(Event("start", p, q, s)) /\ IsStart(Event("start", p, q, s))
    BY <1>1 DEF AppStarts, Event, IsStart
  <2> QED BY <1>1, <2>1, LogKeeps, OutsideKeeps DEF AppStarts, files, onFile, watcher
<1>2. ASSUME NEW q \in Port, AppStops(q) PROVE LeaseInv'
  BY <1>2, OutsideKeeps DEF AppStops, files, onFile, watcher, log, Lines, line
<1>3. ASSUME NEW x \in late, StopLogged(x) PROVE LeaseInv'
  <2>1. Log(Event("stop", None, x.port, x.ses)) /\ IsStart(Event("stop", None, x.port, x.ses))
    BY <1>3 DEF StopLogged, Event, IsStart
  <2> QED BY <1>3, <2>1, LogKeeps, OutsideKeeps DEF StopLogged, files, onFile, watcher
<1>4. ASSUME NEW p \in Package, VendorEvent(p) PROVE LeaseInv'
  <2>1. Log(Event("track", p, None, None)) /\ IsStart(Event("track", p, None, None))
    BY <1>4 DEF VendorEvent, Event, IsStart
  <2> QED BY <1>4, <2>1, LogKeeps, OutsideKeeps
          DEF VendorEvent, files, onFile, watcher, outside
<1>5. ASSUME NEW p \in Package, Edit(p) PROVE LeaseInv'
  <2>1. /\ UNCHANGED <<pc, task, seen, ports, leaked, token, queue, last>>
        /\ edited' = TRUE /\ DOMAIN allowed' = Package
    BY <1>5 DEF Edit, files, onFile, watcher, log
  <2>2. Lines' /\ Shapes' /\ InHand' /\ DecideInv' /\ ClearedInv'
    BY <2>1 DEF Lines, IsTask, InHand, DecideInv, line, ClearedInv
  <2>3. GrantInv' /\ PolicyOnFile' /\ DisallowedIsPending'
    BY <2>1 DEF GrantInv, HasPort, PolicyOnFile, DisallowedIsPending
  <2> QED BY <2>2, <2>3
<1>6. ASSUME Signal PROVE LeaseInv'
  <2>1. Log(Event("wake", None, None, None)) /\ IsStart(Event("wake", None, None, None))
    BY <1>6 DEF Signal, Event, IsStart
  <2> QED BY <1>6, <2>1, LogKeeps, OutsideKeeps DEF Signal, files, onFile, watcher
<1> QED BY <1>1, <1>2, <1>3, <1>4, <1>5, <1>6 DEF World

\* A stream writes lines, and its worker may remove a token.
LEMMA StreamKeeps ==
    ASSUME LeaseInv, NEW t \in Trigger, Stream(t)
    PROVE  LeaseInv'
<1> USE DEF LeaseInv, Shapes
<1>1. /\ UNCHANGED <<pc, task, seen, ports, leaked, allowed, edited, marker>>
      /\ \/ token' = token
         \/ \E p : token' = [token EXCEPT ![p] = "none"]
  BY DEF Stream, Open, OpenFails, Ready, Look, Expire, Close, WorkerCleans, WorkerEnds, WorkerHears,
         Outside, watcher, outside, onFile
<1>2. DOMAIN token' = Package /\ \A p \in Package : token'[p] \in {token[p], "none"}
  BY <1>1
<1>3. Lines' /\ (queue # <<>> => queue' # <<>> /\ line' = line)
  <2>1. CASE Open(t)
    <3>1. Log(Event("start", lease[t].pkg, t, t)) /\ IsStart(Event("start", lease[t].pkg, t, t))
      BY <2>1 DEF Open, Event, IsStart
    <3> QED BY <3>1, LogKeeps
  <2>2. CASE Close(t)
    <3>1. Log(Event("stop", None, t, t)) /\ IsStart(Event("stop", None, t, t))
      BY <2>2 DEF Close, Event, IsStart
    <3> QED BY <3>1, LogKeeps
  <2>3. CASE ~Open(t) /\ ~Close(t)
    <3>1. UNCHANGED log
      BY <2>3 DEF Stream, OpenFails, Ready, Look, Expire, WorkerCleans, WorkerEnds, WorkerHears
    <3> QED BY <3>1 DEF log, Lines, line
  <2> QED BY <2>1, <2>2, <2>3
<1> QED BY <1>1, <1>2, <1>3, OutsideKeeps

-----------------------------------------------------------------------------
(* The watcher's handlers.                                                 *)

\* A handler that goes on to a label where no token is granted, with the same
\* task: only a token may go.
LEMMA WorksOn ==
    ASSUME LeaseInv, NEW label \in {"fork", "record", "await", "giveup", "drain"},
           pc \in Working, Goto(label),
           IsTask(task'), task'.pkg = task.pkg, task'.back = task.back,
           UNCHANGED <<seen, ports, leaked, allowed, edited, marker>>,
           pc # "revoke" \/ (task.pkg \in Package => token'[task.pkg] = "none"),
           DOMAIN token' = Package,
           \A p \in Package : token'[p] \in {token[p], "none"}
    PROVE  LeaseInv'
<1> USE DEF LeaseInv
<1>1. pc' = label /\ Lines' /\ queue' = queue
  BY GotoKeeps DEF Goto
<1>2. Shapes' /\ InHand'
  BY <1>1 DEF Shapes, InHand, Handling, Working, Granting
<1>3. DecideInv' /\ GrantInv' /\ ClearedInv'
  BY <1>1 DEF DecideInv, GrantInv, InHand, ClearedInv, Working, Granting
<1>4. PolicyOnFile' /\ DisallowedIsPending'
  BY <1>1 DEF PolicyOnFile, DisallowedIsPending, HasPort, InHand, Working, Granting
<1> QED BY <1>1, <1>2, <1>3, <1>4

\* A task is done, and every token that is new was asked for.
LEMMA FinishKeeps ==
    ASSUME LeaseInv, Finish, pc \in Working \cup {"release"},
           UNCHANGED <<seen, ports, leaked, allowed, edited, marker>>,
           DOMAIN token' = Package,
           \A p \in Package :
               /\ token'[p] = "policy" /\ p \notin leaked => HasPort(p)
               /\ \/ token'[p] = "none"
                  \/ token'[p] # "none" /\ token[p] # "none" /\ (p # task.pkg \/ pc # "revoke")
                  \/ allowed[p] \/ edited \/ marker
    PROVE  LeaseInv'
<1> USE DEF LeaseInv
<1>1. queue # <<>> /\ pc' = task.back /\ task' = NoTask
  BY DEF Finish, Goto, InHand, Working, Granting, Handling
<1>2. Lines' /\ (task.back # "idle" => queue' = queue)
  BY <1>1, GotoKeeps DEF Finish
<1>3. Shapes' /\ InHand'
  BY <1>1, <1>2 DEF Shapes, IsTask, NoTask, InHand, Handling, Working, Granting
<1>4. DecideInv' /\ GrantInv' /\ ClearedInv'
  <2>1. pc' \in {"idle", "reconcile", "decide"} /\ task'.back = "idle"
    BY <1>1 DEF InHand, NoTask
  <2>2. DecideInv'
    BY <1>1, <1>2, <2>1 DEF DecideInv, line
  <2>3. GrantInv' /\ ClearedInv'
    BY <2>1 DEF GrantInv, ClearedInv, Granting
  <2> QED BY <2>2, <2>3
<1>5. PolicyOnFile'
  BY <1>1 DEF PolicyOnFile, HasPort
<1>6. DisallowedIsPending'
  BY <1>1 DEF DisallowedIsPending, InHand, Working, Granting
<1> QED BY <1>2, <1>3, <1>4, <1>5, <1>6

\* While a task is worked on, a policy lease has its output on file.
LEMMA WorkingHasPort ==
    ASSUME LeaseInv, pc \in Working, NEW p \in Package, token[p] = "policy", p \notin leaked
    PROVE  HasPort(p)
BY DEF LeaseInv, PolicyOnFile, Working, Granting

\* What Promote and Prepare make of the token of the task, and what they may
\* leave of it when they fail.
LEMMA PromotedIsBotched ==
    ASSUME NEW current, NEW kind
    PROVE  Promoted(current, kind) \in Botched(current, kind)
BY DEF Promoted, Botched

LEMMA GrantedHasPort ==
    ASSUME LeaseInv, pc \in {"promote", "prepare"},
           NEW p \in Package, p \notin leaked,
           NEW left \in Botched(token[task.pkg], task.kind),
           [token EXCEPT ![task.pkg] = left][p] = "policy"
    PROVE  HasPort(p)
<1>1. CASE p = task.pkg
  <2>1. left = "policy"
    BY <1>1 DEF LeaseInv, Shapes
  <2>2. token[p] = "policy" \/ task.kind = "policy"
    BY <1>1, <2>1 DEF Botched
  <2> QED BY <1>1, <2>2, WorkingHasPort DEF LeaseInv, GrantInv, Granting, Working
<1>2. CASE p # task.pkg
  BY <1>2, WorkingHasPort DEF LeaseInv, Shapes, Working, Granting
<1> QED BY <1>1, <1>2

-----------------------------------------------------------------------------
(* Lines and tasks that are taken up.                                      *)

LEMMA ClaimKeeps ==
    ASSUME LeaseInv, Claim
    PROVE  LeaseInv'
<1> USE DEF LeaseInv
<1>1. /\ pc = "idle" /\ pc' = "reconcile" /\ queue # <<>>
      /\ UNCHANGED <<ports, leaked, token, allowed, edited, task, seen>>
  BY DEF Claim, Goto, files, onFile, outside
<1>2. Lines' /\ queue' = queue
  BY GotoKeeps DEF Claim
<1>3. Shapes' /\ InHand' /\ DecideInv' /\ GrantInv' /\ ClearedInv'
  BY <1>1, <1>2 DEF Shapes, IsTask, InHand, Working, Granting, DecideInv, GrantInv, ClearedInv
<1>4. seen = {}
  BY <1>1 DEF InHand, Working, Granting
<1>5. PolicyOnFile' /\ DisallowedIsPending'
  BY <1>1, <1>4 DEF PolicyOnFile, HasPort, DisallowedIsPending
<1> QED BY <1>2, <1>3, <1>5

LEMMA ReconcileKeeps ==
    ASSUME LeaseInv, Reconcile
    PROVE  LeaseInv'
<1> USE DEF LeaseInv
<1>1. /\ pc = "reconcile" /\ queue # <<>>
      /\ UNCHANGED <<ports, leaked, token, allowed, edited, marker>>
      /\ task.back = "idle"
  BY DEF Reconcile, files, onFile, outside, InHand, Handling, Working, Granting
<1>2. CASE /\ seen' = {} /\ Goto("handle") /\ UNCHANGED task
           /\ \A p \in Package \ seen : token[p] = "none"
  <2>1. pc' = "handle" /\ Lines' /\ queue' = queue
    BY <1>2, GotoKeeps DEF Goto
  <2>2. Shapes' /\ InHand' /\ DecideInv' /\ GrantInv' /\ ClearedInv'
    BY <1>1, <1>2, <2>1
       DEF Shapes, IsTask, InHand, Working, Granting, DecideInv, GrantInv, ClearedInv
  <2>3. PolicyOnFile' /\ DisallowedIsPending'
    BY <1>1, <1>2, <2>1 DEF PolicyOnFile, HasPort, DisallowedIsPending
  <2> QED BY <2>1, <2>2, <2>3
<1>3. ASSUME NEW p \in Package \ seen,
             seen' = seen \cup {p}, Goto("revoke"),
             task' = Task(p, IF HasPort(p) THEN "policy" ELSE "fallback", allowed[p], "reconcile")
      PROVE  LeaseInv'
  <2>1. pc' = "revoke" /\ Lines' /\ queue' = queue
    BY <1>3, GotoKeeps DEF Goto
  <2>2. /\ task'.pkg = p /\ task'.back = "reconcile" /\ task'.start = allowed[p]
        /\ task'.kind = "policy" => HasPort(p)
        /\ IsTask(task')
    BY <1>3 DEF Task, IsTask
  <2>3. Shapes' /\ InHand' /\ DecideInv' /\ ClearedInv'
    BY <1>1, <2>1, <2>2 DEF Shapes, InHand, Working, Granting, DecideInv, ClearedInv
  <2>4. GrantInv'
    BY <1>1, <2>1, <2>2 DEF GrantInv, HasPort, Granting
  <2>5. PolicyOnFile' /\ DisallowedIsPending'
    BY <1>1, <1>3, <2>1, <2>2 DEF PolicyOnFile, HasPort, DisallowedIsPending
  <2> QED BY <2>1, <2>3, <2>4, <2>5
<1> QED BY <1>2, <1>3 DEF Reconcile

\* policy_start: whoever had the port is released or lost.
LEMMA HandleStartKeeps ==
    ASSUME LeaseInv, HandleStart
    PROVE  LeaseInv'
<1> USE DEF LeaseInv
<1> DEFINE output == [pkg |-> line.pkg, ses |-> line.ses]
           previous == ports[line.port]
<1>1. /\ pc \in {"idle", "handle"} /\ queue # <<>> /\ line.type = "start"
      /\ UNCHANGED <<allowed, edited, marker, seen, token>>
      /\ task.back = "idle" /\ seen = {}
  BY DEF HandleStart, Begins, Quiet, outside, InHand, Working, Granting
<1>2. line.port \in DOMAIN ports
  <2>1. PICK S : queue \in Seq(S)
    BY DEF Lines
  <2>2. 1 \in 1 .. Len(queue) /\ line = queue[1]
    BY <1>1, <2>1 DEF line
  <2> QED BY <1>1, <2>2 DEF Lines, IsStart, Shapes
<1>3. CASE Goto("idle") /\ UNCHANGED <<ports, task, leaked>>
  <2>1. pc' = "idle" /\ Lines'
    BY <1>1, <1>3, GotoKeeps DEF Goto
  <2>2. Shapes' /\ InHand' /\ DecideInv' /\ GrantInv' /\ ClearedInv'
    BY <1>1, <1>3, <2>1
       DEF Shapes, IsTask, InHand, Handling, DecideInv, GrantInv, Granting, ClearedInv
  <2>3. PolicyOnFile' /\ DisallowedIsPending'
    BY <1>1, <1>3, <2>1 DEF PolicyOnFile, HasPort, DisallowedIsPending
  <2> QED BY <2>1, <2>2, <2>3
<1>4. CASE /\ ports' = [ports EXCEPT ![line.port] = output] /\ UNCHANGED leaked
           /\ IF previous.pkg \notin {None, line.pkg}
              THEN task' = Task(previous.pkg, "none", FALSE, "decide") /\ Goto("release")
              ELSE Goto("decide") /\ UNCHANGED task
  <2>1. /\ pc' \in {"release", "decide"} /\ Lines' /\ queue' = queue /\ line' = line
        /\ pc' = "decide" => task' = task
        /\ pc' = "release" => task'.back = "decide" /\ task'.pkg = previous.pkg
        /\ IsTask(task')
    BY <1>4, GotoKeeps DEF Goto, Task, IsTask, Shapes, line
  <2>2. Shapes' /\ InHand' /\ ClearedInv'
    BY <1>1, <1>4, <2>1 DEF Shapes, InHand, Working, Granting, ClearedInv, Task
  <2>3. DecideInv' /\ GrantInv'
    <3>1. line'.port \in DOMAIN ports' /\ ports'[line'.port].pkg = line'.pkg
      BY <1>2, <1>4, <2>1
    <3> QED BY <2>1, <3>1 DEF DecideInv, GrantInv, Granting
  <2>4. ASSUME NEW p \in Package, HasPort(p)
        PROVE  HasPort(p)' \/ (pc' = "release" /\ previous.pkg = p)
    <3>1. PICK q \in DOMAIN ports : ports[q].pkg = p
      BY <2>4 DEF HasPort
    <3>2. CASE q # line.port
      BY <1>4, <3>1, <3>2 DEF HasPort
    <3>3. CASE q = line.port /\ p # line.pkg
      BY <1>4, <3>1, <3>3, NoneAssumption DEF Goto
    <3>4. CASE q = line.port /\ p = line.pkg
      BY <1>2, <1>4, <3>4 DEF HasPort
    <3> QED BY <3>2, <3>3, <3>4
  <2>5. PolicyOnFile'
    BY <1>1, <1>4, <2>1, <2>4 DEF PolicyOnFile, Task
  <2>6. DisallowedIsPending'
    BY <1>1, <2>1 DEF DisallowedIsPending
  <2> QED BY <2>1, <2>2, <2>3, <2>5, <2>6
<1>5. CASE /\ \E written \in {output, NoOutput, previous} :
                 ports' = [ports EXCEPT ![line.port] = written]
           /\ leaked' = leaked \cup ({previous.pkg} \ {None})
           /\ Goto("idle") /\ UNCHANGED task
  <2>1. pc' = "idle" /\ Lines' /\ DOMAIN ports' = DOMAIN ports
    BY <1>1, <1>5, GotoKeeps DEF Goto
  <2>2. Shapes' /\ InHand' /\ DecideInv' /\ GrantInv' /\ ClearedInv'
    BY <1>1, <1>5, <2>1
       DEF Shapes, IsTask, InHand, Handling, DecideInv, GrantInv, Granting, ClearedInv
  <2>3. ASSUME NEW p \in Package, HasPort(p), p \notin leaked' PROVE HasPort(p)'
    <3>1. PICK q \in DOMAIN ports : ports[q].pkg = p
      BY <2>3 DEF HasPort
    <3>2. q # line.port
      BY <1>5, <2>3, <3>1, NoneAssumption
    <3> QED BY <1>5, <2>1, <3>1, <3>2 DEF HasPort
  <2>4. leaked \subseteq leaked'
    BY <1>5
  <2>5. PolicyOnFile' /\ DisallowedIsPending'
    BY <1>1, <1>5, <2>1, <2>3, <2>4 DEF PolicyOnFile, DisallowedIsPending
  <2> QED BY <2>1, <2>2, <2>5
<1> QED BY <1>3, <1>4, <1>5 DEF HandleStart, onFile

\* The rest of policy_start, and trigger_for_package.
LEMMA DecideKeeps ==
    ASSUME LeaseInv, Decide
    PROVE  LeaseInv'
<1> USE DEF LeaseInv
<1>1. /\ pc = "decide" /\ queue # <<>> /\ UNCHANGED <<ports, leaked, token, allowed, edited, marker, seen>>
      /\ task' = Task(line.pkg, "policy", allowed[line.pkg], "idle")
      /\ Goto(IF allowed[line.pkg] THEN "alive" ELSE "revoke")
      /\ seen = {}
  BY DEF Decide, Quiet, outside, files, onFile, InHand, Handling, Working, Granting
<1>2. /\ pc' = (IF allowed[line.pkg] THEN "alive" ELSE "revoke") /\ Lines' /\ queue' = queue
      /\ pc' \in {"alive", "revoke"}
  BY <1>1, GotoKeeps DEF Goto
<1>3. /\ task'.pkg = line.pkg /\ task'.kind = "policy" /\ task'.back = "idle"
      /\ task'.start = allowed[line.pkg] /\ IsTask(task')
  BY <1>1 DEF Task, IsTask
<1>4. Shapes' /\ InHand' /\ DecideInv' /\ ClearedInv'
  BY <1>1, <1>2, <1>3 DEF Shapes, InHand, DecideInv, ClearedInv
<1>5. HasPort(line.pkg)
  BY <1>1 DEF DecideInv, HasPort
<1>6. GrantInv'
  <2>1. HasPort(task.pkg)'
    BY <1>1, <1>3, <1>5 DEF HasPort
  <2>2. CASE allowed[line.pkg]
    BY <1>1, <1>3, <2>1, <2>2 DEF GrantInv
  <2>3. CASE ~allowed[line.pkg]
    BY <1>1, <1>2, <1>3, <2>1, <2>3 DEF GrantInv
  <2> QED BY <2>2, <2>3
<1>7. PolicyOnFile' /\ DisallowedIsPending'
  BY <1>1, <1>2 DEF PolicyOnFile, HasPort, DisallowedIsPending, InHand, Working, Granting
<1> QED BY <1>2, <1>4, <1>6, <1>7

LEMMA HandleTrackKeeps ==
    ASSUME LeaseInv, HandleTrack
    PROVE  LeaseInv'
<1> USE DEF LeaseInv
<1>1. /\ pc \in {"idle", "handle"} /\ queue # <<>>
      /\ UNCHANGED <<ports, leaked, token, allowed, edited, marker, seen>>
      /\ task.back = "idle" /\ seen = {}
  BY DEF HandleTrack, Begins, Quiet, outside, files, onFile, InHand, Working, Granting
<1>2. CASE Goto("idle") /\ UNCHANGED task
  <2>1. pc' = "idle" /\ Lines'
    BY <1>1, <1>2, GotoKeeps DEF Goto
  <2>2. Shapes' /\ InHand' /\ DecideInv' /\ GrantInv' /\ ClearedInv'
    BY <1>1, <1>2, <2>1
       DEF Shapes, IsTask, InHand, Handling, DecideInv, GrantInv, Granting, ClearedInv
  <2>3. PolicyOnFile' /\ DisallowedIsPending'
    BY <1>1, <1>2, <2>1 DEF PolicyOnFile, HasPort, DisallowedIsPending
  <2> QED BY <2>1, <2>2, <2>3
<1>3. CASE allowed[line.pkg] /\ Goto("alive") /\ task' = Task(line.pkg, "fallback", TRUE, "idle")
  <2>1. pc' = "alive" /\ Lines' /\ queue' = queue
    BY <1>3, GotoKeeps DEF Goto
  <2>2. task'.pkg = line.pkg /\ task'.kind = "fallback" /\ task'.back = "idle" /\ IsTask(task')
    BY <1>3 DEF Task, IsTask
  <2>3. Shapes' /\ InHand' /\ DecideInv' /\ ClearedInv'
    BY <1>1, <2>1, <2>2 DEF Shapes, InHand, DecideInv, ClearedInv
  <2>4. GrantInv'
    BY <1>1, <1>3, <2>1, <2>2 DEF GrantInv
  <2>5. PolicyOnFile' /\ DisallowedIsPending'
    BY <1>1, <2>1 DEF PolicyOnFile, HasPort, DisallowedIsPending
  <2> QED BY <2>1, <2>3, <2>4, <2>5
<1> QED BY <1>2, <1>3 DEF HandleTrack

\* policy_stop, and a line that only wakes the watcher.
LEMMA HandleStopKeeps ==
    ASSUME LeaseInv, HandleStop \/ HandleWake
    PROVE  LeaseInv'
<1> USE DEF LeaseInv
<1> DEFINE current == ports[line.port]
<1>1. /\ pc \in {"idle", "handle"} /\ queue # <<>>
      /\ UNCHANGED <<leaked, token, allowed, edited, marker, seen>>
      /\ task.back = "idle" /\ seen = {}
  BY DEF HandleStop, HandleWake, Begins, Quiet, outside, files, onFile, InHand, Working, Granting
<1>2. CASE Goto("idle") /\ UNCHANGED <<ports, task>>
  <2>1. pc' = "idle" /\ Lines'
    BY <1>1, <1>2, GotoKeeps DEF Goto
  <2>2. Shapes' /\ InHand' /\ DecideInv' /\ GrantInv' /\ ClearedInv'
    BY <1>1, <1>2, <2>1
       DEF Shapes, IsTask, InHand, Handling, DecideInv, GrantInv, Granting, ClearedInv
  <2>3. PolicyOnFile' /\ DisallowedIsPending'
    BY <1>1, <1>2, <2>1 DEF PolicyOnFile, HasPort, DisallowedIsPending
  <2> QED BY <2>1, <2>2, <2>3
<1>3. CASE /\ ports' = [ports EXCEPT ![line.port] = NoOutput]
           /\ task' = Task(current.pkg, "none", FALSE, "idle") /\ Goto("release")
  <2>1. /\ pc' = "release" /\ Lines' /\ queue' = queue
        /\ task'.back = "idle" /\ task'.pkg = current.pkg /\ IsTask(task')
    BY <1>3, GotoKeeps DEF Goto, Task, IsTask
  <2>2. Shapes' /\ InHand' /\ DecideInv' /\ GrantInv' /\ ClearedInv'
    BY <1>1, <1>3, <2>1 DEF Shapes, InHand, DecideInv, GrantInv, Granting, ClearedInv
  <2>3. ASSUME NEW p \in Package, HasPort(p) PROVE HasPort(p)' \/ current.pkg = p
    <3>1. PICK q \in DOMAIN ports : ports[q].pkg = p
      BY <2>3 DEF HasPort
    <3>2. CASE q # line.port
      BY <1>3, <3>1, <3>2 DEF HasPort
    <3> QED BY <3>1, <3>2
  <2>4. PolicyOnFile' /\ DisallowedIsPending'
    BY <1>1, <2>1, <2>3 DEF PolicyOnFile, DisallowedIsPending
  <2> QED BY <2>1, <2>2, <2>4
<1> QED BY <1>2, <1>3 DEF HandleStop, HandleWake, files, onFile

\* release_policy_lease_if_idle looks at all ports.
LEMMA ReleaseKeeps ==
    ASSUME LeaseInv, Release
    PROVE  LeaseInv'
<1>1. /\ pc = "release" /\ Finish
      /\ UNCHANGED <<seen, ports, leaked, allowed, edited, marker>>
      /\ token' = IF HasPort(task.pkg) THEN token ELSE [token EXCEPT ![task.pkg] = "none"]
  BY DEF Release, Quiet, outside, onFile
<1>2. DOMAIN token' = Package
  BY <1>1 DEF LeaseInv, Shapes
<1>3. ASSUME NEW p \in Package
      PROVE  /\ token'[p] = "policy" /\ p \notin leaked => HasPort(p)
             /\ token'[p] = "none" \/ token[p] # "none"
  <2>1. CASE p = task.pkg
    BY <1>1, <2>1 DEF LeaseInv, Shapes
  <2>2. CASE p # task.pkg
    BY <1>1, <2>2 DEF LeaseInv, Shapes, PolicyOnFile
  <2> QED BY <2>1, <2>2
<1> QED BY <1>1, <1>2, <1>3, FinishKeeps

\* stop_lease_for_reconcile.
LEMMA RevokeKeeps ==
    ASSUME LeaseInv, Revoke \/ Stop
    PROVE  LeaseInv'
<1> USE DEF LeaseInv
<1> DEFINE label == IF pc = "revoke" THEN "stop" ELSE "forget"
<1>1. /\ pc \in {"revoke", "stop"} /\ Goto(label)
      /\ UNCHANGED <<seen, ports, leaked, allowed, edited, marker, task>>
      /\ token' = IF pc = "revoke" THEN [token EXCEPT ![task.pkg] = "none"] ELSE token
  BY DEF Revoke, Stop, Quiet, outside, files, onFile
<1>2. pc' = label /\ pc' \in {"stop", "forget"} /\ Lines' /\ queue' = queue
  BY <1>1, GotoKeeps DEF Goto
<1>3. /\ DOMAIN token' = Package
      /\ \A p \in Package : token'[p] \in {token[p], "none"}
      /\ pc = "revoke" /\ task.pkg \in Package => token'[task.pkg] = "none"
  BY <1>1 DEF Shapes
<1>4. Shapes' /\ InHand' /\ DecideInv' /\ ClearedInv'
  BY <1>1, <1>2, <1>3 DEF Shapes, InHand, Handling, Working, Granting, DecideInv, line, ClearedInv
<1>5. GrantInv'
  BY <1>1, <1>2 DEF GrantInv, HasPort, Granting
<1>6. PolicyOnFile' /\ DisallowedIsPending'
  BY <1>1, <1>2, <1>3 DEF PolicyOnFile, HasPort, DisallowedIsPending
<1> QED BY <1>2, <1>4, <1>5, <1>6

LEMMA ForgetKeeps ==
    ASSUME LeaseInv, Forget \/ Alive
    PROVE  LeaseInv'
<1> USE DEF LeaseInv
<1>1. /\ pc \in {"forget", "alive"}
      /\ UNCHANGED <<seen, ports, leaked, allowed, edited, marker, token>>
      /\ \/ Finish
         \/ /\ UNCHANGED task /\ (pc = "alive" \/ task.start)
            /\ Goto("alive") \/ Goto("promote") \/ Goto("prepare")
  BY DEF Forget, Alive, Quiet, outside, files, onFile
<1>2. CASE Finish
  <2>1. pc \in Working \cup {"release"}
    BY <1>1 DEF Working, Granting
  <2>2. DOMAIN token' = Package
    BY <1>1 DEF Shapes
  <2>3. ASSUME NEW p \in Package
        PROVE  /\ token'[p] = "policy" /\ p \notin leaked => HasPort(p)
               /\ token'[p] = "none" \/ (token[p] # "none" /\ pc # "revoke")
    BY <1>1, WorkingHasPort DEF Working, Granting
  <2> QED BY <1>1, <1>2, <2>1, <2>2, <2>3, FinishKeeps
<1>3. CASE /\ UNCHANGED task /\ (pc = "alive" \/ task.start)
           /\ Goto("alive") \/ Goto("promote") \/ Goto("prepare")
  <2>1. pc' \in {"alive", "promote", "prepare"} /\ Lines' /\ queue' = queue
    BY <1>3, GotoKeeps DEF Goto
  <2>2. Shapes' /\ InHand' /\ DecideInv' /\ ClearedInv'
    BY <1>1, <1>3, <2>1 DEF Shapes, InHand, Handling, Working, Granting, DecideInv, line, ClearedInv
  <2>3. GrantInv'
    BY <1>1, <1>3, <2>1 DEF GrantInv, HasPort, Granting
  <2>4. PolicyOnFile' /\ DisallowedIsPending'
    BY <1>1, <1>3, <2>1 DEF PolicyOnFile, HasPort, DisallowedIsPending
  <2> QED BY <2>1, <2>2, <2>3, <2>4
<1> QED BY <1>1, <1>2, <1>3

\* Where tokens come from.
LEMMA PromoteKeeps ==
    ASSUME LeaseInv, Promote
    PROVE  LeaseInv'
<1>1. /\ pc = "promote" /\ Finish
      /\ UNCHANGED <<seen, ports, leaked, allowed, edited, marker>>
      /\ \E left \in Botched(token[task.pkg], task.kind) :
            token' = [token EXCEPT ![task.pkg] = left]
  BY PromotedIsBotched DEF Promote, Quiet, outside, onFile
<1>2. DOMAIN token' = Package
  BY <1>1 DEF LeaseInv, Shapes
<1>3. ASSUME NEW p \in Package
      PROVE  /\ token'[p] = "policy" /\ p \notin leaked => HasPort(p)
             /\ \/ token'[p] # "none" /\ token[p] # "none"
                \/ token'[p] = "none"
                \/ allowed[p] \/ edited \/ marker
  <2>1. token'[p] = "policy" /\ p \notin leaked => HasPort(p)
    BY <1>1, GrantedHasPort, WorkingHasPort DEF Working, Granting
  <2>2. p # task.pkg => token'[p] = token[p]
    BY <1>1 DEF LeaseInv, Shapes
  <2>3. p = task.pkg => allowed[p] \/ edited \/ marker
    BY <1>1 DEF LeaseInv, GrantInv
  <2> QED BY <2>1, <2>2, <2>3
<1> QED BY <1>1, <1>2, <1>3, FinishKeeps DEF Working, Granting

LEMMA PrepareKeeps ==
    ASSUME LeaseInv, Prepare
    PROVE  LeaseInv'
<1> USE DEF LeaseInv
<1>1. /\ pc = "prepare"
      /\ UNCHANGED <<seen, ports, leaked, allowed, edited, marker>>
      /\ \/ token' = token
         \/ \E left \in Botched(token[task.pkg], task.kind) :
               token' = [token EXCEPT ![task.pkg] = left]
      /\ \/ Finish
         \/ Goto("fork") /\ \E t : task' = [task EXCEPT !.trigger = t]
  BY PromotedIsBotched DEF Prepare, Quiet, outside, onFile
<1>2. DOMAIN token' = Package
  BY <1>1 DEF Shapes
<1>3. ASSUME NEW p \in Package
      PROVE  /\ token'[p] = "policy" /\ p \notin leaked => HasPort(p)
             /\ \/ token'[p] # "none" /\ token[p] # "none"
                \/ token'[p] = "none"
                \/ allowed[p] \/ edited \/ marker
  <2>1. token'[p] = "policy" /\ p \notin leaked => HasPort(p)
    BY <1>1, GrantedHasPort, WorkingHasPort DEF Working, Granting
  <2>2. p # task.pkg => token'[p] = token[p]
    BY <1>1 DEF Shapes
  <2>3. p = task.pkg => allowed[p] \/ edited \/ marker
    BY <1>1 DEF GrantInv
  <2> QED BY <2>1, <2>2, <2>3
<1>4. CASE Finish
  BY <1>1, <1>2, <1>3, <1>4, FinishKeeps DEF Working, Granting
<1>5. CASE Goto("fork") /\ \E t : task' = [task EXCEPT !.trigger = t]
  <2>1. pc' = "fork" /\ Lines' /\ queue' = queue
    BY <1>5, GotoKeeps DEF Goto
  <2>2. IsTask(task') /\ task'.pkg = task.pkg /\ task'.back = task.back
    BY <1>5 DEF Shapes, IsTask
  <2>3. Shapes' /\ InHand'
    BY <1>1, <1>2, <2>1, <2>2 DEF Shapes, InHand, Handling, Working, Granting
  <2>4. DecideInv' /\ GrantInv' /\ ClearedInv'
    BY <1>1, <2>1, <2>2 DEF DecideInv, InHand, GrantInv, Granting, ClearedInv
  <2>5. PolicyOnFile'
    BY <1>1, <1>3 DEF PolicyOnFile, HasPort
  <2>6. DisallowedIsPending'
    BY <1>1, <1>3, <2>1, <2>2 DEF DisallowedIsPending
  <2> QED BY <2>1, <2>3, <2>4, <2>5, <2>6
<1> QED BY <1>1, <1>4, <1>5

\* The rest of start_lease_owned can only take a token away.
LEMMA LeasingKeeps ==
    ASSUME LeaseInv, Fork \/ Record \/ Await \/ GiveUp \/ Drain
    PROVE  LeaseInv'
<1> USE DEF LeaseInv
<1>1. /\ pc \in {"fork", "record", "await", "giveup", "drain"}
      /\ UNCHANGED <<seen, ports, leaked, allowed, edited, marker>>
      /\ token' = token \/ token' = [token EXCEPT ![task.pkg] = "none"]
      /\ \/ Finish
         \/ UNCHANGED task /\ \E label \in {"record", "await", "giveup", "drain"} : Goto(label)
  BY DEF Fork, Record, Await, GiveUp, Drain, Quiet, outside, files, onFile
<1>2. DOMAIN token' = Package /\ \A p \in Package : token'[p] \in {token[p], "none"}
  BY <1>1 DEF Shapes
<1>3. pc \in Working /\ pc # "revoke"
  BY <1>1 DEF Working
<1>4. CASE Finish
  <2>1. ASSUME NEW p \in Package
        PROVE  /\ token'[p] = "policy" /\ p \notin leaked => HasPort(p)
               /\ token'[p] = "none" \/ (token[p] # "none" /\ pc # "revoke")
    BY <1>2, <1>3, WorkingHasPort
  <2> QED BY <1>1, <1>2, <1>3, <1>4, <2>1, FinishKeeps
<1>5. CASE UNCHANGED task /\ \E label \in {"record", "await", "giveup", "drain"} : Goto(label)
  BY <1>1, <1>2, <1>3, <1>5, WorksOn DEF Shapes
<1> QED BY <1>1, <1>4, <1>5

LEMMA HandlerKeeps ==
    ASSUME LeaseInv, Handler
    PROVE  LeaseInv'
BY ClaimKeeps, ReconcileKeeps, HandleStartKeeps, DecideKeeps, HandleStopKeeps, HandleTrackKeeps,
   ReleaseKeeps, RevokeKeeps, ForgetKeeps, PromoteKeeps, PrepareKeeps, LeasingKeeps
   DEF Handler

-----------------------------------------------------------------------------
(* The end of logcat, and of the watcher.                                  *)

\* The tokens go before the ports do.
LEMMA LifeKeeps ==
    ASSUME LeaseInv, Life
    PROVE  LeaseInv'
<1> USE DEF LeaseInv
<1>1. ASSUME EndOfFile PROVE LeaseInv'
  <2>1. /\ pc = "idle" /\ pc' = "reset"
        /\ UNCHANGED <<ports, leaked, token, allowed, edited, marker, task, seen, queue, last>>
    BY <1>1 DEF EndOfFile, Goto, files, onFile, outside
  <2>2. Lines' /\ Shapes' /\ InHand' /\ DecideInv' /\ GrantInv' /\ ClearedInv'
    BY <2>1 DEF Lines, Shapes, IsTask, InHand, Handling, Working, Granting, DecideInv, GrantInv,
                ClearedInv
  <2>3. PolicyOnFile' /\ DisallowedIsPending'
    BY <2>1 DEF PolicyOnFile, HasPort, DisallowedIsPending, InHand, Working, Granting
  <2> QED BY <2>2, <2>3
<1>2. ASSUME Reset \/ Cleanup PROVE LeaseInv'
  <2>1. /\ pc \in {"reset", "restart", "cleanup"} /\ pc' \in {"reap", "renew", "grace"}
        /\ token' = NoTokens
        /\ UNCHANGED <<ports, leaked, allowed, edited, marker, task, seen, queue, last>>
    BY <1>2 DEF Reset, Cleanup, Goto, files, onFile, outside, Handling
  <2>2. DOMAIN token' = Package /\ \A p \in Package : token'[p] = "none"
    BY <2>1 DEF NoTokens
  <2>3. Lines' /\ Shapes' /\ InHand' /\ DecideInv' /\ GrantInv' /\ ClearedInv'
    BY <2>1, <2>2 DEF Lines, Shapes, IsTask, InHand, Handling, Working, Granting, DecideInv,
                      GrantInv, ClearedInv
  <2>4. PolicyOnFile' /\ DisallowedIsPending'
    BY <2>2 DEF PolicyOnFile, DisallowedIsPending
  <2> QED BY <2>3, <2>4
<1>3. ASSUME Reap PROVE LeaseInv'
  <2>1. /\ pc \in {"reap", "renew"} /\ pc' = "idle" /\ ports' = NoPorts
        /\ queue' = (IF last = None THEN <<>> ELSE <<last>>) /\ last' = last
        /\ UNCHANGED <<leaked, token, allowed, edited, task, seen>>
    BY <1>3 DEF Reap, outside
  <2>2. Lines'
    <3>1. \E S : queue' \in Seq(S)
      <4>1. <<>> \in Seq({last}) /\ <<last>> \in Seq({last})
        OBVIOUS
      <4> QED BY <2>1, <4>1
    <3>2. \A i \in 1 .. Len(queue') : IsStart(queue'[i])
      BY <2>1 DEF Lines
    <3> QED BY <2>1, <3>1, <3>2 DEF Lines, IsStart
  <2>3. Shapes' /\ InHand' /\ DecideInv' /\ GrantInv' /\ ClearedInv'
    BY <2>1 DEF Shapes, IsTask, NoPorts, InHand, Handling, Working, Granting, DecideInv, GrantInv,
                ClearedInv
  <2>4. PolicyOnFile' /\ DisallowedIsPending'
    BY <2>1 DEF ClearedInv, PolicyOnFile, DisallowedIsPending
  <2> QED BY <2>2, <2>3, <2>4
<1>4. ASSUME Grace \/ Sweep \/ Restart PROVE LeaseInv'
  <2>1. /\ pc \in {"grace", "sweep", "down"} /\ pc' \in {"sweep", "down", "restart"}
        /\ pc' = "sweep" => pc = "grace"
        /\ ports' \in {ports, NoPorts}
        /\ UNCHANGED <<leaked, token, allowed, edited, marker, task, seen, queue, last>>
        /\ pc' = "sweep" => ports' = ports
    BY <1>4 DEF Grace, Sweep, Restart, Goto, files, onFile, outside, Handling
  <2>2. Lines' /\ Shapes' /\ InHand' /\ DecideInv' /\ GrantInv' /\ ClearedInv'
    BY <2>1 DEF Lines, Shapes, IsTask, NoPorts, InHand, Handling, Working, Granting, DecideInv,
                GrantInv, ClearedInv
  <2>3. PolicyOnFile' /\ DisallowedIsPending'
    BY <2>1 DEF ClearedInv, PolicyOnFile, DisallowedIsPending
  <2> QED BY <2>2, <2>3
<1> QED BY <1>1, <1>2, <1>3, <1>4 DEF Life

\* A watcher that dies may leave everything as it stands.
LEMMA DeathKeeps ==
    ASSUME LeaseInv, LogcatDies \/ Kill \/ Terminate
    PROVE  LeaseInv'
<1> USE DEF LeaseInv
<1>1. ASSUME LogcatDies PROVE LeaseInv'
  BY <1>1, OutsideKeeps DEF LogcatDies, watcher, files, onFile, outside, log, Shapes, Lines, line
<1>2. ASSUME NEW label \in {"down", "cleanup"}, Dies(label) PROVE LeaseInv'
  <2>1. /\ pc' = label /\ queue' = <<>> /\ last' = last /\ task' = NoTask /\ seen' = {}
        /\ UNCHANGED <<ports, token, allowed, edited, marker>>
    BY <1>2 DEF Dies, outside
  <2>2. Lines' /\ Shapes' /\ InHand' /\ DecideInv' /\ GrantInv' /\ ClearedInv'
    <3>1. queue' \in Seq({}) /\ Len(queue') = 0
      BY <2>1
    <3> QED BY <2>1, <3>1 DEF Lines, IsStart, Shapes, IsTask, NoTask, InHand, Handling, DecideInv,
                              GrantInv, Granting, ClearedInv
  <2>3. PolicyOnFile' /\ DisallowedIsPending'
    BY <2>1 DEF PolicyOnFile, DisallowedIsPending
  <2> QED BY <2>2, <2>3
<1> QED BY <1>1, <1>2 DEF Kill, Terminate

-----------------------------------------------------------------------------
(* The theorems.                                                           *)

LEMMA InitLeaseInv ==
    ASSUME Init
    PROVE  LeaseInv
<1>1. queue \in Seq({}) /\ Len(queue) = 0
  BY DEF Init
<1>2. Lines
  BY <1>1 DEF Init, Lines
<1>3. DOMAIN token = Package /\ \A p \in Package : token[p] = "none"
  BY DEF Init, NoTokens
<1>4. Shapes /\ InHand /\ DecideInv /\ GrantInv /\ ClearedInv
  BY <1>3 DEF Init, NoPorts, NoTask, Shapes, IsTask, InHand, Handling, DecideInv, GrantInv,
              Granting, ClearedInv
<1>5. PolicyOnFile /\ DisallowedIsPending
  BY <1>3 DEF PolicyOnFile, DisallowedIsPending
<1> QED BY <1>2, <1>4, <1>5 DEF LeaseInv

LEMMA NextLeaseInv ==
    ASSUME LeaseInv, [Next]_vars
    PROVE  LeaseInv'
<1>1. CASE UNCHANGED vars
  <2>1. UNCHANGED <<queue, last, pc, task, seen, ports, leaked, allowed, token, edited, marker>>
    BY <1>1 DEF vars, log
  <2>2. Lines' /\ line' = line /\ DOMAIN token' = Package
    BY <2>1 DEF LeaseInv, Lines, line, Shapes
  <2> QED BY <2>1, <2>2, OutsideKeeps
<1>2. CASE Next
  BY <1>2, WorldKeeps, HandlerKeeps, LifeKeeps, StreamKeeps, DeathKeeps DEF Next
<1> QED BY <1>1, <1>2

\* The invariant of both theorems: what the watcher has in hand is still true,
\* and what it is about to grant has its reason.
THEOREM HandlersAreSound == Spec => []LeaseInv
<1>1. Init => LeaseInv
  BY InitLeaseInv
<1>2. LeaseInv /\ [Next]_vars => LeaseInv'
  BY NextLeaseInv
<1> QED BY <1>1, <1>2, PTL DEF Spec

\* However edits and signals fall into a reconcile, a token of a package that
\* is no longer allowed is found by this reconcile or the next.
\* (reconcile_active_leases, signal_audio_reconcile)
THEOREM RevocationIsPending == Spec => []DisallowedIsPending
<1>1. LeaseInv => DisallowedIsPending
  BY DEF LeaseInv
<1> QED BY <1>1, HandlersAreSound, PTL

-----------------------------------------------------------------------------
(* Types.                                                                  *)

\* The lines that somebody writes.
Written == {l \in Line :
    /\ l.type \in {"start", "track"} => l.pkg \in Package
    /\ l.type \in {"start", "stop"} => l.port \in Port \cup Trigger
    /\ l.type = "start" => l.ses \in Session \cup Trigger
    /\ l.type \in {"start", "stop"} /\ l.port \in Port => l.ses \in Session}

Played == [pkg : Package, ses : Session] \cup {NoOutput}
Leased == {"fork", "record", "await", "giveup", "drain"}

WorldTypes ==
    /\ apps \in [Port -> Played]
    /\ \A x \in late : x.port \in Port /\ x.ses \in Session
    /\ listening \in BOOLEAN /\ edited \in BOOLEAN /\ marker \in BOOLEAN
    /\ allowed \in [Package -> BOOLEAN]
    /\ used \in [plays : Nat, tracks : Nat, edits : Nat, faults : Nat, downs : Nat]

QueueTypes == queue \in Seq(Written) /\ last \in Written \cup {None}

FileTypes ==
    /\ ports \in [Port \cup Trigger -> Output]
    /\ token \in [Package -> Content \cup {"none"}]
    /\ record \in [Package -> Trigger \cup {None}]
    /\ owner \in [Package -> Trigger \cup {None}]
    /\ leaked \subseteq Package /\ unnamed \subseteq Package

LeaseType ==
    [pkg : Package \cup {None},
     proc : {"none", "opening", "open", "ready", "holding", "closing", "gone"},
     worker : {"none", "waiting", "last", "gone"}, told : BOOLEAN,
     file : {"none", "empty", "session", "ready", "lost"},
     limit : Content \cup {"none"}]

LeaseTypes ==
    /\ lease \in [Trigger -> LeaseType]
    /\ \A t \in Trigger : lease[t].proc # "none" \/ Runs(t) => lease[t].pkg \in Package

\* A task is about a package, and from the fork on about a lease of it.
TaskTypes ==
    /\ pc \in Label /\ seen \subseteq Package
    /\ task \in [pkg : Package \cup {None}, kind : Kind \cup {"none"}, start : BOOLEAN,
                 trigger : Trigger \cup {None}, back : {"idle", "reconcile", "decide"}]
    /\ pc \in Working \cup {"release"} => task.pkg \in Package
    /\ pc \in Leased => task.trigger \in Trigger /\ lease[task.trigger].pkg = task.pkg
    /\ pc = "decide" \/ task.back = "decide" => line.pkg \in Package

Types == WorldTypes /\ QueueTypes /\ FileTypes /\ LeaseTypes /\ TaskTypes

-----------------------------------------------------------------------------
(* Lines.                                                                  *)

LEMMA HeadIsWritten ==
    ASSUME QueueTypes, queue # <<>>
    PROVE  line \in Written
BY DEF QueueTypes, line

\* What the log, and a step of the watcher, do to the FIFO.
LEMMA LogTypes ==
    ASSUME QueueTypes, NEW l \in Written, Log(l)
    PROVE  QueueTypes' /\ (queue # <<>> => queue' # <<>> /\ line' = line)
<1>1. CASE queue' = queue
  BY <1>1 DEF QueueTypes, Log, line
<1>2. CASE queue' = Append(queue, l)
  <2>1. queue' \in Seq(Written)
    BY <1>2 DEF QueueTypes
  <2>2. queue # <<>> => queue' # <<>> /\ Head(queue') = Head(queue)
    BY <1>2, QueueFacts DEF QueueTypes
  <2> QED BY <2>1, <2>2 DEF QueueTypes, Log, line
<1> QED BY <1>1, <1>2 DEF Log

LEMMA GotoTypes ==
    ASSUME QueueTypes, NEW label, Goto(label), pc \in Handling => queue # <<>>,
           pc = "idle" /\ label = "idle" => queue # <<>>
    PROVE  QueueTypes' /\ pc' = label /\ (label # "idle" => queue' = queue /\ line' = line)
<1>1. CASE queue' = queue
  BY <1>1 DEF QueueTypes, Goto, line
<1>2. CASE queue' = Tail(queue) /\ queue # <<>> /\ label = "idle"
  <2>1. queue' \in Seq(Written)
    BY <1>2 DEF QueueTypes
  <2> QED BY <1>2, <2>1 DEF QueueTypes, Goto
<1> QED BY <1>1, <1>2 DEF Goto, Handling

LEMMA EventWritten ==
    ASSUME NEW p \in Package, NEW q \in Port \cup Trigger, NEW s \in Session \cup Trigger,
           q \in Port => s \in Session
    PROVE  /\ Event("start", p, q, s) \in Written
           /\ Event("stop", None, q, s) \in Written
           /\ Event("track", p, None, None) \in Written
           /\ Event("wake", None, None, None) \in Written
BY DEF Event, Written, Line

-----------------------------------------------------------------------------
(* Types: the applications, and the streams.                               *)

\* kill leaves a lease its package, with and without a wait.
LEMMA KilledFacts ==
    ASSUME NEW victims, NEW orphans, lease \in [Trigger -> LeaseType]
    PROVE  /\ Killed(victims, orphans) \in [Trigger -> LeaseType]
           /\ \A t \in Trigger :
                 LET k == Killed(victims, orphans)[t]
                 IN /\ k.pkg = lease[t].pkg
                    /\ k.proc # "none" => lease[t].proc # "none"
                    /\ k.worker = IF t \in victims THEN "gone" ELSE lease[t].worker
                    /\ t \notin victims => k = lease[t]
<1> SUFFICES ASSUME NEW t \in Trigger, NEW k, k = Killed(victims, orphans)[t]
             PROVE  /\ k \in LeaseType /\ k.pkg = lease[t].pkg
                    /\ k.proc # "none" => lease[t].proc # "none"
                    /\ k.worker = IF t \in victims THEN "gone" ELSE lease[t].worker
                    /\ t \notin victims => k = lease[t]
  <2>1. Killed(victims, orphans) = [t \in Trigger |-> Killed(victims, orphans)[t]]
    BY DEF Killed
  <2> QED BY <2>1
<1>1. lease[t] \in LeaseType
  OBVIOUS
<1>2. CASE t \notin victims
  BY <1>1, <1>2 DEF Killed
<1>3. CASE t \in victims
  <2>1. PICK pr \in {lease[t].proc, "gone", "closing"} :
           /\ k = [lease[t] EXCEPT !.worker = "gone", !.proc = pr]
           /\ lease[t].proc = "none" => pr = "none"
    BY <1>1, <1>3 DEF Killed, LeaseType
  <2> QED BY <1>1, <1>3, <2>1 DEF LeaseType
<1> QED BY <1>2, <1>3

LEMMA ToldFacts ==
    ASSUME NEW victims, lease \in [Trigger -> LeaseType]
    PROVE  /\ Told(victims) \in [Trigger -> LeaseType]
           /\ \A t \in Trigger :
                 LET k == Told(victims)[t]
                 IN k.pkg = lease[t].pkg /\ k.proc = lease[t].proc /\ k.worker = lease[t].worker
<1>1. ASSUME NEW x \in LeaseType, NEW b \in BOOLEAN
      PROVE  LET y == [x EXCEPT !.told = b]
             IN y \in LeaseType /\ y.pkg = x.pkg /\ y.proc = x.proc /\ y.worker = x.worker
  BY DEF LeaseType
<1>2. \A t \in Trigger : \E b \in BOOLEAN : Told(victims)[t] = [lease[t] EXCEPT !.told = b]
  <2> SUFFICES ASSUME NEW t \in Trigger
               PROVE  \E b \in BOOLEAN : Told(victims)[t] = [lease[t] EXCEPT !.told = b]
    OBVIOUS
  <2>1. lease[t].told \in BOOLEAN
    BY DEF LeaseType
  <2>2. Told(victims)[t] = [lease[t] EXCEPT !.told = (lease[t].told \/ t \in victims)]
    BY DEF Told
  <2> QED BY <2>1, <2>2
<1>3. Told(victims) = [t \in Trigger |-> Told(victims)[t]]
  BY DEF Told
<1>4. ASSUME NEW t \in Trigger, NEW k, k = Told(victims)[t]
      PROVE  k \in LeaseType /\ k.pkg = lease[t].pkg /\ k.proc = lease[t].proc
             /\ k.worker = lease[t].worker
  <2>1. PICK b \in BOOLEAN : k = [lease[t] EXCEPT !.told = b]
    BY <1>2, <1>4
  <2> QED BY <1>1, <2>1
<1> QED BY <1>3, <1>4

LEMMA SpendTypes ==
    ASSUME WorldTypes, NEW what \in {"plays", "tracks", "edits", "faults", "downs"}, NEW max,
           Spend(what, max)
    PROVE  used' \in [plays : Nat, tracks : Nat, edits : Nat, faults : Nat, downs : Nat]
BY DEF WorldTypes, Spend

\* What a step that leaves the watcher alone keeps of its task.
LEMMA TaskStays ==
    ASSUME TaskTypes, InHand, UNCHANGED <<pc, task, seen>>,
           queue # <<>> => line' = line,
           \A t \in Trigger : lease'[t].pkg = lease[t].pkg
    PROVE  TaskTypes'
BY DEF TaskTypes, InHand, Handling, Leased

LEMMA WorldTyped ==
    ASSUME Types, InHand, World
    PROVE  Types'
<1> USE DEF Types
<1>1. ASSUME NEW q \in Port, NEW p \in Package, NEW s \in Session, AppStarts(q, p, s)
      PROVE  Types'
  <2>1. Event("start", p, q, s) \in Written
    BY EventWritten
  <2>2. QueueTypes' /\ (queue # <<>> => line' = line)
    BY <1>1, <2>1, LogTypes DEF AppStarts
  <2>3. WorldTypes'
    BY <1>1, SpendTypes DEF AppStarts, WorldTypes, Played
  <2>4. FileTypes' /\ LeaseTypes' /\ TaskTypes'
    BY <1>1, <2>2, TaskStays DEF AppStarts, files, onFile, watcher, FileTypes, LeaseTypes, Runs
  <2> QED BY <2>2, <2>3, <2>4
<1>2. ASSUME NEW q \in Port, AppStops(q) PROVE Types'
  <2>1. apps[q].ses \in Session
    BY <1>2 DEF AppStops, WorldTypes, Played
  <2>2. WorldTypes'
    BY <1>2, <2>1 DEF AppStops, WorldTypes, Played
  <2>3. QueueTypes' /\ line' = line
    BY <1>2 DEF AppStops, QueueTypes, log, line
  <2>4. FileTypes' /\ LeaseTypes' /\ TaskTypes'
    BY <1>2, <2>3, TaskStays DEF AppStops, files, onFile, watcher, FileTypes, LeaseTypes, Runs
  <2> QED BY <2>2, <2>3, <2>4
<1>3. ASSUME NEW x \in late, StopLogged(x) PROVE Types'
  <2>1. Event("stop", None, x.port, x.ses) \in Written
    BY EventWritten DEF WorldTypes, Event, Written, Line
  <2>2. QueueTypes' /\ (queue # <<>> => line' = line)
    BY <1>3, <2>1, LogTypes DEF StopLogged
  <2>3. WorldTypes'
    BY <1>3 DEF StopLogged, WorldTypes
  <2>4. FileTypes' /\ LeaseTypes' /\ TaskTypes'
    BY <1>3, <2>2, TaskStays DEF StopLogged, files, onFile, watcher, FileTypes, LeaseTypes, Runs
  <2> QED BY <2>2, <2>3, <2>4
<1>4. ASSUME NEW p \in Package, VendorEvent(p) PROVE Types'
  <2>1. Event("track", p, None, None) \in Written
    BY DEF Event, Written, Line
  <2>2. QueueTypes' /\ (queue # <<>> => line' = line)
    BY <1>4, <2>1, LogTypes DEF VendorEvent
  <2>3. WorldTypes'
    BY <1>4, SpendTypes DEF VendorEvent, WorldTypes, outside
  <2>4. FileTypes' /\ LeaseTypes' /\ TaskTypes'
    BY <1>4, <2>2, TaskStays DEF VendorEvent, files, onFile, watcher, FileTypes, LeaseTypes, Runs
  <2> QED BY <2>2, <2>3, <2>4
<1>5. ASSUME NEW p \in Package, Edit(p) PROVE Types'
  <2>1. WorldTypes'
    BY <1>5, SpendTypes DEF Edit, WorldTypes
  <2>2. QueueTypes' /\ line' = line
    BY <1>5 DEF Edit, QueueTypes, log, line
  <2>3. FileTypes' /\ LeaseTypes' /\ TaskTypes'
    BY <1>5, <2>2, TaskStays DEF Edit, files, onFile, watcher, FileTypes, LeaseTypes, Runs
  <2> QED BY <2>1, <2>2, <2>3
<1>6. ASSUME Signal PROVE Types'
  <2>1. Event("wake", None, None, None) \in Written
    BY DEF Event, Written, Line
  <2>2. QueueTypes' /\ (queue # <<>> => line' = line)
    BY <1>6, <2>1, LogTypes DEF Signal
  <2>3. WorldTypes'
    BY <1>6 DEF Signal, WorldTypes
  <2>4. FileTypes' /\ LeaseTypes' /\ TaskTypes'
    BY <1>6, <2>2, TaskStays DEF Signal, files, onFile, watcher, FileTypes, LeaseTypes, Runs
  <2> QED BY <2>2, <2>3, <2>4
<1> QED BY <1>1, <1>2, <1>3, <1>4, <1>5, <1>6 DEF World

\* A stream, or its worker, changes its own lease and no package of a lease.
LEMMA StreamSteps ==
    ASSUME Types, NEW t \in Trigger, Stream(t)
    PROVE  /\ lease[t].pkg \in Package
           /\ lease' \in [Trigger -> LeaseType]
           /\ \A u \in Trigger \ {t} : lease'[u] = lease[u]
           /\ lease'[t].pkg = lease[t].pkg
           /\ lease'[t].worker \in {"waiting", "last"} => Runs(t)
<1> DEFINE Own == /\ lease' \in [Trigger -> LeaseType]
                  /\ \A u \in Trigger \ {t} : lease'[u] = lease[u]
                  /\ lease'[t].pkg = lease[t].pkg
                  /\ lease'[t].worker \in {"waiting", "last"} => Runs(t)
<1> USE DEF Types
<1>1. lease[t] \in LeaseType /\ lease \in [Trigger -> LeaseType]
  BY DEF LeaseTypes
<1>2. lease[t].pkg \in Package
  BY DEF LeaseTypes, Runs, Stream, Open, OpenFails, Ready, Look, Expire, Close, WorkerCleans,
         WorkerEnds, WorkerHears
<1>3. ASSUME NEW pr \in {"opening", "open", "ready", "holding", "closing", "gone"},
             \/ lease' = [lease EXCEPT ![t].proc = pr]
             \/ \E f \in {"session", "ready"} :
                    lease' = [lease EXCEPT ![t].proc = pr, ![t].file = f]
             \/ \E k \in Content \cup {"none"} :
                    lease' = [lease EXCEPT ![t].proc = pr, ![t].limit = k]
      PROVE  Own
  <2>1. CASE lease' = [lease EXCEPT ![t].proc = pr]
    BY <1>1, <2>1 DEF LeaseType, Runs
  <2>2. ASSUME NEW f \in {"session", "ready"},
               lease' = [lease EXCEPT ![t].proc = pr, ![t].file = f]
        PROVE  Own
    BY <1>1, <2>2 DEF LeaseType, Runs
  <2>3. ASSUME NEW k \in Content \cup {"none"},
               lease' = [lease EXCEPT ![t].proc = pr, ![t].limit = k]
        PROVE  Own
    BY <1>1, <2>3 DEF LeaseType, Runs
  <2> QED BY <1>3, <2>1, <2>2, <2>3
<1>4. CASE Open(t) \/ OpenFails(t) \/ Ready(t) \/ Expire(t) \/ Close(t)
  <2>1. \/ lease' = [lease EXCEPT ![t].proc = "open", ![t].file = "session"]
        \/ lease' = [lease EXCEPT ![t].proc = "ready", ![t].file = "ready"]
        \/ lease' = [lease EXCEPT ![t].proc = "gone"]
        \/ lease' = [lease EXCEPT ![t].proc = "closing"]
    BY <1>4 DEF Open, OpenFails, Ready, Expire, Close, Becomes
  <2> QED BY <1>2, <1>3, <2>1
<1>5. CASE Look(t)
  <2>1. token[lease[t].pkg] \in Content \cup {"none"}
    BY <1>2 DEF FileTypes
  <2>2. PICK pr \in {"closing", "holding"} :
           lease' = [lease EXCEPT ![t].proc = pr, ![t].limit = token[lease[t].pkg]]
    BY <1>5 DEF Look
  <2> QED BY <1>2, <1>3, <2>1, <2>2
<1>6. CASE WorkerCleans(t)
  <2>1. lease' = [lease EXCEPT ![t].worker = "last", ![t].file = "none"] /\ Runs(t)
    BY <1>6 DEF WorkerCleans, Runs
  <2> QED BY <1>1, <1>2, <2>1 DEF LeaseType, Runs
<1>7. CASE WorkerEnds(t)
  <2>1. lease' = [lease EXCEPT ![t].worker = "gone"]
    BY <1>7 DEF WorkerEnds
  <2> QED BY <1>1, <1>2, <2>1 DEF LeaseType, Runs
<1>8. CASE WorkerHears(t)
  <2>1. PICK o : lease' = Killed({t}, o)
    BY <1>8 DEF WorkerHears
  <2>2. Killed({t}, o)[t].worker = "gone"
    BY <1>1, KilledFacts
  <2> QED BY <1>1, <1>2, <2>1, <2>2, KilledFacts
<1> QED BY <1>4, <1>5, <1>6, <1>7, <1>8 DEF Stream

LEMMA StreamTyped ==
    ASSUME Types, InHand, NEW t \in Trigger, Stream(t)
    PROVE  Types'
<1> USE DEF Types
<1>1. \A u \in Trigger : lease'[u] = lease[u] \/ (u = t /\ lease'[u].pkg \in Package)
  BY StreamSteps
<1>2. lease[t].pkg \in Package
  BY StreamSteps
<1>3. LeaseTypes' /\ \A u \in Trigger : lease'[u].pkg = lease[u].pkg
  BY <1>1, <1>2, StreamSteps DEF LeaseTypes, Runs
<1>4. QueueTypes' /\ (queue # <<>> => line' = line)
  <2>1. t \in Port \cup Trigger /\ t \in Session \cup Trigger /\ t \notin Port
    BY Distinct
  <2>2. CASE Open(t)
    BY <1>2, <2>1, <2>2, EventWritten, LogTypes DEF Open
  <2>3. CASE Close(t)
    BY <1>2, <2>1, <2>3, EventWritten, LogTypes DEF Close
  <2>4. CASE ~Open(t) /\ ~Close(t)
    <3>1. UNCHANGED log
      BY <2>4 DEF Stream, OpenFails, Ready, Look, Expire, WorkerCleans, WorkerEnds, WorkerHears
    <3> QED BY <3>1 DEF log, QueueTypes, line
  <2> QED BY <2>2, <2>3, <2>4
<1>5. /\ UNCHANGED <<pc, task, seen, apps, late, allowed, edited, listening, marker, ports, leaked,
                   unnamed>>
      /\ NoFault \/ Fault
  BY DEF Stream, Open, OpenFails, Ready, Look, Expire, Close, WorkerCleans, WorkerEnds, WorkerHears,
         Outside, watcher, outside, onFile
<1>6. WorldTypes'
  BY <1>5, SpendTypes DEF WorldTypes, NoFault, Fault
<1>7. FileTypes'
  <2>1. token' = token \/ token' = [token EXCEPT ![lease[t].pkg] = "none"]
    BY DEF Stream, Open, OpenFails, Ready, Look, Expire, Close, WorkerCleans, WorkerEnds, WorkerHears
  <2>2. /\ record' = record \/ record' = [record EXCEPT ![lease[t].pkg] = None]
        /\ owner' = owner \/ owner' = [owner EXCEPT ![lease[t].pkg] = None]
    BY DEF Stream, Open, OpenFails, Ready, Look, Expire, Close, WorkerCleans, WorkerEnds, WorkerHears
  <2> QED BY <1>5, <2>1, <2>2 DEF FileTypes
<1>8. TaskTypes'
  BY <1>3, <1>4, <1>5, TaskStays
<1> QED BY <1>3, <1>4, <1>6, <1>7, <1>8

-----------------------------------------------------------------------------
(* Types: the watcher.                                                     *)

\* The removal of session files leaves a lease its package, too.
LEMMA UnfiledFacts ==
    ASSUME NEW leases \in [Trigger -> LeaseType], NEW packages, NEW file \in {"none", "lost"}
    PROVE  /\ Unfiled(leases, packages, file) \in [Trigger -> LeaseType]
           /\ \A t \in Trigger :
                 LET u == Unfiled(leases, packages, file)[t]
                 IN u.pkg = leases[t].pkg /\ u.proc = leases[t].proc /\ u.worker = leases[t].worker
BY DEF Unfiled, LeaseType

\* A lease that keeps its package keeps the types.
LEMMA LeaseStays ==
    ASSUME LeaseTypes, NEW L \in [Trigger -> LeaseType],
           \A t \in Trigger : /\ L[t].pkg = lease[t].pkg
                              /\ L[t].proc # "none" => lease[t].proc # "none" \/ L[t].pkg \in Package
                              /\ L[t].worker \in {"waiting", "last"} =>
                                    Runs(t) \/ L[t].pkg \in Package,
           lease' = L
    PROVE  LeaseTypes'
BY DEF LeaseTypes, Runs

LEMMA UnfiledTypes ==
    ASSUME LeaseTypes, NEW packages, NEW file \in {"none", "lost"},
           lease' = Unfiled(lease, packages, file)
    PROVE  LeaseTypes' /\ \A t \in Trigger : lease'[t].pkg = lease[t].pkg
<1> DEFINE U == Unfiled(lease, packages, file)
<1>1. /\ U \in [Trigger -> LeaseType]
      /\ \A t \in Trigger : /\ U[t].pkg = lease[t].pkg
                            /\ U[t].proc = lease[t].proc /\ U[t].worker = lease[t].worker
  BY UnfiledFacts DEF LeaseTypes
<1>2. lease' = U
  OBVIOUS
<1> HIDE DEF U
<1> QED BY <1>1, <1>2, LeaseStays DEF Runs

LEMMA FinishTypes ==
    ASSUME TaskTypes, QueueTypes, InHand, Finish, pc \in Working \cup {"release"}, seen' = seen
    PROVE  QueueTypes' /\ TaskTypes'
<1>1. queue # <<>>
  BY DEF InHand, Working, Granting, Handling
<1>2. task.back \in {"idle", "reconcile", "decide"}
  BY DEF InHand
<1>3. QueueTypes' /\ pc' = task.back /\ (task.back # "idle" => line' = line)
  BY <1>1, GotoTypes DEF Finish
<1>4. task' = NoTask
  BY DEF Finish
<1> QED BY <1>2, <1>3, <1>4
        DEF TaskTypes, NoTask, Label, Running, Handling, Working, Granting, Leased

\* A handler goes on with the same task.
LEMMA GoesOn ==
    ASSUME TaskTypes, QueueTypes, InHand, pc \in Working,
           NEW label \in Working \ {"revoke"}, Goto(label),
           label \in Leased => pc \in Leased,
           \A t \in Trigger : lease'[t].pkg = lease[t].pkg,
           UNCHANGED <<task, seen>>
    PROVE  QueueTypes' /\ TaskTypes'
<1>1. queue # <<>> /\ label # "idle" /\ label \in Label /\ task.back # "decide"
  BY DEF InHand, Working, Granting, Handling, Label, Running
<1>2. QueueTypes' /\ pc' = label /\ line' = line
  BY <1>1, GotoTypes
<1> QED BY <1>1, <1>2 DEF TaskTypes, Working, Granting, Leased

\* A line is done with, or a task is taken up for it.
LEMMA TakesUp ==
    ASSUME TaskTypes, task.back = "idle", UNCHANGED seen, pc' \in Label,
           \/ /\ UNCHANGED task /\ pc' \in {"idle", "decide"}
              /\ pc' = "decide" => line'.pkg \in Package
           \/ /\ pc' \in {"release", "alive", "revoke"}
              /\ \E p \in Package, k \in Kind \cup {"none"}, b \in BOOLEAN, r \in {"idle", "decide"} :
                    /\ task' = Task(p, k, b, r)
                    /\ r = "decide" => line'.pkg \in Package
    PROVE  TaskTypes'
<1>1. CASE UNCHANGED task /\ pc' \in {"idle", "decide"} /\ (pc' = "decide" => line'.pkg \in Package)
  BY <1>1 DEF TaskTypes, Working, Granting, Leased
<1>2. ASSUME NEW p \in Package, NEW k \in Kind \cup {"none"}, NEW b \in BOOLEAN,
             NEW r \in {"idle", "decide"}, pc' \in {"release", "alive", "revoke"},
             task' = Task(p, k, b, r), r = "decide" => line'.pkg \in Package
      PROVE  TaskTypes'
  BY <1>2 DEF TaskTypes, Task, Leased
<1> QED BY <1>1, <1>2

LEMMA ReadTyped ==
    ASSUME Types, InHand,
           Claim \/ Reconcile \/ HandleStart \/ Decide \/ HandleStop \/ HandleTrack \/ HandleWake
    PROVE  Types'
<1> USE DEF Types
<1>1. /\ UNCHANGED <<apps, late, allowed, edited, listening, lease, token, record, owner, unnamed>>
      /\ marker' \in BOOLEAN /\ (NoFault \/ Fault)
  BY DEF Claim, Reconcile, HandleStart, Decide, HandleStop, HandleTrack, HandleWake, Quiet,
         outside, files, onFile, NoFault, WorldTypes
<1>2. WorldTypes' /\ LeaseTypes'
  BY <1>1, SpendTypes DEF WorldTypes, LeaseTypes, NoFault, Fault, Runs
<1>3. CASE Claim \/ Reconcile
  <2>1. /\ pc \in {"idle", "reconcile"} /\ queue # <<>> /\ seen \subseteq Package
        /\ UNCHANGED <<ports, leaked>>
        /\ \E label \in {"reconcile", "handle", "revoke"} : Goto(label)
        /\ task.back = "idle"
        /\ seen' \subseteq Package
        /\ \/ pc' \in {"reconcile", "handle"} /\ UNCHANGED task
           \/ \E p \in Package, k \in Kind :
                 task' = Task(p, k, allowed[p], "reconcile") /\ pc' = "revoke"
    BY <1>3 DEF Claim, Reconcile, Goto, files, onFile, Kind, TaskTypes, InHand, Handling, Working,
                Granting
  <2>2. QueueTypes' /\ line' = line
    BY <2>1, GotoTypes
  <2>3. TaskTypes'
    BY <1>1, <2>1, <2>2 DEF TaskTypes, Task, WorldTypes, Label, Running, Handling, Working,
                            Granting, Leased
  <2> QED BY <1>1, <1>2, <2>1, <2>2, <2>3 DEF FileTypes
<1>4. CASE HandleStart \/ HandleStop \/ HandleTrack \/ HandleWake
  <2>1. /\ pc \in {"idle", "handle"} /\ queue # <<>> /\ task.back = "idle" /\ UNCHANGED seen
        /\ line \in Written
    BY <1>4, HeadIsWritten
       DEF HandleStart, HandleStop, HandleTrack, HandleWake, Begins, Quiet, InHand, Working,
           Granting
  <2>2. CASE HandleStart
    <3> DEFINE previous == ports[line.port]
               output == [pkg |-> line.pkg, ses |-> line.ses]
    <3>1. /\ line.pkg \in Package /\ line.port \in Port \cup Trigger
          /\ output \in Output /\ NoOutput \in Output /\ previous \in Output
          /\ previous.pkg \in Package \cup {None}
      BY <2>1, <2>2 DEF HandleStart, Begins, Written, Output, NoOutput, FileTypes
    <3>2. FileTypes'
      <4>1. ports' = ports \/ \E o \in Output : ports' = [ports EXCEPT ![line.port] = o]
        BY <2>2, <3>1 DEF HandleStart, onFile
      <4>2. leaked' = leaked \/ leaked' = leaked \cup ({previous.pkg} \ {None})
        BY <2>2 DEF HandleStart, onFile
      <4> QED BY <1>1, <3>1, <4>1, <4>2 DEF FileTypes
    <3>3. \/ Goto("idle") /\ UNCHANGED task
          \/ Goto("decide") /\ UNCHANGED task
          \/ /\ Goto("release") /\ previous.pkg \in Package
             /\ task' = Task(previous.pkg, "none", FALSE, "decide")
      BY <2>2, <3>1 DEF HandleStart
    <3>4. /\ QueueTypes' /\ pc' \in {"idle", "decide", "release"}
          /\ pc' # "idle" => line' = line
      BY <2>1, <3>3, GotoTypes
    <3>5. pc' = "decide" \/ pc' = "release" => line'.pkg \in Package
      BY <3>1, <3>4
    <3>6. TaskTypes'
      <4>1. CASE UNCHANGED task
        BY <2>1, <3>3, <3>4, <3>5, <4>1, TakesUp DEF Goto, Label, Running, Handling
      <4>2. CASE Goto("release") /\ previous.pkg \in Package
                 /\ task' = Task(previous.pkg, "none", FALSE, "decide")
        BY <2>1, <3>5, <4>2, TakesUp DEF Goto, Label, Running, Handling
      <4> QED BY <3>3, <4>1, <4>2
    <3> QED BY <1>2, <3>2, <3>4, <3>6
  <2>3. CASE HandleStop
    <3> DEFINE current == ports[line.port]
    <3>1. /\ line.port \in Port \cup Trigger /\ NoOutput \in Output /\ current \in Output
          /\ current.pkg \in Package \cup {None}
      BY <2>1, <2>3 DEF HandleStop, Begins, Written, Output, NoOutput, FileTypes
    <3>2. FileTypes'
      BY <1>1, <2>3, <3>1 DEF HandleStop, FileTypes
    <3>3. \/ Goto("idle") /\ UNCHANGED task
          \/ /\ Goto("release") /\ current.pkg \in Package
             /\ task' = Task(current.pkg, "none", FALSE, "idle")
      BY <2>3, <3>1 DEF HandleStop
    <3>4. QueueTypes' /\ pc' \in {"idle", "release"}
      BY <2>1, <3>3, GotoTypes
    <3>5. TaskTypes'
      BY <2>1, <3>3, TakesUp DEF Goto, Label, Running, Handling
    <3> QED BY <1>2, <3>2, <3>4, <3>5
  <2>4. CASE HandleTrack \/ HandleWake
    <3>1. /\ UNCHANGED <<ports, leaked>>
          /\ \/ Goto("idle") /\ UNCHANGED task
             \/ /\ Goto("alive") /\ line.pkg \in Package
                /\ task' = Task(line.pkg, "fallback", TRUE, "idle")
      BY <2>1, <2>4 DEF HandleTrack, HandleWake, Begins, files, onFile, Written
    <3>2. QueueTypes' /\ pc' \in {"idle", "alive"}
      BY <2>1, <3>1, GotoTypes
    <3>3. TaskTypes'
      BY <2>1, <3>1, TakesUp DEF Goto, Kind, Label, Running, Handling
    <3> QED BY <1>1, <1>2, <3>1, <3>2, <3>3 DEF FileTypes
  <2> QED BY <1>4, <2>2, <2>3, <2>4
<1>5. CASE Decide
  <2>1. /\ pc = "decide" /\ queue # <<>> /\ UNCHANGED <<ports, leaked, seen>>
        /\ line.pkg \in Package
        /\ task' = Task(line.pkg, "policy", allowed[line.pkg], "idle")
        /\ \E label \in {"alive", "revoke"} : Goto(label)
    BY <1>5 DEF Decide, Quiet, files, onFile, InHand, Handling, TaskTypes
  <2>2. QueueTypes' /\ pc' \in {"alive", "revoke"}
    BY <2>1, GotoTypes
  <2>3. TaskTypes'
    BY <1>1, <2>1, <2>2 DEF TaskTypes, Task, WorldTypes, Kind, Label, Running, Handling, Working,
                            Granting, Leased
  <2> QED BY <1>1, <1>2, <2>1, <2>2, <2>3 DEF FileTypes
<1> QED BY <1>3, <1>4, <1>5

\* What promote_lease_token writes.
LEMMA GrantedType ==
    ASSUME FileTypes, TaskTypes, task.pkg \in Package,
           NEW left \in Botched(token[task.pkg], task.kind)
    PROVE  [token EXCEPT ![task.pkg] = left] \in [Package -> Content \cup {"none"}]
BY DEF FileTypes, TaskTypes, Botched, Content

\* The tasks, up to the fork.
LEMMA WorkTyped ==
    ASSUME Types, InHand, Release \/ Revoke \/ Stop \/ Forget \/ Alive \/ Promote
    PROVE  Types'
<1> USE DEF Types
<1>1. /\ UNCHANGED <<apps, late, allowed, edited, listening, marker, seen, ports, leaked, unnamed>>
      /\ NoFault \/ Fault
  BY DEF Release, Revoke, Stop, Forget, Alive, Promote, Quiet, outside, files, onFile
<1>2. WorldTypes'
  BY <1>1, SpendTypes DEF WorldTypes, NoFault, Fault
<1>3. CASE Release \/ Promote
  <2>1. Finish /\ pc \in Working \cup {"release"} /\ UNCHANGED <<lease, record, owner>>
    BY <1>3 DEF Release, Promote, Working, Granting
  <2>2. token' \in [Package -> Content \cup {"none"}]
    <3>1. task.pkg \in Package
      BY <2>1 DEF TaskTypes
    <3>2. CASE Release
      BY <3>2 DEF Release, FileTypes
    <3>3. CASE Promote
      <4>1. PICK left \in Botched(token[task.pkg], task.kind) :
               token' = [token EXCEPT ![task.pkg] = left]
        BY <3>3, PromotedIsBotched DEF Promote
      <4> QED BY <3>1, <4>1, GrantedType
    <3> QED BY <1>3, <3>2, <3>3
  <2>3. QueueTypes' /\ TaskTypes'
    BY <1>1, <2>1, FinishTypes
  <2> QED BY <1>1, <1>2, <2>1, <2>2, <2>3 DEF FileTypes, LeaseTypes, Runs
<1>4. CASE Revoke \/ Stop
  <2>1. \E label \in {"stop", "forget"} : Goto(label)
    BY <1>4 DEF Revoke, Stop
  <2>2. FileTypes'
    BY <1>1, <1>4 DEF Revoke, Stop, FileTypes, files, onFile
  <2>3. LeaseTypes' /\ \A t \in Trigger : lease'[t].pkg = lease[t].pkg
    <3>1. CASE lease' = lease
      BY <3>1 DEF LeaseTypes, Runs
    <3>2. CASE \E v, o : lease' = Killed(v, o)
      BY <3>2, KilledFacts, LeaseStays DEF LeaseTypes, Runs
    <3> QED BY <1>4, <3>1, <3>2 DEF Revoke, Stop
  <2>4. pc \in Working /\ UNCHANGED task
    BY <1>4 DEF Revoke, Stop, Working, Granting
  <2>5. QueueTypes' /\ TaskTypes'
    BY <1>1, <2>1, <2>3, <2>4, GoesOn DEF Working, Granting, Leased
  <2> QED BY <1>2, <2>2, <2>3, <2>5
<1>5. CASE Forget \/ Alive
  <2>1. FileTypes'
    BY <1>1, <1>5 DEF Forget, Alive, FileTypes, files, onFile
  <2>2. LeaseTypes' /\ \A t \in Trigger : lease'[t].pkg = lease[t].pkg
    <3>1. CASE lease' = lease
      BY <3>1 DEF LeaseTypes, Runs
    <3>2. CASE lease' = Unfiled(lease, {task.pkg}, "none")
      BY <3>2, UnfiledTypes
    <3> QED BY <1>5, <3>1, <3>2 DEF Forget, Alive
  <2>3. pc \in Working
    BY <1>5 DEF Forget, Alive, Working, Granting
  <2>4. CASE Finish
    BY <1>1, <1>2, <2>1, <2>2, <2>3, <2>4, FinishTypes
  <2>5. CASE UNCHANGED task /\ \E label \in {"alive", "promote", "prepare"} : Goto(label)
    <3>1. QueueTypes' /\ TaskTypes'
      BY <1>1, <2>2, <2>3, <2>5, GoesOn DEF Working, Granting, Leased
    <3> QED BY <1>2, <2>1, <2>2, <3>1
  <2> QED BY <1>5, <2>4, <2>5 DEF Forget, Alive
<1> QED BY <1>3, <1>4, <1>5

\* The lease that Prepare takes is nobody's.
LEMMA PrepareSteps ==
    ASSUME Types, Prepare, pc' = "fork"
    PROVE  /\ token' = [token EXCEPT ![task.pkg] = Promoted(@, task.kind)]
           /\ \E t \in Trigger :
                 /\ lease[t].pkg = None /\ task' = [task EXCEPT !.trigger = t]
                 /\ lease' = [Unfiled(lease, {task.pkg}, "none") EXCEPT
                                 ![t].pkg = task.pkg, ![t].file = "empty"]
<1>1. pc = "prepare" /\ (Finish => task.back = "fork")
  BY DEF Prepare, Finish, Goto
<1>2. task.back # "fork"
  BY DEF Types, TaskTypes
<1> QED BY <1>1, <1>2 DEF Prepare

LEMMA PrepareTyped ==
    ASSUME Types, InHand, Prepare
    PROVE  Types'
<1> USE DEF Types
<1>1. /\ UNCHANGED <<apps, late, allowed, edited, listening, marker, seen, ports, leaked, unnamed,
                   owner>>
      /\ NoFault \/ Fault
      /\ pc = "prepare" /\ pc \in Working /\ record' = [record EXCEPT ![task.pkg] = None]
  BY DEF Prepare, Quiet, outside, onFile, Working, Granting
<1>2. WorldTypes'
  BY <1>1, SpendTypes DEF WorldTypes, NoFault, Fault
<1>3. FileTypes'
  <2>1. token' \in [Package -> Content \cup {"none"}]
    <3>1. task.pkg \in Package
      BY <1>1 DEF TaskTypes
    <3>2. \/ token' = token
          \/ \E left \in Botched(token[task.pkg], task.kind) :
                token' = [token EXCEPT ![task.pkg] = left]
      BY PromotedIsBotched DEF Prepare
    <3> QED BY <3>1, <3>2, GrantedType DEF FileTypes
  <2> QED BY <1>1, <2>1 DEF FileTypes
<1>4. CASE Finish /\ lease' \in {lease, Unfiled(lease, {task.pkg}, "none")}
  <2>1. LeaseTypes'
    <3>1. CASE lease' = lease
      BY <3>1 DEF LeaseTypes, Runs
    <3>2. CASE lease' = Unfiled(lease, {task.pkg}, "none")
      BY <3>2, UnfiledTypes
    <3> QED BY <1>4, <3>1, <3>2
  <2>2. QueueTypes' /\ TaskTypes'
    BY <1>1, <1>4, FinishTypes
  <2> QED BY <1>2, <1>3, <2>1, <2>2
<1>5. CASE Goto("fork")
  <2>1. queue # <<>>
    BY <1>1 DEF InHand, Handling
  <2>2. QueueTypes' /\ pc' = "fork"
    BY <1>1, <1>5, <2>1, GotoTypes
  <2>3. PICK t \in Trigger :
           /\ task' = [task EXCEPT !.trigger = t]
           /\ lease' = [Unfiled(lease, {task.pkg}, "none") EXCEPT
                           ![t].pkg = task.pkg, ![t].file = "empty"]
    BY <2>2, PrepareSteps
  <2>4. task.pkg \in Package
    BY <1>1 DEF TaskTypes, Working
  <2>5. LeaseTypes' /\ lease'[t].pkg = task.pkg
    <3> DEFINE U == Unfiled(lease, {task.pkg}, "none")
    <3>1. /\ U \in [Trigger -> LeaseType]
          /\ \A u \in Trigger : /\ U[u].pkg = lease[u].pkg
                                /\ U[u].proc = lease[u].proc /\ U[u].worker = lease[u].worker
      BY UnfiledFacts DEF LeaseTypes
    <3> HIDE DEF U
    <3>2. lease' = [U EXCEPT ![t].pkg = task.pkg, ![t].file = "empty"]
      BY <2>3 DEF U
    <3>3. /\ lease' \in [Trigger -> LeaseType]
          /\ \A u \in Trigger : /\ lease'[u].pkg = IF u = t THEN task.pkg ELSE lease[u].pkg
                                /\ lease'[u].proc = lease[u].proc
                                /\ lease'[u].worker = lease[u].worker
      <4>1. ASSUME NEW x \in LeaseType
            PROVE  [[x EXCEPT !.pkg = task.pkg] EXCEPT !.file = "empty"] \in LeaseType
        BY <2>4 DEF LeaseType
      <4>2. lease' = [U EXCEPT ![t] = [[U[t] EXCEPT !.pkg = task.pkg] EXCEPT !.file = "empty"]]
        BY <3>1, <3>2
      <4>3. ASSUME NEW x \in LeaseType
            PROVE  LET y == [[x EXCEPT !.pkg = task.pkg] EXCEPT !.file = "empty"]
                   IN y.pkg = task.pkg /\ y.proc = x.proc /\ y.worker = x.worker
        BY DEF LeaseType
      <4> QED BY <3>1, <4>1, <4>2, <4>3
    <3> QED BY <2>4, <3>3 DEF LeaseTypes, Runs
  <2>6. TaskTypes'
    <3>1. /\ task'.pkg = task.pkg /\ task'.trigger = t /\ task'.back = task.back
          /\ task' \in [pkg : Package \cup {None}, kind : Kind \cup {"none"}, start : BOOLEAN,
                        trigger : Trigger \cup {None}, back : {"idle", "reconcile", "decide"}]
      BY <2>3 DEF TaskTypes
    <3>2. task.back # "decide"
      BY <1>1 DEF InHand
    <3> QED BY <1>1, <2>2, <2>4, <2>5, <3>1, <3>2
            DEF TaskTypes, Label, Running, Handling, Working, Granting, Leased
  <2> QED BY <1>2, <1>3, <2>2, <2>5, <2>6
<1> QED BY <1>4, <1>5 DEF Prepare

\* What start_lease_owned does to its lease.
LEMMA LeasedSteps ==
    ASSUME Types, Fork \/ Record \/ Await \/ GiveUp \/ Drain
    PROVE  /\ task.trigger \in Trigger /\ task.pkg \in Package
           /\ lease' \in [Trigger -> LeaseType]
           /\ \A t \in Trigger :
                 /\ lease'[t].pkg = lease[t].pkg
                 /\ t # task.trigger /\ lease'[t].proc # "none" => lease[t].proc # "none"
                 /\ t # task.trigger => lease'[t].worker = lease[t].worker
                 /\ pc # "fork" => lease'[t].worker = lease[t].worker
<1> USE DEF Types
<1>1. /\ task.trigger \in Trigger /\ task.pkg \in Package
      /\ lease \in [Trigger -> LeaseType] /\ \A t \in Trigger : lease[t] \in LeaseType
  BY DEF Fork, Record, Await, GiveUp, Drain, TaskTypes, LeaseTypes, Working, Leased
<1>2. ASSUME NEW L \in [Trigger -> LeaseType], lease' = [L EXCEPT ![task.trigger].file = "none"]
      PROVE  /\ lease' \in [Trigger -> LeaseType]
             /\ \A t \in Trigger : /\ lease'[t].pkg = L[t].pkg /\ lease'[t].proc = L[t].proc
                                   /\ lease'[t].worker = L[t].worker
  BY <1>1, <1>2 DEF LeaseType
<1>3. CASE lease' = lease
  BY <1>1, <1>3
<1>4. CASE lease' = [lease EXCEPT ![task.trigger].file = "none"]
  BY <1>1, <1>2, <1>4
<1>5. CASE pc = "fork" /\ lease' = [lease EXCEPT ![task.trigger].worker = "waiting",
                                                 ![task.trigger].proc = "opening"]
  <2>1. ASSUME NEW x \in LeaseType
        PROVE  LET y == [[x EXCEPT !.worker = "waiting"] EXCEPT !.proc = "opening"]
               IN y \in LeaseType /\ y.pkg = x.pkg
    BY DEF LeaseType
  <2> DEFINE y == [[lease[task.trigger] EXCEPT !.worker = "waiting"] EXCEPT !.proc = "opening"]
  <2>2. lease' = [lease EXCEPT ![task.trigger] = y]
    BY <1>1, <1>5
  <2>3. y \in LeaseType /\ y.pkg = lease[task.trigger].pkg
    BY <1>1, <2>1
  <2> HIDE DEF y
  <2> QED BY <1>1, <1>5, <2>2, <2>3
<1>6. CASE lease' = [Told({task.trigger}) EXCEPT ![task.trigger].file = "none"]
  <2> DEFINE K == Told({task.trigger})
  <2>1. /\ K \in [Trigger -> LeaseType]
        /\ \A t \in Trigger : /\ K[t].pkg = lease[t].pkg /\ K[t].proc = lease[t].proc
                              /\ K[t].worker = lease[t].worker
    BY <1>1, ToldFacts
  <2>2. lease' = [K EXCEPT ![task.trigger].file = "none"]
    BY <1>6
  <2> HIDE DEF K
  <2> QED BY <1>1, <1>2, <2>1, <2>2
<1>7. CASE Fork
  BY <1>1, <1>4, <1>5, <1>7 DEF Fork
<1>8. CASE Record
  BY <1>1, <1>3, <1>4, <1>6, <1>8 DEF Record
<1>9. CASE Await \/ GiveUp \/ Drain
  BY <1>1, <1>3, <1>4, <1>9 DEF Await, GiveUp, Drain, files
<1> QED BY <1>7, <1>8, <1>9

LEMMA LeasedTyped ==
    ASSUME Types, InHand, Fork \/ Record \/ Await \/ GiveUp \/ Drain
    PROVE  Types'
<1> USE DEF Types
<1>1. /\ UNCHANGED <<apps, late, allowed, edited, listening, marker, seen, ports, leaked>>
      /\ NoFault \/ Fault
      /\ pc \in Leased /\ pc \in Working
  BY DEF Fork, Record, Await, GiveUp, Drain, Quiet, outside, files, onFile, Working, Leased
<1>2. WorldTypes'
  BY <1>1, SpendTypes DEF WorldTypes, NoFault, Fault
<1>3. task.trigger \in Trigger /\ task.pkg \in Package /\ lease[task.trigger].pkg = task.pkg
  BY <1>1 DEF TaskTypes
<1>4. LeaseTypes' /\ \A t \in Trigger : lease'[t].pkg = lease[t].pkg
  BY <1>3, LeasedSteps DEF LeaseTypes, Runs
<1>5. FileTypes'
  <2>1. token' = token \/ token' = [token EXCEPT ![task.pkg] = "none"]
    BY DEF Fork, Record, Await, GiveUp, Drain, files
  <2>2. /\ record' \in {record, [record EXCEPT ![task.pkg] = task.trigger],
                        [record EXCEPT ![task.pkg] = None]}
        /\ owner' \in {owner, [owner EXCEPT ![task.pkg] = task.trigger],
                       [owner EXCEPT ![task.pkg] = None]}
    BY DEF Fork, Record, Await, GiveUp, Drain, files
  <2>3. unnamed' = unnamed \/ unnamed' = unnamed \cup {task.pkg}
    BY DEF Fork, Record, Await, GiveUp, Drain, files, onFile
  <2> QED BY <1>1, <1>3, <2>1, <2>2, <2>3 DEF FileTypes
<1>6. CASE Finish
  BY <1>1, <1>2, <1>4, <1>5, <1>6, FinishTypes
<1>7. CASE UNCHANGED task /\ \E label \in {"record", "await", "giveup", "drain"} : Goto(label)
  <2>1. QueueTypes' /\ TaskTypes'
    BY <1>1, <1>4, <1>7, GoesOn DEF Working, Granting, Leased
  <2> QED BY <1>2, <1>4, <1>5, <2>1
<1> QED BY <1>6, <1>7 DEF Fork, Record, Await, GiveUp, Drain

-----------------------------------------------------------------------------
(* Types: the end of logcat, and of the watcher.                           *)

LEMMA LifeTyped ==
    ASSUME Types, InHand, Life
    PROVE  Types'
<1> USE DEF Types
<1>1. /\ UNCHANGED <<apps, late, allowed, edited, leaked, unnamed, task, seen, used>>
      /\ listening' \in BOOLEAN /\ marker' \in BOOLEAN
      /\ task.back # "decide" /\ pc \notin Working \cup {"release"}
      /\ pc' \in Label \ (Working \cup {"release", "decide"})
      /\ task.back = "idle"
  BY DEF Life, EndOfFile, Reset, Reap, Cleanup, Grace, Sweep, Restart, Goto, outside, files,
         onFile, WorldTypes, InHand, Label, Running, Handling, Working, Granting
<1>2. WorldTypes' /\ TaskTypes'
  BY <1>1 DEF WorldTypes, TaskTypes, Working, Leased
<1>3. QueueTypes'
  <2>1. UNCHANGED last /\ (queue' \in {queue, <<>>} \/ (last # None /\ queue' = <<last>>))
    BY DEF Life, EndOfFile, Reset, Reap, Cleanup, Grace, Sweep, Restart, Goto, Handling
  <2>2. last # None => <<last>> \in Seq(Written)
    BY DEF QueueTypes
  <2>3. <<>> \in Seq(Written)
    OBVIOUS
  <2> QED BY <2>1, <2>2, <2>3 DEF QueueTypes
<1>4. FileTypes'
  <2>1. /\ ports' \in {ports, NoPorts} /\ token' \in {token, NoTokens}
        /\ record' \in {record, NoFiles} /\ owner' \in {owner, NoFiles}
    BY DEF Life, EndOfFile, Reset, Reap, Cleanup, Grace, Sweep, Restart, files, onFile
  <2> QED BY <1>1, <2>1 DEF FileTypes, NoPorts, NoTokens, NoFiles, Output, NoOutput
<1>5. LeaseTypes'
  <2>1. CASE lease' = lease
    BY <2>1 DEF LeaseTypes, Runs
  <2>2. ASSUME NEW v, NEW o, lease' = Killed(v, o) PROVE LeaseTypes'
    BY <2>2, KilledFacts, LeaseStays DEF LeaseTypes, Runs
  <2>3. CASE lease' = Unfiled(lease, Package, "lost")
    BY <2>3, UnfiledTypes
  <2>4. ASSUME NEW v, lease' = Unfiled(Told(v), Package, "lost") PROVE LeaseTypes'
    <3> DEFINE K == Told(v)
               U == Unfiled(K, Package, "lost")
    <3>1. /\ K \in [Trigger -> LeaseType]
          /\ \A t \in Trigger : /\ K[t].pkg = lease[t].pkg /\ K[t].proc = lease[t].proc
                                /\ K[t].worker = lease[t].worker
      BY ToldFacts DEF LeaseTypes
    <3> HIDE DEF K
    <3>2. /\ U \in [Trigger -> LeaseType]
          /\ \A t \in Trigger : /\ U[t].pkg = K[t].pkg
                                /\ U[t].proc = K[t].proc /\ U[t].worker = K[t].worker
      BY <3>1, UnfiledFacts
    <3>3. lease' = U
      BY <2>4 DEF K
    <3> HIDE DEF U
    <3> QED BY <3>1, <3>2, <3>3, LeaseStays DEF Runs
  <2> QED BY <2>1, <2>2, <2>3, <2>4
          DEF Life, EndOfFile, Reset, Reap, Cleanup, Grace, Sweep, Restart, files
<1> QED BY <1>2, <1>3, <1>4, <1>5

LEMMA DeathTyped ==
    ASSUME Types, InHand, LogcatDies \/ Kill \/ Terminate
    PROVE  Types'
<1> USE DEF Types
<1>1. CASE LogcatDies
  <2>1. WorldTypes'
    BY <1>1, SpendTypes DEF LogcatDies, WorldTypes, outside
  <2>2. QueueTypes' /\ line' = line
    BY <1>1 DEF LogcatDies, QueueTypes, log, line
  <2>3. FileTypes' /\ LeaseTypes' /\ TaskTypes'
    BY <1>1, <2>2, TaskStays DEF LogcatDies, files, onFile, watcher, FileTypes, LeaseTypes, Runs
  <2> QED BY <2>1, <2>2, <2>3
<1>2. ASSUME NEW label \in {"down", "cleanup"}, Dies(label) PROVE Types'
  <2>1. WorldTypes'
    BY <1>2, SpendTypes DEF Dies, WorldTypes, outside
  <2>2. QueueTypes'
    <3>1. <<>> \in Seq(Written)
      OBVIOUS
    <3> QED BY <1>2, <3>1 DEF Dies, QueueTypes
  <2>3. FileTypes' /\ LeaseTypes'
    <3>1. unnamed' \subseteq Package
      BY <1>2 DEF Dies, FileTypes, TaskTypes, Working
    <3> QED BY <1>2, <3>1 DEF Dies, FileTypes, LeaseTypes, Runs
  <2>4. TaskTypes'
    BY <1>2 DEF Dies, TaskTypes, NoTask, Label, Working, Granting, Leased
  <2> QED BY <2>1, <2>2, <2>3, <2>4
<1> QED BY <1>1, <1>2 DEF Kill, Terminate

LEMMA InitTypes ==
    ASSUME Init
    PROVE  Types
<1>1. QueueTypes
  BY DEF Init, QueueTypes
<1>2. WorldTypes
  <2>1. apps \in [Port -> Played] /\ allowed \in [Package -> BOOLEAN]
    BY DEF Init, Played
  <2>2. used \in [plays : Nat, tracks : Nat, edits : Nat, faults : Nat, downs : Nat]
    BY DEF Init
  <2> QED BY <2>1, <2>2 DEF Init, WorldTypes
<1>3. FileTypes
  BY DEF Init, FileTypes, NoPorts, NoTokens, NoFiles, Output, NoOutput
<1>4. LeaseTypes
  <2>1. NoLease \in LeaseType
    BY DEF NoLease, LeaseType
  <2> QED BY <2>1 DEF Init, LeaseTypes, NoLease, Runs
<1>5. TaskTypes
  BY DEF Init, TaskTypes, NoTask, Label, Running, Working, Granting, Leased
<1> QED BY <1>1, <1>2, <1>3, <1>4, <1>5 DEF Types

LEMMA NextTypes ==
    ASSUME Types, InHand, [Next]_vars
    PROVE  Types'
<1>1. CASE UNCHANGED vars
  <2>1. line' = line
    BY <1>1 DEF vars, log, line
  <2> QED BY <1>1, <2>1 DEF vars, log, Types, WorldTypes, QueueTypes, FileTypes, LeaseTypes, Runs,
                            TaskTypes
<1>2. CASE Next
  BY <1>2, WorldTyped, ReadTyped, WorkTyped, PrepareTyped, LeasedTyped, LifeTyped, StreamTyped,
     DeathTyped DEF Next, Handler
<1> QED BY <1>1, <1>2

\* The types, with what they need: a line and a task name a package and a port
\* wherever a handler uses them.
THEOREM TypesHold == Spec => []Types
<1>1. Init => Types
  BY InitTypes
<1>2. LeaseInv => InHand
  BY DEF LeaseInv
<1>3. Types /\ InHand /\ [Next]_vars => Types'
  BY NextTypes
<1> QED BY <1>1, <1>2, <1>3, HandlersAreSound, PTL DEF Spec

\* The type invariant of AudioLease.
THEOREM TypeCorrect == Spec => []TypeOK
<1>1. Types => TypeOK
  <2> SUFFICES ASSUME Types PROVE TypeOK
    OBVIOUS
  <2> USE DEF Types
  <2>1. apps \in [Port -> Output]
    BY DEF WorldTypes, Played, Output
  <2>2. queue \in Seq(Line) /\ last \in Line \cup {None}
    <3>1. Written \subseteq Line
      BY DEF Written
    <3> QED BY <3>1 DEF QueueTypes
  <2>3. lease \in [Trigger -> LeaseType]
    BY DEF LeaseTypes
  <2> QED BY <2>1, <2>2, <2>3 DEF TypeOK, WorldTypes, FileTypes, TaskTypes, LeaseType
<1> QED BY <1>1, TypesHold, PTL

-----------------------------------------------------------------------------
(* Leases without a deadline.                                              *)

\* Only the writing of a token can leave it empty, and only when it fails.
EmptyHasFault == \A p \in Package : token[p] = "empty" => used.faults > 0

LEMMA EmptyIsNew ==
    ASSUME Types, Next, ~Promote, ~Prepare, NEW p \in Package
    PROVE  token'[p] \in {token[p], "none"}
<1>1. \/ token' = token
      \/ \E q : token' = [token EXCEPT ![q] = "none"]
      \/ token' = NoTokens
  <2>1. World => token' = token
    BY DEF World, AppStarts, AppStops, StopLogged, VendorEvent, Edit, Signal, files
  <2>2. CASE Handler
    BY <2>2 DEF Handler, Claim, Reconcile, HandleStart, Decide, HandleStop, HandleTrack, HandleWake,
                Release, Revoke, Stop, Forget, Alive, Fork, Record, Await, GiveUp, Drain, files
  <2>3. CASE Life \/ LogcatDies \/ Kill \/ Terminate
    BY <2>3 DEF Life, EndOfFile, Reset, Reap, Cleanup, Grace, Sweep, Restart, LogcatDies, Kill,
                Terminate, Dies, files
  <2>4. ASSUME NEW t \in Trigger, Stream(t)
        PROVE  token' = token \/ \E q : token' = [token EXCEPT ![q] = "none"]
    BY <2>4 DEF Stream, Open, OpenFails, Ready, Look, Expire, Close, WorkerCleans,
                WorkerEnds, WorkerHears
  <2> QED BY <2>1, <2>2, <2>3, <2>4 DEF Next
<1> QED BY <1>1 DEF Types, FileTypes, NoTokens

LEMMA FaultsCount ==
    ASSUME WorldTypes,
           \/ UNCHANGED used
           \/ \E what \in {"plays", "tracks", "edits", "faults", "downs"} : \E max : Spend(what, max)
    PROVE  /\ used.faults > 0 => used'.faults > 0
           /\ \A max : Spend("faults", max) => used'.faults > 0
<1>1. used.faults \in Nat
  BY DEF WorldTypes
<1>2. ASSUME NEW max, Spend("faults", max) PROVE used'.faults = used.faults + 1
  BY <1>2 DEF Spend, WorldTypes
<1>3. ASSUME NEW what \in {"plays", "tracks", "edits", "downs"}, NEW max, Spend(what, max)
      PROVE  used'.faults = used.faults
  BY <1>3 DEF Spend, WorldTypes
<1> QED BY <1>1, <1>2, <1>3

LEMMA SpendsOne ==
    ASSUME Next
    PROVE  \/ UNCHANGED used
           \/ \E what \in {"plays", "tracks", "edits", "faults", "downs"} : \E max : Spend(what, max)
BY DEF Next, World, AppStarts, AppStops, StopLogged, VendorEvent, Edit, Signal,
       Handler, Claim, Reconcile, HandleStart, Decide, HandleStop, HandleTrack, HandleWake,
       Release, Revoke, Stop, Forget, Alive, Promote, Prepare, Fork, Record, Await, GiveUp,
       Drain, Life, EndOfFile, Reset, Reap, Cleanup, Grace, Sweep, Restart,
       Stream, Open, OpenFails, Ready, Look, Expire, Close, WorkerCleans, WorkerEnds, WorkerHears,
       LogcatDies, Kill, Terminate, Dies, Fault, NoFault

LEMMA EmptyKeeps ==
    ASSUME Types, EmptyHasFault, [Next]_vars
    PROVE  EmptyHasFault'
<1> USE DEF Types
<1>1. CASE UNCHANGED vars
  BY <1>1 DEF vars, EmptyHasFault
<1>2. CASE Next
  <2>1. /\ used.faults > 0 => used'.faults > 0
        /\ Fault => used'.faults > 0
    BY <1>2, SpendsOne, FaultsCount DEF Fault
  <2>2. CASE ~Promote /\ ~Prepare
    BY <1>2, <2>1, <2>2, EmptyIsNew DEF EmptyHasFault
  <2>3. CASE (Promote \/ Prepare) /\ ~Fault
    <3>1. token' = token \/ token' = [token EXCEPT ![task.pkg] = Promoted(@, task.kind)]
      BY <2>3 DEF Promote, Prepare
    <3>2. task.kind # "empty"
      BY DEF TaskTypes, Kind
    <3>3. ASSUME NEW p \in Package, token'[p] = "empty" PROVE token[p] = "empty"
      BY <3>1, <3>2, <3>3 DEF Promoted, FileTypes
    <3> QED BY <2>1, <3>3 DEF EmptyHasFault
  <2> QED BY <2>1, <2>2, <2>3 DEF EmptyHasFault
<1> QED BY <1>1, <1>2

THEOREM EmptyTokensAreFaults == Spec => []EmptyHasFault
<1>1. Init => EmptyHasFault
  BY DEF Init, NoTokens, EmptyHasFault
<1>2. Types /\ EmptyHasFault /\ [Next]_vars => EmptyHasFault'
  BY EmptyKeeps
<1> QED BY <1>1, <1>2, TypesHold, PTL DEF Spec

\* A policy lease has an output on file, whatever lines come late, whoever gives
\* a port to whom and whenever the watcher dies; excepted is a package whose port
\* went to another while the port file could not be written.  The one other lease
\* without a deadline is a token that a failing write has left empty: that one
\* may have no output at all.
\* (policy_start, policy_stop, write_lease_token)
THEOREM LeaseHasReason == Spec => []PolicyHasPort
<1>1. LeaseInv /\ EmptyHasFault => PolicyHasPort
  BY DEF LeaseInv, PolicyOnFile, EmptyHasFault, PolicyHasPort, NoDeadline
<1> QED BY <1>1, HandlersAreSound, EmptyTokensAreFaults, PTL

-----------------------------------------------------------------------------
(* One worker.                                                             *)

\* A worker that runs is named by both files of its package, by PACKAGE only
\* from the step after the fork; or nothing is said of its package any more.
Named ==
    \A t \in Trigger : Runs(t) /\ lease[t].pkg \notin unnamed =>
        /\ owner[lease[t].pkg] = t
        /\ record[lease[t].pkg] = t \/ (pc = "record" /\ task.trigger = t)

\* Where the watcher has seen that no worker of its package runs, and where
\* the only one is its own.
Alone ==
    /\ pc \in {"prepare", "fork", "forget"} =>
          \A t \in Trigger : Runs(t) /\ lease[t].pkg \notin unnamed => lease[t].pkg # task.pkg
    /\ pc \in {"record", "await", "giveup", "drain"} =>
          \A t \in Trigger :
              Runs(t) /\ lease[t].pkg = task.pkg /\ task.pkg \notin unnamed => t = task.trigger

WorkersInv == used.downs = 0 => listening /\ pc \in Running /\ Named /\ Alone

\* A death is never forgotten.
LEMMA DeathsCount ==
    ASSUME WorldTypes,
           \/ UNCHANGED used
           \/ \E what \in {"plays", "tracks", "edits", "faults"} : \E max : Spend(what, max)
    PROVE  used'.downs = used.downs
BY DEF WorldTypes, Spend

\* A step after which only workers run that ran before, under the same names.
LEMMA NamesStay ==
    ASSUME Named, pc # "record" \/ UNCHANGED <<pc, task>>, UNCHANGED unnamed,
           \A t \in Trigger : lease'[t].worker \in {"waiting", "last"} /\ lease'[t].pkg \notin unnamed =>
               /\ Runs(t) /\ lease'[t].pkg = lease[t].pkg
               /\ owner'[lease[t].pkg] = owner[lease[t].pkg]
               /\ record'[lease[t].pkg] = record[lease[t].pkg]
    PROVE  Named'
BY DEF Named, Runs

\* Where the watcher asks nothing about workers, it is never wrong.
LEMMA NothingAsked ==
    ASSUME pc' \notin {"prepare", "fork", "forget", "record", "await", "giveup", "drain"}
    PROVE  Alone'
BY DEF Alone

LEMMA OthersKeep ==
    ASSUME Types, WorkersInv, World \/ \E t \in Trigger : Stream(t)
    PROVE  WorkersInv'
<1>1. UNCHANGED <<pc, task, listening, unnamed>> /\ used'.downs = used.downs
  <2>1. CASE World
    <3>1. UNCHANGED <<pc, task, listening, unnamed>>
      BY <2>1 DEF World, AppStarts, AppStops, StopLogged, VendorEvent, Edit, Signal, watcher, files,
                  onFile
    <3>2. \/ UNCHANGED used
          \/ \E what \in {"plays", "tracks", "edits", "faults"} : \E max : Spend(what, max)
      BY <2>1 DEF World, AppStarts, AppStops, StopLogged, VendorEvent, Edit, Signal
    <3> QED BY <3>1, <3>2, DeathsCount DEF Types
  <2>2. ASSUME NEW t \in Trigger, Stream(t)
        PROVE  UNCHANGED <<pc, task, listening, unnamed>> /\ used'.downs = used.downs
    <3>1. UNCHANGED <<pc, task, listening, unnamed>> /\ (NoFault \/ Fault)
      BY <2>2 DEF Stream, Open, OpenFails, Ready, Look, Expire, Close, WorkerCleans, WorkerEnds,
                  WorkerHears, Outside, watcher, onFile
    <3> QED BY <3>1, DeathsCount DEF Types, NoFault, Fault
  <2> QED BY <2>1, <2>2
<1>2. ASSUME NEW t \in Trigger, used.downs = 0, lease'[t].worker \in {"waiting", "last"},
             lease'[t].pkg \notin unnamed
      PROVE  /\ Runs(t) /\ lease'[t].pkg = lease[t].pkg
             /\ owner'[lease[t].pkg] = owner[lease[t].pkg]
             /\ record'[lease[t].pkg] = record[lease[t].pkg]
  <2>1. CASE World
    <3>1. UNCHANGED <<lease, owner, record>>
      BY <2>1 DEF World, AppStarts, AppStops, StopLogged, VendorEvent, Edit, Signal, files
    <3> QED BY <1>2, <3>1 DEF Runs
  <2>2. ASSUME NEW u \in Trigger, Stream(u)
        PROVE  /\ Runs(t) /\ lease'[t].pkg = lease[t].pkg
               /\ owner'[lease[t].pkg] = owner[lease[t].pkg]
               /\ record'[lease[t].pkg] = record[lease[t].pkg]
    <3>1. Runs(t) /\ lease'[t].pkg = lease[t].pkg
      BY <1>2, <2>2, StreamSteps DEF Runs
    <3>2. CASE UNCHANGED <<record, owner>>
      BY <3>1, <3>2
    <3>3. CASE WorkerEnds(u)
      <4>1. u # t
        BY <1>2, <3>3 DEF WorkerEnds, Types, LeaseTypes, LeaseType
      <4>2. owner[lease[t].pkg] = t
        BY <1>2, <3>1 DEF WorkersInv, Named
      <4>3. CASE owner[lease[u].pkg] = u
        <5>1. /\ record' = [record EXCEPT ![lease[u].pkg] = None]
              /\ owner' = [owner EXCEPT ![lease[u].pkg] = None]
              /\ lease[t].pkg # lease[u].pkg
          BY <3>3, <4>1, <4>2, <4>3 DEF WorkerEnds
        <5> QED BY <3>1, <5>1 DEF Types, FileTypes
      <4>4. CASE owner[lease[u].pkg] # u
        BY <3>1, <3>3, <4>4 DEF WorkerEnds
      <4> QED BY <4>3, <4>4
    <3> QED BY <2>2, <3>2, <3>3
            DEF Stream, Open, OpenFails, Ready, Look, Expire, Close, WorkerCleans, WorkerHears
  <2> QED BY <2>1, <2>2
<1>3. ASSUME used.downs = 0 PROVE Named' /\ Alone'
  <2>1. Named'
    BY <1>1, <1>2, <1>3, NamesStay DEF WorkersInv
  <2>2. Alone'
    BY <1>1, <1>2, <1>3 DEF WorkersInv, Alone, Runs
  <2> QED BY <2>1, <2>2
<1> QED BY <1>1, <1>3 DEF WorkersInv

\* Lines and tasks that are taken up.
LEMMA ReadKeeps ==
    ASSUME Types, WorkersInv, InHand,
           \/ Claim \/ Reconcile \/ HandleStart \/ Decide \/ HandleStop \/ HandleTrack
           \/ HandleWake \/ Release \/ Revoke \/ Promote
    PROVE  WorkersInv'
<1>1. /\ UNCHANGED <<listening, lease, owner, record, unnamed>> /\ (NoFault \/ Fault)
      /\ pc # "record"
      /\ pc' \in {"reconcile", "handle", "idle", "release", "decide", "alive", "revoke", "stop"}
  BY DEF Claim, Reconcile, HandleStart, Decide, HandleStop, HandleTrack, HandleWake, Release,
         Revoke, Promote, Begins, Quiet, files, onFile, Goto, Finish, NoFault, InHand
<1>2. used'.downs = used.downs /\ pc' \in Running
  BY <1>1, DeathsCount DEF Types, NoFault, Fault, Running, Handling
<1>3. used.downs = 0 => Named'
  BY <1>1, NamesStay DEF WorkersInv, Runs
<1> QED BY <1>1, <1>2, <1>3, NothingAsked DEF WorkersInv

\* stop_lease_for_reconcile finds the worker in PACKAGE.
LEMMA StopKeeps ==
    ASSUME Types, WorkersInv, InHand, Stop \/ Forget \/ Alive
    PROVE  WorkersInv'
<1> USE DEF Types
<1>1. /\ UNCHANGED <<listening, unnamed>> /\ NoFault /\ pc \in {"stop", "forget", "alive"}
      /\ pc' \in {"forget", "alive", "promote", "prepare", "idle", "reconcile", "decide"}
      /\ pc' # "idle" /\ pc' # "reconcile" /\ pc' # "decide" => UNCHANGED task
      /\ pc' \in {"forget", "prepare"} => pc \in {"stop", "alive"}
      /\ task.pkg \in Package
  BY DEF Stop, Forget, Alive, Quiet, files, onFile, Goto, Finish, InHand, TaskTypes, Working,
         Granting
<1>2. used'.downs = used.downs /\ pc' \in Running
  BY <1>1, DeathsCount DEF NoFault, Running, Handling
<1>3. /\ FileTypes /\ lease \in [Trigger -> LeaseType]
      /\ \A t \in Trigger : Runs(t) => lease[t].pkg \in Package
  BY DEF LeaseTypes
<1>4. ASSUME used.downs = 0 PROVE Named' /\ Alone'
  <2>1. Named /\ Alone
    BY <1>4 DEF WorkersInv
  <2>2. ASSUME NEW t \in Trigger, Runs(t), lease[t].pkg \notin unnamed
        PROVE  record[lease[t].pkg] = t /\ t # None
    BY <1>1, <2>1, <2>2, NoneAssumption DEF Named
  <2>3. CASE Stop
    <3>1. pc' = "forget" /\ UNCHANGED <<owner, record, task>>
      BY <2>3 DEF Stop, Goto, files
    <3>2. ASSUME NEW t \in Trigger, lease'[t].worker \in {"waiting", "last"},
                 lease'[t].pkg \notin unnamed
          PROVE  Runs(t) /\ lease'[t].pkg = lease[t].pkg /\ lease[t].pkg # task.pkg
      <4>1. CASE LeaseAlive(task.pkg)
        <5>1. PICK o : lease' = Killed({record[task.pkg]}, o)
          BY <2>3, <4>1 DEF Stop
        <5>2. /\ lease'[t].pkg = lease[t].pkg /\ t # record[task.pkg]
              /\ lease'[t].worker = lease[t].worker
          BY <1>3, <3>2, <5>1, KilledFacts
        <5> QED BY <2>2, <3>2, <5>2 DEF Runs
      <4>2. CASE ~LeaseAlive(task.pkg)
        <5>1. lease' = lease /\ Runs(t) /\ lease[t].pkg \notin unnamed
          BY <2>3, <3>2, <4>2 DEF Stop, Runs
        <5> QED BY <2>2, <4>2, <5>1 DEF LeaseAlive
      <4> QED BY <4>1, <4>2
    <3>3. Named'
      BY <1>1, <2>1, <3>1, <3>2, NamesStay
    <3> QED BY <1>1, <3>1, <3>2, <3>3 DEF Alone, Runs
  <2>4. CASE Forget
    <3>1. /\ owner' = [owner EXCEPT ![task.pkg] = None]
          /\ record' = [record EXCEPT ![task.pkg] = None]
          /\ lease' = Unfiled(lease, {task.pkg}, "none") /\ pc = "forget"
          /\ pc' \notin {"prepare", "fork", "forget", "record", "await", "giveup", "drain"}
      BY <1>1, <2>4 DEF Forget, Goto, Finish, TaskTypes, InHand
    <3>2. ASSUME NEW t \in Trigger, lease'[t].worker \in {"waiting", "last"},
                 lease'[t].pkg \notin unnamed
          PROVE  Runs(t) /\ lease'[t].pkg = lease[t].pkg /\ lease[t].pkg # task.pkg
      BY <1>3, <2>1, <3>1, <3>2, UnfiledFacts DEF Alone, Runs
    <3>3. Named'
      BY <1>1, <1>3, <2>1, <3>1, <3>2, NamesStay DEF FileTypes
    <3> QED BY <3>1, <3>3, NothingAsked
  <2>5. CASE Alive
    <3>1. /\ UNCHANGED <<owner, record, lease, task>> /\ pc = "alive"
          /\ pc' = IF LeaseAlive(task.pkg) THEN "promote" ELSE "prepare"
      BY <2>5 DEF Alive, Goto, files
    <3>2. Named'
      BY <1>1, <2>1, <3>1, NamesStay DEF Runs
    <3>3. ASSUME NEW t \in Trigger, Runs(t), lease[t].pkg = task.pkg, task.pkg \notin unnamed
          PROVE  pc' = "promote"
      BY <2>2, <3>1, <3>3 DEF LeaseAlive
    <3> QED BY <1>1, <3>1, <3>2, <3>3 DEF Alone, Runs
  <2> QED BY <2>3, <2>4, <2>5
<1> QED BY <1>1, <1>2, <1>4 DEF WorkersInv

\* start_lease_owned forks only what no worker runs for, and takes away only
\* files of a worker that has ended.
LEMMA PrepareKeepsOne ==
    ASSUME Types, WorkersInv, InHand, Prepare
    PROVE  WorkersInv'
<1> USE DEF Types
<1>1. /\ UNCHANGED <<listening, owner, unnamed>> /\ (NoFault \/ Fault) /\ pc = "prepare"
      /\ record' = [record EXCEPT ![task.pkg] = None] /\ task.pkg \in Package
      /\ pc' \in {"idle", "reconcile", "decide", "fork"}
      /\ Finish => pc' # "fork"
  BY DEF Prepare, Quiet, onFile, Goto, Finish, InHand, TaskTypes, Working, Granting
<1>2. used'.downs = used.downs /\ pc' \in Running
  BY <1>1, DeathsCount DEF NoFault, Fault, Running, Handling
<1>3. /\ FileTypes /\ lease \in [Trigger -> LeaseType]
      /\ \A t \in Trigger : Runs(t) => lease[t].pkg \in Package
  BY DEF LeaseTypes
<1>4. ASSUME NEW t \in Trigger, lease'[t].worker \in {"waiting", "last"}
      PROVE  Runs(t) /\ lease'[t].pkg = lease[t].pkg
  <2> DEFINE U == Unfiled(lease, {task.pkg}, "none")
  <2>1. /\ U \in [Trigger -> LeaseType]
        /\ U[t].pkg = lease[t].pkg /\ U[t].worker = lease[t].worker
    BY <1>3, UnfiledFacts
  <2>2. CASE lease' \in {lease, U}
    BY <1>4, <2>1, <2>2 DEF Runs
  <2>3. CASE pc' = "fork"
    <3>1. PICK u \in Trigger :
             /\ lease[u].pkg = None
             /\ lease' = [U EXCEPT ![u].pkg = task.pkg, ![u].file = "empty"]
      BY <2>3, PrepareSteps
    <3> HIDE DEF U
    <3>2. lease'[t].worker = U[t].worker
      BY <2>1, <3>1 DEF LeaseType
    <3>3. Runs(t) /\ t # u
      BY <1>3, <1>4, <2>1, <3>1, <3>2, NoneAssumption DEF Runs
    <3> QED BY <2>1, <3>1, <3>3
  <2>4. Finish => lease' \in {lease, U}
    <3>1. Finish => ~Goto("fork")
      BY <1>1 DEF Goto
    <3> QED BY <3>1 DEF Prepare
  <2>5. Finish \/ Goto("fork")
    BY DEF Prepare
  <2> QED BY <2>2, <2>3, <2>4, <2>5 DEF Goto
<1>5. ASSUME used.downs = 0 PROVE Named' /\ Alone'
  <2>1. Named /\ Alone
    BY <1>5 DEF WorkersInv
  <2>2. \A t \in Trigger : Runs(t) /\ lease[t].pkg \notin unnamed => lease[t].pkg # task.pkg
    BY <1>1, <2>1 DEF Alone
  <2>3. Named'
    BY <1>1, <1>3, <1>4, <2>1, <2>2, NamesStay DEF FileTypes
  <2>4. Alone'
    <3>1. CASE pc' # "fork"
      BY <1>1, <3>1, NothingAsked
    <3>2. CASE pc' = "fork"
      <4>1. PICK u \in Trigger : task' = [task EXCEPT !.trigger = u]
        BY <3>2, PrepareSteps
      <4>2. task'.pkg = task.pkg
        BY <4>1 DEF TaskTypes
      <4> QED BY <1>1, <1>4, <2>2, <3>2, <4>2 DEF Alone, Runs
    <3> QED BY <3>1, <3>2
  <2> QED BY <2>3, <2>4
<1> QED BY <1>1, <1>2, <1>5 DEF WorkersInv

LEMMA LeasedKeepsOne ==
    ASSUME Types, WorkersInv, InHand, Fork \/ Record \/ Await \/ GiveUp \/ Drain
    PROVE  WorkersInv'
<1> USE DEF Types
<1>1. /\ UNCHANGED listening /\ (NoFault \/ Fault) /\ pc \in Leased
      /\ pc' \in {"idle", "reconcile", "decide", "record", "await", "giveup", "drain"}
      /\ pc' \in {"record", "await", "giveup", "drain"} => UNCHANGED task
      /\ pc' = "record" => pc = "fork"
  BY DEF Fork, Record, Await, GiveUp, Drain, Quiet, Goto, Finish, InHand, Leased
<1>2. used'.downs = used.downs /\ pc' \in Running
  BY <1>1, DeathsCount DEF NoFault, Fault, Running, Handling
<1>3. /\ FileTypes /\ lease \in [Trigger -> LeaseType]
      /\ \A t \in Trigger : Runs(t) => lease[t].pkg \in Package
      /\ task.trigger \in Trigger /\ task.pkg \in Package
      /\ lease[task.trigger].pkg = task.pkg
      /\ \A t \in Trigger : lease'[t].pkg = lease[t].pkg
  BY <1>1, LeasedSteps DEF LeaseTypes, TaskTypes
<1>4. ASSUME used.downs = 0 PROVE Named' /\ Alone'
  <2>1. Named /\ Alone
    BY <1>4 DEF WorkersInv
  <2>2. CASE Fork
    <3>0. UNCHANGED unnamed
      BY <2>2 DEF Fork, onFile
    <3>1. \A t \in Trigger : Runs(t) /\ lease[t].pkg \notin unnamed => lease[t].pkg # task.pkg
      BY <2>1, <2>2 DEF Fork, Alone
    <3>2. \A t \in Trigger : t # task.trigger => lease'[t].worker = lease[t].worker
      BY <2>2, LeasedSteps
    <3>3. CASE pc' = "record"
      <4>1. /\ UNCHANGED <<record, task>> /\ pc = "fork"
            /\ owner' = [owner EXCEPT ![task.pkg] = task.trigger]
        BY <2>2, <3>3 DEF Fork, Finish, Goto, InHand
      <4>2. ASSUME NEW t \in Trigger, lease'[t].worker \in {"waiting", "last"},
                   lease[t].pkg \notin unnamed
            PROVE  \/ t = task.trigger
                   \/ Runs(t) /\ lease[t].pkg # task.pkg
        BY <3>1, <3>2, <4>2 DEF Runs
      <4>3. Named'
        BY <1>3, <2>1, <3>0, <3>3, <4>1, <4>2 DEF Named, Runs, FileTypes
      <4>4. Alone'
        BY <1>3, <3>0, <3>3, <4>1, <4>2 DEF Alone, Runs
      <4> QED BY <4>3, <4>4
    <3>4. CASE pc' # "record"
      <4>1. /\ lease' = [lease EXCEPT ![task.trigger].file = "none"] /\ UNCHANGED record
            /\ owner' = owner \/ owner' = [owner EXCEPT ![task.pkg] = None]
            /\ pc = "fork" /\ pc' \in {"idle", "reconcile", "decide"}
        BY <2>2, <3>4 DEF Fork, Finish, Goto, InHand
      <4>2. \A t \in Trigger : lease'[t].worker = lease[t].worker
        BY <1>3, <4>1 DEF LeaseType
      <4>3. Named'
        BY <1>3, <2>1, <3>0, <3>1, <4>1, <4>2, NamesStay DEF Runs, FileTypes
      <4> QED BY <4>1, <4>3, NothingAsked
    <3> QED BY <3>3, <3>4
  <2>3. CASE Record \/ Await \/ GiveUp \/ Drain
    <3>1. \A t \in Trigger : lease'[t].worker = lease[t].worker
      <4>1. pc # "fork"
        BY <2>3 DEF Record, Await, GiveUp, Drain
      <4> QED BY <4>1, LeasedSteps
    <3>2. ASSUME NEW t \in Trigger, Runs(t), lease[t].pkg \notin unnamed
          PROVE  /\ owner[lease[t].pkg] = t
                 /\ lease[t].pkg = task.pkg => t = task.trigger
                 /\ t # task.trigger => record[lease[t].pkg] = t
      <4>1. pc \in {"record", "await", "giveup", "drain"}
        BY <2>3 DEF Record, Await, GiveUp, Drain
      <4> QED BY <2>1, <3>2, <4>1 DEF Alone, Named
    <3>3. unnamed' = unnamed \/ unnamed' = unnamed \cup {task.pkg}
      BY <2>3 DEF Record, Await, GiveUp, Drain, files, onFile
    <3>4. Alone'
      BY <1>1, <1>3, <3>1, <3>2, <3>3 DEF Alone, Runs
    <3>5. CASE UNCHANGED <<owner, record, unnamed>> /\ pc # "record"
      BY <1>3, <2>1, <3>1, <3>4, <3>5, NamesStay DEF Runs
    <3>6. CASE /\ pc = "record" /\ UNCHANGED <<owner, unnamed>>
               /\ record' = [record EXCEPT ![task.pkg] =
                                IF owner[task.pkg] = task.trigger THEN task.trigger ELSE None]
      BY <1>3, <3>1, <3>2, <3>4, <3>6 DEF Named, Runs, FileTypes
    <3>7. CASE /\ ~Runs(task.trigger) \/ task.pkg \in unnamed'
               /\ owner' = [owner EXCEPT ![task.pkg] = None]
               /\ record' = record \/ record' = [record EXCEPT ![task.pkg] = None]
      <4>1. ASSUME NEW t \in Trigger, Runs(t), lease[t].pkg \notin unnamed'
            PROVE  owner'[lease[t].pkg] = t /\ record'[lease[t].pkg] = t
        <5>1. lease[t].pkg # task.pkg /\ t # task.trigger /\ lease[t].pkg \in Package
          BY <1>3, <3>2, <3>3, <3>7, <4>1
        <5> QED BY <1>3, <3>2, <3>3, <3>7, <4>1, <5>1 DEF FileTypes
      <4> QED BY <1>3, <3>1, <3>4, <4>1 DEF Named, Runs
    <3>8. CASE Record
      BY <3>6, <3>7, <3>8 DEF Record
    <3>9. CASE Await \/ GiveUp
      BY <3>5, <3>9 DEF Await, GiveUp, files, onFile
    <3>10. CASE Drain
      BY <3>7, <3>10 DEF Drain
    <3> QED BY <2>3, <3>8, <3>9, <3>10
  <2> QED BY <2>2, <2>3
<1> QED BY <1>1, <1>2, <1>4 DEF WorkersInv

\* Until the watcher or logcat dies there is no other life.
LEMMA LifeKeepsOne ==
    ASSUME Types, WorkersInv, Life \/ LogcatDies \/ Kill \/ Terminate
    PROVE  WorkersInv'
<1>1. CASE Life
  <2>1. used' = used
    BY <1>1 DEF Life, EndOfFile, Reset, Reap, Cleanup, Grace, Sweep, Restart
  <2>2. used.downs # 0
    <3> SUFFICES ASSUME used.downs = 0, listening, pc \in Running PROVE FALSE
      BY DEF WorkersInv
    <3> QED BY <1>1 DEF Life, EndOfFile, Reset, Reap, Cleanup, Grace, Sweep, Restart, Running,
                        Handling
  <2> QED BY <2>1, <2>2 DEF WorkersInv
<1>2. CASE LogcatDies \/ Kill \/ Terminate
  <2>1. used'.downs = used.downs + 1 /\ used.downs \in Nat
    BY <1>2 DEF LogcatDies, Kill, Terminate, Dies, Spend, Types, WorldTypes
  <2> QED BY <2>1 DEF WorkersInv
<1> QED BY <1>1, <1>2

\* Whenever a worker ends by itself, and whatever fails but the writing of a
\* record: as long as neither the watcher nor logcat has died, a worker that runs
\* is named by its owner file.  A package whose record could not be written is
\* excepted from then on, its worker was told to end and nobody waits for that.
THEOREM WorkersAreNamed == Spec => []WorkersInv
<1>1. Init => WorkersInv
  BY DEF Init, NoLease, WorkersInv, Named, Alone, Runs, Running
<1>2. ASSUME LeaseInv, Types, WorkersInv, [Next]_vars PROVE WorkersInv'
  <2>1. InHand
    BY <1>2 DEF LeaseInv
  <2>2. CASE UNCHANGED vars
    BY <1>2, <2>2 DEF vars, WorkersInv, Named, Alone, Runs
  <2>3. CASE Next
    BY <1>2, <2>1, <2>3, OthersKeep, ReadKeeps, StopKeeps, PrepareKeepsOne, LeasedKeepsOne,
       LifeKeepsOne DEF Next, Handler
  <2> QED BY <1>2, <2>2, <2>3
<1> QED BY <1>1, <1>2, HandlersAreSound, TypesHold, PTL DEF Spec

\* A package never has two workers, unless a record of one of its workers could
\* not be written, or the watcher or logcat died: a second is forked only after
\* the first is found to have ended, or was killed and waited for.
\* (start_lease_owned, stop_lease_for_reconcile, lease_alive)
THEOREM OneWorkerEach == Spec => []OneWorker
<1>1. WorkersInv => OneWorker
  BY DEF WorkersInv, Named, OneWorker
<1> QED BY <1>1, WorkersAreNamed, PTL

-----------------------------------------------------------------------------
(* The files of the ports.                                                 *)

Starts(l, q) == l.type = "start" /\ l.port = q
Stops(l, q, s) == l.type = "stop" /\ l.port = q /\ l.ses = s
OutputOf(l) == [pkg |-> l.pkg, ses |-> l.ses]

\* What the lines leave of the output that line i of the queue started on port
\* q, or that was on file before all of them (i = 0): o, if no start follows it.
LeavesFrom(i, q, b, o) ==
    /\ i \in 0 .. Len(queue) /\ b \in Output
    /\ i = 0 => b = ports[q]
    /\ i # 0 => Starts(queue[i], q) /\ b = OutputOf(queue[i])
    /\ \A j \in i + 1 .. Len(queue) : ~Starts(queue[j], q)
    /\ \/ o = b /\ \A j \in i + 1 .. Len(queue) : ~Stops(queue[j], q, b.ses)
       \/ o = NoOutput /\ (b = NoOutput \/ \E j \in i + 1 .. Len(queue) : Stops(queue[j], q, b.ses))
Leaves(q, o) == \E i \in Nat, b \in Output : LeavesFrom(i, q, b, o)

\* The port files already say what the line does.
Applied(l) ==
    /\ l.type = "start" /\ l.port \in Port => ports[l.port] = OutputOf(l)
    /\ l.type = "stop" /\ l.port \in Port =>
          ports[l.port] = NoOutput \/ ports[l.port].ses # l.ses

\* A line that is being handled has been applied.
HandledIsApplied ==
    \/ pc = "decide" \/ task.back = "decide"
    \/ pc \in Working \cup {"release"} /\ task.back = "idle"
    => Applied(line)

\* AudioPolicy knows what the lines leave, or is about to write that it stopped.
AgreesAtLast ==
    /\ \A x \in late : x = [port |-> x.port, ses |-> x.ses]
    /\ \A q \in Port :
          /\ apps[q] # NoOutput => [port |-> q, ses |-> apps[q].ses] \notin late
          /\ \E o \in Output :
                /\ Leaves(q, o)
                /\ \/ o = apps[q]
                   \/ apps[q] = NoOutput /\ [port |-> q, ses |-> o.ses] \in late

PortsInv == used.downs = 0 /\ used.faults = 0 => HandledIsApplied /\ AgreesAtLast

\* A line of another port, or of none, changes nothing for this one.
LEMMA OtherLine ==
    ASSUME QueueTypes, NEW q, NEW o, Leaves(q, o), UNCHANGED ports,
           NEW l, queue' = Append(queue, l),
           ~Starts(l, q), \A s : ~Stops(l, q, s)
    PROVE  Leaves(q, o)'
<1>1. PICK i \in Nat, b \in Output : LeavesFrom(i, q, b, o)
  BY DEF Leaves
<1>2. /\ Len(queue) \in Nat /\ Len(queue') = Len(queue) + 1 /\ queue'[Len(queue) + 1] = l
      /\ \A j \in 1 .. Len(queue) : queue'[j] = queue[j]
  BY QueueFacts DEF QueueTypes
<1>3. \A j \in i + 1 .. Len(queue') : j = Len(queue) + 1 \/ j \in i + 1 .. Len(queue)
  BY <1>2
<1>4. i \in 0 .. Len(queue') /\ (i # 0 => queue'[i] = queue[i])
  BY <1>1, <1>2 DEF LeavesFrom
<1>5. \A j \in i + 1 .. Len(queue) : j \in i + 1 .. Len(queue') /\ queue'[j] = queue[j]
  BY <1>2
<1>6. LeavesFrom(i, q, b, o)'
  BY <1>1, <1>2, <1>3, <1>4, <1>5 DEF LeavesFrom
<1> QED BY <1>6 DEF Leaves

\* A start takes over, a stop ends the output of its session.
LEMMA StartLine ==
    ASSUME QueueTypes, NEW q, NEW l, Starts(l, q), queue' = Append(queue, l), OutputOf(l) \in Output
    PROVE  Leaves(q, OutputOf(l))'
<1>1. Len(queue) \in Nat /\ Len(queue') = Len(queue) + 1 /\ queue'[Len(queue) + 1] = l
  BY QueueFacts DEF QueueTypes
<1>2. PICK n \in Nat : n = Len(queue) + 1
  BY <1>1
<1>3. n \in 0 .. Len(queue') /\ n # 0 /\ n \in Nat /\ \A j \in n + 1 .. Len(queue') : FALSE
  BY <1>1, <1>2
<1>4. queue'[n] = l
  BY <1>1, <1>2
<1>5. LeavesFrom(n, q, OutputOf(l), OutputOf(l))'
  BY <1>3, <1>4 DEF LeavesFrom
<1> QED BY <1>3, <1>5 DEF Leaves

LEMMA StopLine ==
    ASSUME QueueTypes, NEW q, NEW o, Leaves(q, o), UNCHANGED ports, NEW s,
           NEW l, Stops(l, q, s), queue' = Append(queue, l)
    PROVE  Leaves(q, IF o.ses = s THEN NoOutput ELSE o)'
<1>1. PICK i \in Nat, b \in Output : LeavesFrom(i, q, b, o)
  BY DEF Leaves
<1>2. /\ Len(queue) \in Nat /\ Len(queue') = Len(queue) + 1 /\ queue'[Len(queue) + 1] = l
      /\ \A j \in 1 .. Len(queue) : queue'[j] = queue[j]
  BY QueueFacts DEF QueueTypes
<1>3. \A j \in i + 1 .. Len(queue') : j = Len(queue) + 1 \/ j \in i + 1 .. Len(queue)
  BY <1>2
<1>4. /\ i \in 0 .. Len(queue') /\ (i # 0 => queue'[i] = queue[i])
      /\ Len(queue) + 1 \in i + 1 .. Len(queue')
  BY <1>1, <1>2 DEF LeavesFrom
<1>5. \A j \in i + 1 .. Len(queue) : j \in i + 1 .. Len(queue') /\ queue'[j] = queue[j]
  BY <1>2
<1>6. \A j \in i + 1 .. Len(queue') : ~Starts(queue'[j], q)
  BY <1>1, <1>2, <1>3, <1>5 DEF LeavesFrom, Starts, Stops
<1>7. \A r : Stops(l, q, r) <=> r = s
  BY DEF Stops
<1>8. CASE o = b /\ \A j \in i + 1 .. Len(queue) : ~Stops(queue[j], q, b.ses)
  <2>1. CASE b.ses = s
    <3>1. LeavesFrom(i, q, b, NoOutput)'
      BY <1>1, <1>2, <1>4, <1>6, <1>7, <2>1 DEF LeavesFrom
    <3> QED BY <1>8, <2>1, <3>1 DEF Leaves
  <2>2. CASE b.ses # s
    <3>1. \A j \in i + 1 .. Len(queue') : ~Stops(queue'[j], q, b.ses)
      BY <1>2, <1>3, <1>5, <1>7, <1>8, <2>2
    <3>2. LeavesFrom(i, q, b, b)'
      BY <1>1, <1>4, <1>6, <3>1 DEF LeavesFrom
    <3> QED BY <1>8, <2>2, <3>2 DEF Leaves
  <2> QED BY <2>1, <2>2
<1>9. CASE o = NoOutput /\ (b = NoOutput \/ \E j \in i + 1 .. Len(queue) : Stops(queue[j], q, b.ses))
  <2>1. LeavesFrom(i, q, b, NoOutput)'
    BY <1>1, <1>4, <1>5, <1>6, <1>9 DEF LeavesFrom
  <2> QED BY <1>9, <2>1 DEF Leaves
<1> QED BY <1>1, <1>8, <1>9 DEF LeavesFrom

\* A line that has been applied may go.
LEMMA LineDone ==
    ASSUME QueueTypes, queue # <<>>, NEW q \in Port, NEW o, Leaves(q, o), UNCHANGED ports,
           queue' = Tail(queue), Applied(line)
    PROVE  Leaves(q, o)'
<1>1. PICK i \in Nat, b \in Output : LeavesFrom(i, q, b, o)
  BY DEF Leaves
<1>2. /\ Len(queue) \in Nat \ {0} /\ Len(queue') = Len(queue) - 1
      /\ \A j \in 1 .. Len(queue) - 1 : queue'[j] = queue[j + 1]
      /\ line = queue[1]
  BY QueueFacts DEF QueueTypes, line
<1>3. CASE i > 0
  <2>1. /\ i - 1 \in 0 .. Len(queue')
        /\ \A j \in i .. Len(queue') : j + 1 \in i + 1 .. Len(queue) /\ queue'[j] = queue[j + 1]
        /\ \A j \in i + 1 .. Len(queue) : j - 1 \in i .. Len(queue') /\ queue'[j - 1] = queue[j]
        /\ (i - 1) + 1 = i /\ i - 1 \in Nat
    BY <1>1, <1>2, <1>3 DEF LeavesFrom
  <2>2. /\ i = 1 => b = ports'[q]
        /\ i # 1 => queue'[i - 1] = queue[i]
    BY <1>1, <1>2, <1>3 DEF LeavesFrom, Starts, Applied
  <2>3. /\ \A j \in i .. Len(queue') : ~Starts(queue'[j], q)
        /\ \/ o = b /\ \A j \in i .. Len(queue') : ~Stops(queue'[j], q, b.ses)
           \/ o = NoOutput /\ (b = NoOutput \/ \E j \in i .. Len(queue') : Stops(queue'[j], q, b.ses))
    BY <1>1, <2>1 DEF LeavesFrom
  <2>4. LeavesFrom(i - 1, q, b, o)'
    BY <1>1, <1>3, <2>1, <2>2, <2>3 DEF LeavesFrom
  <2> QED BY <2>1, <2>4 DEF Leaves
<1>4. CASE i = 0
  <2>1. /\ \A j \in 1 .. Len(queue') : j + 1 \in 1 .. Len(queue) /\ queue'[j] = queue[j + 1]
        /\ \A j \in 1 .. Len(queue) : j = 1 \/ (j - 1 \in 1 .. Len(queue') /\ queue'[j - 1] = queue[j])
        /\ 0 \in 0 .. Len(queue') /\ 0 + 1 = 1
    BY <1>2
  <2>2. b = ports[q] /\ \A j \in 1 .. Len(queue) : ~Starts(queue[j], q)
    BY <1>1, <1>4 DEF LeavesFrom
  <2>3. b = NoOutput \/ ~Stops(line, q, b.ses)
    BY <2>2 DEF Applied, Stops
  <2>4. \/ o = b /\ \A j \in 1 .. Len(queue') : ~Stops(queue'[j], q, b.ses)
        \/ o = NoOutput /\ (b = NoOutput \/ \E j \in 1 .. Len(queue') : Stops(queue'[j], q, b.ses))
    BY <1>1, <1>2, <1>4, <2>1, <2>3 DEF LeavesFrom
  <2>5. LeavesFrom(0, q, b, o)'
    BY <2>1, <2>2, <2>4 DEF LeavesFrom
  <2> QED BY <2>5 DEF Leaves
<1> QED BY <1>3, <1>4

\* Applying it changes nothing either.
LEMMA LineApplied ==
    ASSUME QueueTypes, FileTypes, queue # <<>>, NEW q \in Port, NEW o, Leaves(q, o),
           UNCHANGED queue,
           \/ /\ line.type = "start"
              /\ ports' = [ports EXCEPT ![line.port] = OutputOf(line)]
           \/ /\ line.type = "stop" /\ ports[line.port].ses = line.ses
              /\ ports' = [ports EXCEPT ![line.port] = NoOutput]
    PROVE  Leaves(q, o)'
<1>1. PICK i \in Nat, b \in Output : LeavesFrom(i, q, b, o)
  BY DEF Leaves
<1>2. Len(queue) \in Nat \ {0} /\ line = queue[1] /\ 1 \in 1 .. Len(queue)
  BY DEF QueueTypes, line
<1>3. ports'[q] = ports[q] \/ line.port = q
  BY DEF FileTypes
<1>4. CASE i > 0 \/ ports'[q] = ports[q]
  <2>1. LeavesFrom(i, q, b, o)'
    BY <1>1, <1>4 DEF LeavesFrom
  <2> QED BY <2>1 DEF Leaves
<1>5. CASE i = 0 /\ line.port = q
  <2>1. b = ports[q] /\ 1 \in i + 1 .. Len(queue)
    BY <1>1, <1>2, <1>5 DEF LeavesFrom
  <2>2. line.type = "stop" /\ Stops(queue[1], q, b.ses)
    BY <1>1, <1>2, <1>5, <2>1 DEF LeavesFrom, Starts, Stops
  <2>3. o = NoOutput
    BY <1>1, <2>1, <2>2 DEF LeavesFrom
  <2>4. ports'[q] = NoOutput /\ NoOutput \in Output
    BY <1>5, <2>2 DEF FileTypes, Output
  <2>5. LeavesFrom(0, q, NoOutput, NoOutput)'
    BY <1>1, <1>5, <2>3, <2>4 DEF LeavesFrom
  <2> QED BY <2>3, <2>4, <2>5 DEF Leaves
<1> QED BY <1>3, <1>4, <1>5

LEMMA LeavesStays ==
    ASSUME NEW q, NEW o, Leaves(q, o), UNCHANGED <<queue, ports>>
    PROVE  Leaves(q, o)'
BY DEF Leaves, LeavesFrom

\* The applications change what is played, their lines what is left.
LEMMA WorldAgrees ==
    ASSUME Types, AgreesAtLast, listening, World
    PROVE  AgreesAtLast'
<1> USE DEF Types
<1>1. UNCHANGED ports
  BY DEF World, AppStarts, AppStops, StopLogged, VendorEvent, Edit, Signal, files, onFile
<1>2. ASSUME NEW r \in Port, NEW p \in Package, NEW s \in Session, AppStarts(r, p, s)
      PROVE  AgreesAtLast'
  <2> DEFINE l == Event("start", p, r, s)
  <2>1. /\ queue' = Append(queue, l) /\ UNCHANGED late
        /\ [port |-> r, ses |-> s] \notin late
        /\ apps' = [apps EXCEPT ![r] = [pkg |-> p, ses |-> s]]
    BY <1>2 DEF AppStarts, Log
  <2>2. Starts(l, r) /\ OutputOf(l) = [pkg |-> p, ses |-> s] /\ OutputOf(l) \in Output
    BY DEF Starts, OutputOf, Event, Output
  <2>3. Leaves(r, [pkg |-> p, ses |-> s])'
    BY <2>1, <2>2, StartLine
  <2>4. ASSUME NEW q \in Port, q # r, NEW o, Leaves(q, o) PROVE Leaves(q, o)'
    <3>1. ~Starts(l, q) /\ \A t : ~Stops(l, q, t)
      BY <2>4 DEF Starts, Stops, Event
    <3> QED BY <1>1, <2>1, <2>4, <3>1, OtherLine
  <2> HIDE DEF l
  <2>5. ASSUME NEW q \in Port
        PROVE  /\ apps'[q] # NoOutput => [port |-> q, ses |-> apps'[q].ses] \notin late'
               /\ \E o \in Output :
                     /\ Leaves(q, o)'
                     /\ \/ o = apps'[q]
                        \/ apps'[q] = NoOutput /\ [port |-> q, ses |-> o.ses] \in late'
    <3>1. CASE q = r
      <4>1. apps'[q] = [pkg |-> p, ses |-> s] /\ [pkg |-> p, ses |-> s] \in Output
        BY <2>1, <3>1 DEF WorldTypes, Output
      <4> QED BY <2>1, <2>3, <3>1, <4>1
    <3>2. CASE q # r
      <4>1. apps'[q] = apps[q] /\ late' = late
        BY <2>1, <3>2
      <4> QED BY <2>4, <3>2, <4>1 DEF AgreesAtLast
    <3> QED BY <3>1, <3>2
  <2> QED BY <2>1, <2>5 DEF AgreesAtLast
<1>3. ASSUME NEW r \in Port, AppStops(r) PROVE AgreesAtLast'
  <2>1. /\ UNCHANGED <<queue, last>> /\ apps[r] # NoOutput
        /\ late' = late \cup {[port |-> r, ses |-> apps[r].ses]}
        /\ apps' = [apps EXCEPT ![r] = NoOutput]
    BY <1>3 DEF AppStops, log
  <2>2. ASSUME NEW q \in Port
        PROVE  /\ apps'[q] # NoOutput => [port |-> q, ses |-> apps'[q].ses] \notin late'
               /\ \E o \in Output :
                     /\ Leaves(q, o)'
                     /\ \/ o = apps'[q]
                        \/ apps'[q] = NoOutput /\ [port |-> q, ses |-> o.ses] \in late'
    <3>1. PICK o \in Output : /\ Leaves(q, o)
                              /\ \/ o = apps[q]
                                 \/ apps[q] = NoOutput /\ [port |-> q, ses |-> o.ses] \in late
      BY DEF AgreesAtLast
    <3>2. Leaves(q, o)'
      BY <1>1, <2>1, <3>1, LeavesStays
    <3>3. CASE q = r
      <4>1. o = apps[r] /\ apps'[q] = NoOutput
        BY <2>1, <3>1, <3>3 DEF WorldTypes
      <4> QED BY <2>1, <3>2, <3>3, <4>1
    <3>4. CASE q # r
      <4>1. apps'[q] = apps[q]
        BY <2>1, <3>4
      <4> QED BY <2>1, <3>1, <3>2, <3>4, <4>1 DEF AgreesAtLast
    <3> QED BY <3>3, <3>4
  <2> QED BY <2>1, <2>2 DEF AgreesAtLast
<1>4. ASSUME NEW x \in late, StopLogged(x) PROVE AgreesAtLast'
  <2> DEFINE l == Event("stop", None, x.port, x.ses)
             Left(o) == IF o.ses = x.ses THEN NoOutput ELSE o
  <2>1. queue' = Append(queue, l) /\ UNCHANGED apps /\ late' = late \ {x}
    BY <1>4 DEF StopLogged, Log
  <2>2. x.port \in Port /\ Stops(l, x.port, x.ses) /\ x = [port |-> x.port, ses |-> x.ses]
    BY DEF WorldTypes, Stops, Event, AgreesAtLast
  <2>3. ASSUME NEW q \in Port, NEW o, Leaves(q, o)
        PROVE  q = x.port => Leaves(q, Left(o))'
    <3>1. q = x.port => Leaves(q, IF o.ses = x.ses THEN NoOutput ELSE o)'
      BY <1>1, <2>1, <2>2, <2>3, StopLine
    <3> QED BY <3>1
  <2>4. ASSUME NEW q \in Port, q # x.port, NEW o, Leaves(q, o) PROVE Leaves(q, o)'
    <3>1. ~Starts(l, q) /\ \A t : ~Stops(l, q, t)
      BY <2>4 DEF Starts, Stops, Event
    <3> QED BY <1>1, <2>1, <2>4, <3>1, OtherLine
  <2> HIDE DEF l
  <2>5. ASSUME NEW q \in Port
        PROVE  /\ apps'[q] # NoOutput => [port |-> q, ses |-> apps'[q].ses] \notin late'
               /\ \E o \in Output :
                     /\ Leaves(q, o)'
                     /\ \/ o = apps'[q]
                        \/ apps'[q] = NoOutput /\ [port |-> q, ses |-> o.ses] \in late'
    <3>1. PICK o \in Output : /\ Leaves(q, o)
                              /\ \/ o = apps[q]
                                 \/ apps[q] = NoOutput /\ [port |-> q, ses |-> o.ses] \in late
      BY DEF AgreesAtLast
    <3>2. /\ apps'[q] = apps[q] /\ late' \subseteq late
          /\ apps[q] # NoOutput => [port |-> q, ses |-> apps[q].ses] \notin late
      BY <2>1 DEF AgreesAtLast
    <3>3. CASE q = x.port
      <4>1. Leaves(q, Left(o))' /\ NoOutput \in Output
        BY <2>3, <3>1, <3>3 DEF Output
      <4>2. CASE o.ses = x.ses
        <5>1. apps[q] = NoOutput /\ Left(o) = NoOutput
          BY <2>2, <3>1, <3>2, <3>3, <4>2
        <5> QED BY <3>2, <4>1, <5>1
      <4>3. CASE o.ses # x.ses
        <5>1. Left(o) = o
          BY <4>3
        <5>2. [port |-> q, ses |-> o.ses] # x
          BY <4>3
        <5> QED BY <2>1, <3>1, <3>2, <4>1, <5>1, <5>2
      <4> QED BY <4>2, <4>3
    <3>4. CASE q # x.port
      <4>1. Leaves(q, o)' /\ [port |-> q, ses |-> o.ses] # x
        BY <2>2, <2>4, <3>1, <3>4
      <4> QED BY <2>1, <3>1, <3>2, <4>1
    <3> QED BY <3>3, <3>4
  <2> QED BY <2>1, <2>5 DEF AgreesAtLast
<1>5. CASE Signal \/ \E p \in Package : VendorEvent(p) \/ Edit(p)
  <2>1. UNCHANGED <<apps, late>>
    BY <1>5 DEF VendorEvent, Edit, Signal, outside
  <2>2. \/ queue' = queue
        \/ \E l : /\ queue' = Append(queue, l) /\ l.type \in {"track", "wake"}
    <3>1. CASE Signal
      <4>1. Log(Event("wake", None, None, None))
        BY <3>1 DEF Signal
      <4> QED BY <4>1 DEF Log, Event
    <3>2. ASSUME NEW p \in Package, VendorEvent(p)
          PROVE  \E l : queue' = Append(queue, l) /\ l.type \in {"track", "wake"}
      <4>1. Log(Event("track", p, None, None))
        BY <3>2 DEF VendorEvent
      <4> QED BY <4>1 DEF Log, Event
    <3>3. ASSUME NEW p \in Package, Edit(p) PROVE queue' = queue
      BY <3>3 DEF Edit, log
    <3> QED BY <1>5, <3>1, <3>2, <3>3
  <2>3. ASSUME NEW q \in Port, NEW o, Leaves(q, o) PROVE Leaves(q, o)'
    BY <1>1, <2>2, <2>3, LeavesStays, OtherLine DEF Starts, Stops
  <2> QED BY <2>1, <2>3 DEF AgreesAtLast
<1> QED BY <1>2, <1>3, <1>4, <1>5 DEF World

\* A stream's lines are about a port of its own.
LEMMA StreamAgrees ==
    ASSUME Types, AgreesAtLast, NEW t \in Trigger, listening, Stream(t)
    PROVE  AgreesAtLast'
<1> USE DEF Types
<1>1. UNCHANGED <<apps, late, ports>>
  BY DEF Stream, Open, OpenFails, Ready, Look, Expire, Close, WorkerCleans, WorkerEnds, WorkerHears,
         Outside, outside, onFile
<1>2. \/ queue' = queue
      \/ \E l : queue' = Append(queue, l) /\ l.port = t
  <2>1. CASE Open(t)
    <3>1. Log(Event("start", lease[t].pkg, t, t))
      BY <2>1 DEF Open
    <3> QED BY <3>1 DEF Log, Event
  <2>2. CASE Close(t)
    <3>1. Log(Event("stop", None, t, t))
      BY <2>2 DEF Close
    <3> QED BY <3>1 DEF Log, Event
  <2>3. CASE ~Open(t) /\ ~Close(t)
    BY <2>3 DEF Stream, OpenFails, Ready, Look, Expire, WorkerCleans, WorkerEnds, WorkerHears, log
  <2> QED BY <2>1, <2>2, <2>3
<1>3. ASSUME NEW q \in Port, NEW o, Leaves(q, o) PROVE Leaves(q, o)'
  <2>1. q # t
    BY Distinct
  <2> QED BY <1>1, <1>2, <1>3, <2>1, LeavesStays, OtherLine DEF Starts, Stops
<1> QED BY <1>1, <1>3 DEF AgreesAtLast

\* What the watcher does between taking a line up and being done with it.
LEMMA QueueStays ==
    ASSUME AgreesAtLast, UNCHANGED <<apps, late, queue, ports>>
    PROVE  AgreesAtLast'
<1>1. ASSUME NEW q \in Port, NEW o, Leaves(q, o) PROVE Leaves(q, o)'
  BY <1>1, LeavesStays
<1> QED BY <1>1 DEF AgreesAtLast

LEMMA LineGoes ==
    ASSUME Types, AgreesAtLast, UNCHANGED <<apps, late, ports>>, Applied(line),
           queue # <<>>, pc \in Handling \cup {"idle"}, Goto("idle")
    PROVE  AgreesAtLast'
<1>1. queue' = Tail(queue)
  BY DEF Goto
<1>2. ASSUME NEW q \in Port, NEW o, Leaves(q, o) PROVE Leaves(q, o)'
  BY <1>1, <1>2, LineDone DEF Types
<1> QED BY <1>2 DEF AgreesAtLast

\* A task that goes on, or ends, with its line applied.
LEMMA TaskAgrees ==
    ASSUME Types, InHand, HandledIsApplied, AgreesAtLast,
           UNCHANGED <<apps, late, ports>>, pc \in Working \cup {"release"},
           \/ Finish
           \/ /\ task'.back = task.back
              /\ \E label \in Working : Goto(label)
    PROVE  HandledIsApplied' /\ AgreesAtLast'
<1> USE DEF Types
<1>1. /\ queue # <<>> /\ pc \in Handling /\ task.back \in {"idle", "reconcile", "decide"}
      /\ task.back # "reconcile" => Applied(line)
  BY DEF InHand, HandledIsApplied, Working, Granting, Handling
<1>2. CASE Finish /\ task.back = "idle"
  <2>1. AgreesAtLast'
    BY <1>1, <1>2, LineGoes DEF Finish
  <2>2. pc' = "idle" /\ task' = NoTask
    BY <1>2 DEF Finish, Goto
  <2> QED BY <2>1, <2>2 DEF HandledIsApplied, NoTask, Working, Granting
<1>3. CASE Finish /\ task.back # "idle"
  <2>1. queue' = queue /\ pc' = task.back /\ task' = NoTask
    BY <1>3 DEF Finish, Goto
  <2>2. AgreesAtLast' /\ (Applied(line) => Applied(line)')
    BY <2>1, QueueStays DEF Applied, line
  <2> QED BY <1>1, <1>3, <2>1, <2>2 DEF HandledIsApplied, NoTask, Working, Granting
<1>4. ASSUME NEW label \in Working, Goto(label), task'.back = task.back
      PROVE  HandledIsApplied' /\ AgreesAtLast'
  <2>1. queue' = queue /\ pc' = label /\ pc' # "decide"
    BY <1>4 DEF Goto, Working, Granting
  <2>2. AgreesAtLast' /\ (Applied(line) => Applied(line)')
    BY <2>1, QueueStays DEF Applied, line
  <2>3. task'.back = "idle" \/ task'.back = "decide" => Applied(line)
    BY <1>1, <1>4
  <2> QED BY <2>1, <2>2, <2>3 DEF HandledIsApplied
<1> QED BY <1>2, <1>3, <1>4

\* policy_start and policy_stop apply the line before they let it go.
LEMMA LinesAgree ==
    ASSUME Types, InHand, HandledIsApplied, AgreesAtLast,
           \/ Claim \/ Reconcile \/ (HandleStart /\ NoFault) \/ Decide \/ HandleStop
           \/ HandleTrack \/ HandleWake
    PROVE  HandledIsApplied' /\ AgreesAtLast'
<1> USE DEF Types
<1>1. UNCHANGED <<apps, late>> /\ queue # <<>>
  BY DEF Claim, Reconcile, HandleStart, Decide, HandleStop, HandleTrack, HandleWake, Begins, Quiet,
         outside, InHand, Handling
<1>2. line \in Written /\ FileTypes /\ QueueTypes
  BY <1>1, HeadIsWritten
<1>3. CASE Claim \/ Reconcile
  <2>1. /\ UNCHANGED <<queue, ports>> /\ pc' \in {"reconcile", "handle", "revoke"}
        /\ task.back = "idle"
        /\ \/ pc' # "revoke" /\ UNCHANGED task
           \/ task'.back = "reconcile"
    BY <1>3 DEF Claim, Reconcile, Goto, files, onFile, Task, InHand, Handling, Working, Granting
  <2> QED BY <1>1, <2>1, QueueStays DEF HandledIsApplied, Working, Granting
<1>4. CASE HandleStart /\ NoFault
  <2>1. /\ pc \in {"idle", "handle"} /\ line.type = "start" /\ task.back = "idle"
        /\ line.port \in Port \cup Trigger
    BY <1>2, <1>4 DEF HandleStart, Begins, InHand, Written, Working, Granting
  <2>2. CASE SessionMatches(line.pkg, line.ses) /\ Goto("idle") /\ UNCHANGED <<ports, task>>
    <3>1. line.port \notin Port
      BY <1>2, <2>1, <2>2, Distinct DEF SessionMatches, Written
    <3>2. Applied(line)
      BY <2>1, <3>1 DEF Applied
    <3>3. AgreesAtLast'
      BY <1>1, <2>1, <2>2, <3>2, LineGoes DEF Handling
    <3> QED BY <2>1, <2>2, <3>3 DEF HandledIsApplied, Goto, Working, Granting
  <2>3. CASE /\ ports' = [ports EXCEPT ![line.port] = OutputOf(line)]
             /\ \/ Goto("decide") /\ UNCHANGED task
                \/ Goto("release") /\ task'.back = "decide"
    <3>1. queue' = queue /\ line' = line
      BY <2>3 DEF Goto, line
    <3>2. ASSUME NEW q \in Port, NEW o, Leaves(q, o) PROVE Leaves(q, o)'
      BY <1>1, <1>2, <2>1, <2>3, <3>1, <3>2, LineApplied
    <3>3. Applied(line)'
      BY <1>2, <2>1, <2>3, <3>1 DEF Applied, FileTypes
    <3> QED BY <1>1, <3>2, <3>3 DEF AgreesAtLast, HandledIsApplied
  <2>4. ~Fault
    BY <1>4 DEF NoFault, Fault, Spend, WorldTypes
  <2> QED BY <1>4, <2>2, <2>3, <2>4 DEF HandleStart, OutputOf, Task, onFile
<1>5. CASE HandleStop
  <2> DEFINE current == ports[line.port]
  <2>1. /\ pc \in {"idle", "handle"} /\ line.type = "stop" /\ task.back = "idle"
        /\ line.port \in Port \cup Trigger /\ current \in Output
    BY <1>2, <1>5 DEF HandleStop, Begins, InHand, Written, FileTypes, Working, Granting
  <2>2. CASE (current.pkg = None \/ current.ses # line.ses) /\ Goto("idle") /\ UNCHANGED <<ports, task>>
    <3>1. current.pkg = None => current = NoOutput
      BY <2>1, NoneAssumption DEF Output
    <3>2. Applied(line)
      BY <2>1, <2>2, <3>1 DEF Applied
    <3>3. AgreesAtLast'
      BY <1>1, <2>1, <2>2, <3>2, LineGoes DEF Handling
    <3> QED BY <2>1, <2>2, <3>3 DEF HandledIsApplied, Goto, Working, Granting
  <2>3. CASE /\ current.ses = line.ses
             /\ ports' = [ports EXCEPT ![line.port] = NoOutput] /\ Goto("release")
    <3>1. queue' = queue /\ line' = line
      BY <2>3 DEF Goto, line
    <3>2. ASSUME NEW q \in Port, NEW o, Leaves(q, o) PROVE Leaves(q, o)'
      BY <1>1, <1>2, <2>1, <2>3, <3>1, <3>2, LineApplied
    <3>3. Applied(line)'
      BY <1>2, <2>1, <2>3, <3>1 DEF Applied, FileTypes
    <3> QED BY <1>1, <3>2, <3>3 DEF AgreesAtLast, HandledIsApplied
  <2> QED BY <1>5, <2>2, <2>3 DEF HandleStop
<1>6. CASE HandleTrack \/ HandleWake
  <2>1. /\ pc \in {"idle", "handle"} /\ line.type \in {"track", "wake"} /\ task.back = "idle"
        /\ UNCHANGED ports
        /\ (Goto("idle") /\ UNCHANGED task) \/ Goto("alive")
    BY <1>6 DEF HandleTrack, HandleWake, Begins, files, onFile, InHand, Working, Granting
  <2>2. Applied(line)
    BY <2>1 DEF Applied
  <2>3. CASE Goto("idle") /\ UNCHANGED task
    <3>1. AgreesAtLast'
      BY <1>1, <2>1, <2>2, <2>3, LineGoes DEF Handling
    <3> QED BY <2>1, <2>3, <3>1 DEF HandledIsApplied, Goto, Working, Granting
  <2>4. CASE Goto("alive")
    <3>1. queue' = queue
      BY <2>4 DEF Goto
    <3> QED BY <1>1, <2>1, <2>2, <3>1, QueueStays DEF HandledIsApplied, Applied, line
  <2> QED BY <2>1, <2>3, <2>4
<1>7. CASE Decide
  <2>1. /\ pc = "decide" /\ UNCHANGED ports /\ queue' = queue
    BY <1>7 DEF Decide, files, onFile, Goto
  <2> QED BY <1>1, <2>1, QueueStays DEF HandledIsApplied, Applied, line
<1> QED BY <1>3, <1>4, <1>5, <1>6, <1>7

\* Nobody else takes the line that is in hand away.
LEMMA OthersLeaveLine ==
    ASSUME Types, World \/ \E t \in Trigger : Stream(t), queue # <<>>
    PROVE  line' = line
<1>1. queue' = queue \/ \E l : queue' = Append(queue, l)
  BY DEF World, AppStarts, AppStops, StopLogged, VendorEvent, Edit, Signal, log, Log,
         Stream, Open, OpenFails, Ready, Look, Expire, Close, WorkerCleans, WorkerEnds, WorkerHears
<1> QED BY <1>1, QueueFacts DEF Types, QueueTypes, line

LEMMA PortsKeep ==
    ASSUME Types, InHand, WorkersInv, PortsInv, [Next]_vars
    PROVE  PortsInv'
<1> SUFFICES ASSUME used'.downs = 0, used'.faults = 0 PROVE HandledIsApplied' /\ AgreesAtLast'
  BY DEF PortsInv
<1>1. CASE UNCHANGED vars
  <2>1. used.downs = 0 /\ used.faults = 0 /\ UNCHANGED <<apps, late, queue, ports, pc, task>>
    BY <1>1 DEF vars, log
  <2> QED BY <2>1, QueueStays DEF PortsInv, HandledIsApplied, Applied, line
<1>2. CASE Next
  <2>1. \/ UNCHANGED used
        \/ \E what \in {"plays", "tracks", "edits", "faults", "downs"} : \E max : Spend(what, max)
    BY <1>2, SpendsOne
  <2>2. used.downs = 0 /\ used.faults = 0 /\ ~Fault /\ \A max : ~Spend("downs", max)
    BY <2>1 DEF Types, WorldTypes, Spend, Fault
  <2>3. HandledIsApplied /\ AgreesAtLast /\ listening /\ pc \in Running
    BY <2>2 DEF PortsInv, WorkersInv
  <2>4. CASE World \/ \E t \in Trigger : Stream(t)
    <3>1. AgreesAtLast'
      BY <2>3, <2>4, WorldAgrees, StreamAgrees
    <3>2. UNCHANGED <<pc, task, ports>>
      BY <2>4 DEF World, AppStarts, AppStops, StopLogged, VendorEvent, Edit, Signal, watcher, files,
                  onFile, Stream, Open, OpenFails, Ready, Look, Expire, Close, WorkerCleans,
                  WorkerEnds, WorkerHears, Outside
    <3>3. queue # <<>> => line' = line
      BY <2>4, OthersLeaveLine
    <3>4. pc \in Working \cup {"release", "decide"} \/ task.back = "decide" => queue # <<>>
      BY DEF InHand, Handling, Working, Granting
    <3> QED BY <2>3, <3>1, <3>2, <3>3, <3>4 DEF HandledIsApplied, Applied
  <2>5. CASE Claim \/ Reconcile \/ HandleStart \/ Decide \/ HandleStop \/ HandleTrack \/ HandleWake
    <3>1. HandleStart => NoFault
      BY <2>2 DEF HandleStart
    <3> QED BY <2>3, <2>5, <3>1, LinesAgree
  <2>6. CASE \/ Release \/ Revoke \/ Stop \/ Forget \/ Alive \/ Promote \/ Prepare \/ Fork \/ Record
             \/ Await \/ GiveUp \/ Drain
    <3>1. /\ UNCHANGED <<apps, late, ports>> /\ pc \in Working \cup {"release"}
          /\ Finish \/ (task'.back = task.back /\ \E label \in Working : Goto(label))
      BY <2>6 DEF Release, Revoke, Stop, Forget, Alive, Promote, Prepare, Fork, Record, Await, GiveUp,
                  Drain, Quiet, outside, files, onFile, Working, Granting, Types, TaskTypes
    <3> QED BY <2>3, <3>1, TaskAgrees
  <2>7. ~Life /\ ~LogcatDies /\ ~Kill /\ ~Terminate
    <3>1. ~Life
      BY <2>3 DEF Life, EndOfFile, Reset, Reap, Cleanup, Grace, Sweep, Restart, Running, Handling
    <3> QED BY <2>2, <3>1 DEF LogcatDies, Kill, Terminate, Dies
  <2> QED BY <1>2, <2>4, <2>5, <2>6, <2>7 DEF Next, Handler
<1> QED BY <1>1, <1>2

\* While no line is lost and no call fails, the port files and the lines that
\* are left lead to what AudioPolicy knows, but for stops that are not written.
THEOREM LinesLeadThere == Spec => []PortsInv
<1>1. ASSUME Init PROVE PortsInv
  <2>1. HandledIsApplied
    BY <1>1 DEF Init, NoTask, HandledIsApplied, Working, Granting
  <2>2. ASSUME NEW q \in Port PROVE apps[q] = NoOutput /\ Leaves(q, NoOutput)
    <3>1. Len(queue) = 0 /\ ports[q] = NoOutput /\ apps[q] = NoOutput /\ NoOutput \in Output
      BY <1>1 DEF Init, NoPorts, Output
    <3>2. LeavesFrom(0, q, NoOutput, NoOutput)
      BY <3>1 DEF LeavesFrom
    <3> QED BY <3>1, <3>2 DEF Leaves
  <2>3. late = {} /\ NoOutput \in Output
    BY <1>1 DEF Init, Output
  <2>4. AgreesAtLast
    BY <2>2, <2>3 DEF AgreesAtLast
  <2> QED BY <2>1, <2>4 DEF PortsInv
<1>2. LeaseInv => InHand
  BY DEF LeaseInv
<1>3. Types /\ InHand /\ WorkersInv /\ PortsInv /\ [Next]_vars => PortsInv'
  BY PortsKeep
<1> QED BY <1>1, <1>2, <1>3, HandlersAreSound, TypesHold, WorkersAreNamed, PTL DEF Spec

\* A stop that comes late, after the port has been given away, ends no output
\* but its own: once all lines are read the files agree with AudioPolicy.
\* (policy_start, policy_stop)
THEOREM PortsAgreeAtLast == Spec => []PortsAgree
<1>1. ASSUME PortsInv PROVE PortsAgree
  <2> SUFFICES ASSUME queue = <<>>, used.downs = 0, used.faults = 0, NEW q \in Port
               PROVE  \/ ports[q] = apps[q]
                      \/ apps[q] = NoOutput /\ [port |-> q, ses |-> ports[q].ses] \in late
    BY DEF PortsAgree
  <2>1. PICK o \in Output : /\ Leaves(q, o)
                            /\ \/ o = apps[q]
                               \/ apps[q] = NoOutput /\ [port |-> q, ses |-> o.ses] \in late
    BY <1>1 DEF PortsInv, AgreesAtLast
  <2>2. PICK i \in Nat, b \in Output : LeavesFrom(i, q, b, o)
    BY <2>1 DEF Leaves
  <2>3. Len(queue) = 0
    OBVIOUS
  <2>4. o = ports[q]
    BY <2>2, <2>3 DEF LeavesFrom
  <2> QED BY <2>1, <2>4
<1> QED BY <1>1, LinesLeadThere, PTL
=============================================================================
