------------------------------ MODULE AudioLease ------------------------------
(***************************************************************************)
(* bin/a2h_audio_watch and a2h_trigger (src/trigger.c).  The watcher reads *)
(* the lines that AudioPolicy, the vendor's event service and a2h_apply    *)
(* write to the log, keeps one file per active port, and gives a package   *)
(* that plays a lease: a token, and a trigger that holds a silent stream   *)
(* open for as long as it sees the token.  The trigger runs under a worker *)
(* (a subshell), which cleans up after it.                                 *)
(*                                                                         *)
(* The watcher is one process and handles one line after another; workers, *)
(* triggers, the applications, a2h_apply and the death of the watcher      *)
(* interleave with every step of it that touches a shared file.  The       *)
(* claim and the watcher's own lock keep a second watcher out and are not  *)
(* repeated here.  Package holds the names that pass valid_package and     *)
(* have the uid of an application.                                         *)
(***************************************************************************)
EXTENDS Naturals, Sequences, FiniteSets

CONSTANTS
    Package, Port, Session,
    None,
    Enabled,        \* packages that are allowed at first
    Orphans,        \* may a trigger outlive its worker?  See Survivors
    MaxLeases,      \* leases started
    MaxPlays,       \* outputs that applications start
    MaxTracks,      \* vendor playback events
    MaxEdits,       \* changes of the configuration
    MaxFaults,      \* failing calls and timeouts
    MaxDowns,       \* deaths of the watcher or of logcat
    MaxEvents       \* of all of these, all vendor events counted as one

\* lease_sequence: the leases, each with its worker, its stream and the session
\* and port of that.
Trigger == 1 .. MaxLeases

ASSUME EnabledAssumption == Enabled \subseteq Package
ASSUME NoneAssumption == None \notin Package \cup Trigger
ASSUME Distinct == Session \cap Trigger = {} /\ Port \cap Trigger = {}

VARIABLES
    apps,           \* what plays on a port, as AudioPolicy knows it
    late,           \* outputs that have stopped and whose line is not written yet
    queue,          \* lines in the FIFO
    last,           \* the last line of the log
    listening,      \* logcat runs and writes to the FIFO
    allowed,        \* mode_allows_package
    edited,         \* the configuration changed and no apply has finished since
    marker,         \* RECONCILE_MARKER
    ports,          \* PORT_DIR: the application and session of a port
    token,          \* LEASE_DIR
    record, owner,  \* LEASE_PID_DIR: PACKAGE and PACKAGE.owner
    lease,          \* per trigger: package, process, worker, session file, deadline
    pc, task,       \* the watcher: where it is, the package in hand
    seen,           \* reconcile_seen
    leaked,         \* packages whose port could not be written, see HandleStart
    unnamed,        \* packages with a worker that no file names, see Record, Dies
    used            \* budgets spent

watcher == <<pc, task, seen>>
outside == <<apps, late, allowed, edited>>
log == <<queue, last>>
onFile == <<ports, leaked, unnamed>>
files == <<onFile, token, record, owner>>
vars == <<apps, late, log, listening, allowed, edited, marker, ports, token,
          record, owner, lease, pc, task, seen, leaked, unnamed, used>>

\* What a token says.  A write that fails leaves it empty, and the trigger takes
\* what it cannot read as a time for a lease without a deadline.
Kind == {"policy", "fallback"}
Content == Kind \cup {"empty"}
NoDeadline == {"policy", "empty"}
NoOutput == [pkg |-> None, ses |-> None]   \* no file, or an empty one
Output == [pkg : Package, ses : Session \cup Trigger] \cup {NoOutput}
Line == [type : {"start", "stop", "track", "wake"}, pkg : Package \cup {None},
         port : Port \cup Trigger \cup {None}, ses : Session \cup Trigger \cup {None}]
Event(type, p, q, s) == [type |-> type, pkg |-> p, port |-> q, ses |-> s]

\* Where the watcher is: between lines, in a handler, in reset_runtime_state,
\* in cleanup, or not there.
Handling == {"reconcile", "handle", "decide", "release", "revoke", "stop", "forget",
             "alive", "promote", "prepare", "fork", "record", "await",
             "giveup", "drain"}
Running == Handling \cup {"idle"}
Label == Running \cup {"reset", "reap", "restart", "renew", "cleanup", "grace", "sweep", "down"}

TypeOK ==
    /\ apps \in [Port -> Output]
    /\ \A x \in late : x.port \in Port /\ x.ses \in Session
    /\ queue \in Seq(Line) /\ last \in Line \cup {None}
    /\ listening \in BOOLEAN /\ edited \in BOOLEAN /\ marker \in BOOLEAN
    /\ allowed \in [Package -> BOOLEAN]
    /\ ports \in [Port \cup Trigger -> Output]
    /\ token \in [Package -> Content \cup {"none"}]
    /\ record \in [Package -> Trigger \cup {None}]
    /\ owner \in [Package -> Trigger \cup {None}]
    /\ lease \in [Trigger -> [pkg : Package \cup {None},
                              proc : {"none", "opening", "open", "ready", "holding",
                                      "closing", "gone"},
                              worker : {"none", "waiting", "last", "gone"}, told : BOOLEAN,
                              file : {"none", "empty", "session", "ready", "lost"},
                              limit : Content \cup {"none"}]]
    /\ pc \in Label
    /\ task.pkg \in Package \cup {None} /\ task.trigger \in Trigger \cup {None}
    /\ task.kind \in Kind \cup {"none"} /\ task.start \in BOOLEAN
    /\ task.back \in {"idle", "reconcile", "decide"}
    /\ seen \subseteq Package /\ leaked \subseteq Package /\ unnamed \subseteq Package

-----------------------------------------------------------------------------
(* Helpers.                                                                *)

Spent ==
    used.plays + used.edits + used.faults + used.downs + (IF used.tracks = 0 THEN 0 ELSE 1)
Spend(what, max) ==
    /\ used[what] < max /\ (Spent < MaxEvents \/ (what = "tracks" /\ used.tracks > 0))
    /\ used' = [used EXCEPT ![what] = @ + 1]
Fault == Spend("faults", MaxFaults)
NoFault == UNCHANGED used

\* The line in hand stays the head of the queue until its handler is done.
line == Head(queue)
Goto(label) ==
    /\ pc' = label /\ UNCHANGED last
    /\ queue' = IF label = "idle" /\ pc \in Handling \cup {"idle"} THEN Tail(queue) ELSE queue

\* A line reaches the FIFO while logcat runs, and nobody otherwise.
Log(l) == /\ last' = l
          /\ queue' = IF listening THEN Append(queue, l) ELSE queue

NoTask == [pkg |-> None, kind |-> "none", start |-> FALSE, trigger |-> None,
           back |-> "idle"]
Task(p, kind, start, back) ==
    [pkg |-> p, kind |-> kind, start |-> start, trigger |-> None, back |-> back]

\* package_has_active_port.
HasPort(p) == \E q \in DOMAIN ports : ports[q].pkg = p

\* lease_alive: the record names a worker that runs.
Runs(t) == lease[t].worker \in {"waiting", "last"}
LeaseAlive(p) == record[p] # None /\ Runs(record[p])

\* trigger_session_matches.
SessionMatches(p, s) ==
    \E t \in Trigger : t = s /\ lease[t].pkg = p /\ lease[t].file \in {"session", "ready"}

\* promote_lease_token: a policy lease stays one.  When its call fails the token is
\* what it was, cut off, or written without its mode.
Promoted(current, kind) == IF current = "policy" THEN "policy" ELSE kind
Botched(current, kind) ==
    IF current = "policy" /\ kind # "policy" THEN {current} ELSE {current, "empty", kind}

\* kill PID and wait: the trap of the worker kills su and exits.  Whether the
\* trigger dies with su, and its stream with it, depends on su; and a worker that
\* is killed before it has noted the pid of su leaves su alone.
Survivors(victims) == IF Orphans THEN SUBSET victims ELSE {{}}
Killed(victims, orphans) ==
    [t \in Trigger |->
        IF t \notin victims THEN lease[t]
        ELSE [lease[t] EXCEPT
                !.worker = "gone",
                !.proc = IF t \in orphans \/ @ \in {"none", "gone"} THEN @
                         ELSE IF @ = "opening" THEN "gone" ELSE "closing"]]

\* kill PID and no wait: the worker goes on until it hears of it.
Told(victims) ==
    [t \in Trigger |-> [lease[t] EXCEPT !.told = @ \/ t \in victims]]

\* The session files of the packages are removed; or their directories are, and
\* then the files are lost to triggers that have yet to write them.
Unfiled(leases, packages, file) ==
    [t \in Trigger |-> IF leases[t].pkg \in packages
                       THEN [leases[t] EXCEPT !.file = file] ELSE leases[t]]

-----------------------------------------------------------------------------
(* The applications, AudioPolicy, the vendor's events and a2h_apply.       *)

AppStarts(q, p, s) ==
    /\ apps[q] = NoOutput /\ Spend("plays", MaxPlays)
    /\ [port |-> q, ses |-> s] \notin late
    /\ apps' = [apps EXCEPT ![q] = [pkg |-> p, ses |-> s]]
    /\ Log(Event("start", p, q, s))
    /\ UNCHANGED <<watcher, files, lease, late, listening, allowed, edited, marker>>

AppStops(q) ==
    /\ apps[q] # NoOutput
    /\ late' = late \cup {[port |-> q, ses |-> apps[q].ses]}
    /\ apps' = [apps EXCEPT ![q] = NoOutput]
    /\ UNCHANGED <<watcher, files, lease, log, listening, allowed, edited, marker, used>>

\* The line of a stop may come after the port has been given away.
StopLogged(x) ==
    /\ x \in late /\ late' = late \ {x}
    /\ Log(Event("stop", None, x.port, x.ses))
    /\ UNCHANGED <<watcher, files, lease, apps, listening, allowed, edited, marker, used>>

VendorEvent(p) ==
    /\ Spend("tracks", MaxTracks)
    /\ Log(Event("track", p, None, None))
    /\ UNCHANGED <<watcher, files, lease, outside, listening, marker>>

Edit(p) ==
    /\ Spend("edits", MaxEdits)
    /\ allowed' = [allowed EXCEPT ![p] = ~@] /\ edited' = TRUE
    /\ UNCHANGED <<watcher, files, lease, apps, late, log, listening, marker>>

\* signal_audio_reconcile, at the end of an apply.
Signal ==
    /\ edited /\ edited' = FALSE /\ marker' = TRUE
    /\ Log(Event("wake", None, None, None))
    /\ UNCHANGED <<watcher, files, lease, apps, late, listening, allowed, used>>

-----------------------------------------------------------------------------
(* The watcher: one line after another.                                    *)

\* handle_event_line: a reconcile that is due comes before the line.
Claim ==
    /\ pc = "idle" /\ queue # <<>> /\ marker
    /\ marker' = FALSE /\ Goto("reconcile")
    /\ UNCHANGED <<files, lease, outside, listening, task, seen, used>>

Begins(type) ==
    /\ pc = "handle" \/ (pc = "idle" /\ ~marker)
    /\ queue # <<>> /\ line.type = type

\* What a step of a handler leaves alone.
Quiet == UNCHANGED <<outside, listening, marker, seen>>
Finish == /\ Goto(task.back)
          /\ task' = NoTask

\* Mutant of Reconcile: without the loop over the tokens.
ReconcilePlaying ==
    /\ pc = "reconcile"
    /\ LET due == {p \in Package \ seen : HasPort(p)}
       IN \/ /\ due = {} /\ seen' = {} /\ Goto("handle") /\ UNCHANGED task
          \/ \E p \in due :
                /\ seen' = seen \cup {p} /\ Goto("revoke")
                /\ task' = Task(p, "policy", allowed[p], "reconcile")
    /\ UNCHANGED <<files, lease, outside, listening, marker, used>>

\* reconcile_active_leases: the packages of the ports, then those of the
\* tokens; only the watcher itself adds to either.
Reconcile ==
    LET playing == {p \in Package \ seen : HasPort(p)}
        holding == {p \in Package \ seen : token[p] # "none"}
        due == IF playing # {} THEN playing ELSE holding
    IN /\ pc = "reconcile"
       /\ \/ /\ due = {} /\ seen' = {} /\ Goto("handle") /\ UNCHANGED task
          \/ \E p \in due :
                /\ seen' = seen \cup {p}
                /\ task' = Task(p, IF HasPort(p) THEN "policy" ELSE "fallback",
                                allowed[p], "reconcile")
                /\ Goto("revoke")
       /\ UNCHANGED <<files, lease, outside, listening, marker, used>>

\* Mutant of HandleStart: nobody asks whose the port was.
HandleStartKeepsPrevious ==
    /\ Begins("start")
    /\ \/ /\ SessionMatches(line.pkg, line.ses) /\ Goto("idle") /\ UNCHANGED ports
       \/ /\ ~SessionMatches(line.pkg, line.ses) /\ Goto("decide")
          /\ ports' = [ports EXCEPT ![line.port] = [pkg |-> line.pkg, ses |-> line.ses]]
    /\ Quiet /\ NoFault /\ UNCHANGED <<leaked, unnamed, task, token, record, owner, lease>>

\* policy_start up to the port file.  A write or chmod that fails returns, with
\* the file untouched, empty or written, before the previous package is released.
HandleStart ==
    LET previous == ports[line.port]
        output == [pkg |-> line.pkg, ses |-> line.ses]
    IN /\ Begins("start")
       /\ \/ /\ SessionMatches(line.pkg, line.ses) /\ NoFault /\ Goto("idle")
             /\ UNCHANGED <<onFile, task>>
          \/ /\ ~SessionMatches(line.pkg, line.ses) /\ NoFault /\ UNCHANGED leaked
             /\ ports' = [ports EXCEPT ![line.port] = output]
             /\ IF previous.pkg \notin {None, line.pkg}
                THEN task' = Task(previous.pkg, "none", FALSE, "decide") /\ Goto("release")
                ELSE Goto("decide") /\ UNCHANGED task
          \/ /\ ~SessionMatches(line.pkg, line.ses) /\ Fault
             /\ \E written \in {output, NoOutput, previous} :
                   ports' = [ports EXCEPT ![line.port] = written]
             /\ leaked' = leaked \cup ({previous.pkg} \ {None})
             /\ Goto("idle") /\ UNCHANGED task
       /\ Quiet /\ UNCHANGED <<unnamed, token, record, owner, lease>>

\* policy_start, the rest.
Decide ==
    /\ pc = "decide"
    /\ task' = Task(line.pkg, "policy", allowed[line.pkg], "idle")
    /\ Goto(IF allowed[line.pkg] THEN "alive" ELSE "revoke")
    /\ Quiet /\ NoFault /\ UNCHANGED <<files, lease>>

\* Mutants of HandleStop: the file stays, without a package; any stop will do.
HandleStopBlanks ==
    /\ Begins("stop") /\ Goto("idle")
    /\ ports' = [ports EXCEPT ![line.port].pkg = None]
    /\ Quiet /\ NoFault /\ UNCHANGED <<leaked, unnamed, task, token, record, owner, lease>>
HandleStopAnySession ==
    /\ Begins("stop")
    /\ IF ports[line.port] = NoOutput
       THEN Goto("idle") /\ UNCHANGED <<ports, task>>
       ELSE /\ ports' = [ports EXCEPT ![line.port] = NoOutput] /\ Goto("release")
            /\ task' = Task(ports[line.port].pkg, "none", FALSE, "idle")
    /\ Quiet /\ NoFault /\ UNCHANGED <<leaked, unnamed, token, record, owner, lease>>

\* policy_stop.
HandleStop ==
    /\ Begins("stop")
    /\ LET current == ports[line.port]
       IN IF current.pkg = None \/ current.ses # line.ses
          THEN Goto("idle") /\ UNCHANGED <<ports, task>>
          ELSE /\ ports' = [ports EXCEPT ![line.port] = NoOutput]
               /\ task' = Task(current.pkg, "none", FALSE, "idle")
               /\ Goto("release")
    /\ Quiet /\ NoFault /\ UNCHANGED <<leaked, unnamed, token, record, owner, lease>>

\* trigger_for_package: the cooldown accepts or does not.
HandleTrack ==
    /\ Begins("track")
    /\ \/ Goto("idle") /\ UNCHANGED task
       \/ /\ allowed[line.pkg] /\ Goto("alive")
          /\ task' = Task(line.pkg, "fallback", TRUE, "idle")
    /\ Quiet /\ NoFault /\ UNCHANGED <<files, lease>>

HandleWake ==
    /\ Begins("wake") /\ Goto("idle")
    /\ Quiet /\ NoFault /\ UNCHANGED <<files, lease, task>>

\* release_policy_lease_if_idle.
Release ==
    /\ pc = "release" /\ Finish
    /\ token' = IF HasPort(task.pkg) THEN token ELSE [token EXCEPT ![task.pkg] = "none"]
    /\ Quiet /\ NoFault /\ UNCHANGED <<onFile, record, owner, lease>>

-----------------------------------------------------------------------------
(* stop_lease_for_reconcile: the token, the worker, the files.             *)

Revoke ==
    /\ pc = "revoke" /\ Goto("stop")
    /\ token' = [token EXCEPT ![task.pkg] = "none"]
    /\ Quiet /\ NoFault /\ UNCHANGED <<onFile, record, owner, lease, task>>

\* Mutant of Stop: the worker is left to find out.
StopWithoutKill ==
    /\ pc = "stop" /\ Goto("forget")
    /\ Quiet /\ NoFault /\ UNCHANGED <<files, lease, task>>

Stop ==
    /\ pc = "stop" /\ Goto("forget")
    /\ IF LeaseAlive(task.pkg)
       THEN \E orphans \in Survivors({record[task.pkg]}) :
                lease' = Killed({record[task.pkg]}, orphans)
       ELSE UNCHANGED lease
    /\ Quiet /\ NoFault /\ UNCHANGED <<files, task>>

Forget ==
    /\ pc = "forget"
    /\ record' = [record EXCEPT ![task.pkg] = None]
    /\ owner' = [owner EXCEPT ![task.pkg] = None]
    /\ lease' = Unfiled(lease, {task.pkg}, "none")
    /\ IF task.start THEN Goto("alive") /\ UNCHANGED task ELSE Finish
    /\ Quiet /\ NoFault /\ UNCHANGED <<onFile, token>>

-----------------------------------------------------------------------------
(* start_lease.  Its three looks at lease_alive are one: a worker that is  *)
(* dead stays dead, and only this process makes another.                   *)

Alive ==
    /\ pc = "alive" /\ Goto(IF LeaseAlive(task.pkg) THEN "promote" ELSE "prepare")
    /\ Quiet /\ NoFault /\ UNCHANGED <<files, lease, task>>

\* A failure is passed over.
Promote ==
    /\ pc = "promote" /\ Finish
    /\ \/ NoFault /\ token' = [token EXCEPT ![task.pkg] = Promoted(@, task.kind)]
       \/ /\ Fault
          /\ \E left \in Botched(token[task.pkg], task.kind) :
                token' = [token EXCEPT ![task.pkg] = left]
    /\ Quiet /\ UNCHANGED <<onFile, record, owner, lease>>

\* start_lease_owned up to the token.  No lease is left when all have been used: a failure.
Prepare ==
    LET granted == [token EXCEPT ![task.pkg] = Promoted(@, task.kind)]
        unused == {t \in Trigger : lease[t].pkg = None}
    IN /\ pc = "prepare"
       /\ record' = [record EXCEPT ![task.pkg] = None]
       /\ \/ /\ NoFault /\ Goto("fork") /\ token' = granted
             /\ \E t \in unused :
                   /\ \A u \in unused : t <= u
                   /\ task' = [task EXCEPT !.trigger = t]
                   /\ lease' = [Unfiled(lease, {task.pkg}, "none") EXCEPT
                                   ![t].pkg = task.pkg, ![t].file = "empty"]
          \/ /\ Fault \/ (NoFault /\ unused = {})
             /\ Finish /\ UNCHANGED <<token, lease>>
          \/ /\ Fault /\ Finish /\ lease' = Unfiled(lease, {task.pkg}, "none")
             /\ \E left \in Botched(token[task.pkg], task.kind) :
                   token' = [token EXCEPT ![task.pkg] = left]
       /\ Quiet /\ UNCHANGED <<onFile, owner>>

\* The owner file, and the worker with its su and trigger.
Fork ==
    /\ pc = "fork"
    /\ \/ /\ NoFault /\ Goto("record")
          /\ owner' = [owner EXCEPT ![task.pkg] = task.trigger]
          /\ lease' = [lease EXCEPT ![task.trigger].worker = "waiting",
                                    ![task.trigger].proc = "opening"]
          /\ UNCHANGED <<token, task>>
       \/ /\ Fault /\ Finish
          /\ token' = [token EXCEPT ![task.pkg] = "none"]
          /\ lease' = [lease EXCEPT ![task.trigger].file = "none"]
          /\ owner' \in {owner, [owner EXCEPT ![task.pkg] = None]}
    /\ Quiet /\ UNCHANGED <<onFile, record>>

\* The record.  A worker that has ended by now has removed its owner file.  When
\* it cannot be written the worker is told to end, and nobody waits for that.
Record ==
    /\ pc = "record"
    /\ IF ~Runs(task.trigger)
       THEN /\ NoFault /\ Finish
            /\ token' = [token EXCEPT ![task.pkg] = "none"]
            /\ owner' = [owner EXCEPT ![task.pkg] = None]
            /\ lease' = [lease EXCEPT ![task.trigger].file = "none"]
            /\ UNCHANGED <<record, unnamed>>
       ELSE \/ /\ NoFault /\ Goto("await")
               /\ record' = [record EXCEPT ![task.pkg] =
                                 IF owner[task.pkg] = task.trigger THEN task.trigger ELSE None]
               /\ UNCHANGED <<token, owner, lease, task, unnamed>>
            \/ /\ Fault /\ Finish
               /\ token' = [token EXCEPT ![task.pkg] = "none"]
               /\ owner' = [owner EXCEPT ![task.pkg] = None]
               /\ lease' = [Told({task.trigger}) EXCEPT ![task.trigger].file = "none"]
               /\ unnamed' = unnamed \cup {task.pkg}
               /\ UNCHANGED record
    /\ Quiet /\ UNCHANGED <<ports, leaked>>

\* Wait for the session file to say ready.
Await ==
    /\ pc = "await"
    /\ \/ lease[task.trigger].file = "ready" /\ NoFault /\ Finish
       \/ /\ lease[task.trigger].file # "ready" /\ ~Runs(task.trigger)
          /\ NoFault /\ Goto("giveup") /\ UNCHANGED task
       \/ /\ lease[task.trigger].file # "ready" /\ Fault
          /\ Goto("giveup") /\ UNCHANGED task
    /\ Quiet /\ UNCHANGED <<files, lease>>

GiveUp ==
    /\ pc = "giveup" /\ Goto("drain")
    /\ token' = [token EXCEPT ![task.pkg] = "none"]
    /\ Quiet /\ NoFault /\ UNCHANGED <<onFile, record, owner, lease, task>>

\* wait, however long the worker takes.
Drain ==
    /\ pc = "drain" /\ ~Runs(task.trigger) /\ Finish
    /\ record' = [record EXCEPT ![task.pkg] = None]
    /\ owner' = [owner EXCEPT ![task.pkg] = None]
    /\ lease' = [lease EXCEPT ![task.trigger].file = "none"]
    /\ Quiet /\ NoFault /\ UNCHANGED <<onFile, token>>

-----------------------------------------------------------------------------
(* The trigger, and the worker that waits for it.                          *)

Outside == UNCHANGED <<watcher, outside, listening, marker, onFile>>
Becomes(t, p) == lease' = [lease EXCEPT ![t].proc = p]

\* The session file is there before the stream starts and AudioPolicy logs it.
Open(t) ==
    /\ lease[t].proc = "opening" /\ lease[t].file # "lost" /\ NoFault
    /\ lease' = [lease EXCEPT ![t].proc = "open", ![t].file = "session"]
    /\ Log(Event("start", lease[t].pkg, t, t))
    /\ Outside /\ UNCHANGED <<token, record, owner>>

OpenFails(t) ==
    /\ lease[t].proc = "opening" /\ Becomes(t, "gone")
    /\ Fault \/ (lease[t].file = "lost" /\ NoFault)
    /\ Outside /\ UNCHANGED <<log, token, record, owner>>

\* STARTED, the first callback and the second writing of the file, or not.
Ready(t) ==
    /\ lease[t].proc = "open"
    /\ \/ /\ lease[t].file # "lost" /\ NoFault
          /\ lease' = [lease EXCEPT ![t].proc = "ready", ![t].file = "ready"]
       \/ /\ Fault \/ (lease[t].file = "lost" /\ NoFault)
          /\ Becomes(t, "closing")
    /\ Outside /\ UNCHANGED <<log, token, record, owner>>

\* Mutant of Look: a token that is gone is not a change.
LookMissesRemoval(t) ==
    /\ lease[t].proc \in {"ready", "holding"}
    /\ token[lease[t].pkg] \notin {"none", lease[t].limit}
    /\ lease' = [lease EXCEPT ![t].proc = "holding", ![t].limit = token[lease[t].pkg]]
    /\ NoFault /\ Outside /\ UNCHANGED <<log, token, record, owner>>

\* wait_for_lease looks at the token when it begins and whenever the directory
\* changes.
Look(t) ==
    /\ lease[t].proc \in {"ready", "holding"}
    /\ lease[t].proc = "holding" => token[lease[t].pkg] # lease[t].limit
    /\ lease' = [lease EXCEPT ![t].proc = IF token[lease[t].pkg] = "none" THEN "closing"
                                          ELSE "holding",
                              ![t].limit = token[lease[t].pkg]]
    /\ NoFault /\ Outside /\ UNCHANGED <<log, token, record, owner>>

\* The deadline of a fallback; a token that has changed by then is read first.
Expire(t) ==
    /\ lease[t].proc = "holding" /\ lease[t].limit = "fallback"
    /\ token[lease[t].pkg] = "fallback" /\ Becomes(t, "closing")
    /\ NoFault /\ Outside /\ UNCHANGED <<log, token, record, owner>>

Close(t) ==
    /\ lease[t].proc = "closing" /\ Becomes(t, "gone")
    /\ Log(Event("stop", None, t, t))
    /\ NoFault /\ Outside /\ UNCHANGED <<token, record, owner>>

\* rm -f TOKEN SESSION, whoever's the token is by now.
WorkerCleans(t) ==
    /\ lease[t].worker = "waiting" /\ lease[t].proc = "gone"
    /\ token' = [token EXCEPT ![lease[t].pkg] = "none"]
    /\ lease' = [lease EXCEPT ![t].worker = "last", ![t].file = "none"]
    /\ NoFault /\ Outside /\ UNCHANGED <<log, record, owner>>

\* The look at the owner file and the removal are one step.  A successor could write
\* in between only if this worker was told to end and not waited for; its package
\* is unnamed then.
WorkerEnds(t) ==
    /\ lease[t].worker = "last"
    /\ lease' = [lease EXCEPT ![t].worker = "gone"]
    /\ LET p == lease[t].pkg
       IN IF owner[p] = t
          THEN record' = [record EXCEPT ![p] = None] /\ owner' = [owner EXCEPT ![p] = None]
          ELSE UNCHANGED <<record, owner>>
    /\ NoFault /\ Outside /\ UNCHANGED <<log, token>>

\* The trap of a worker that was told to end; the command it was at is finished
\* first (WorkerCleans, WorkerEnds).
WorkerHears(t) ==
    /\ lease[t].told /\ Runs(t)
    /\ \E orphans \in Survivors({t}) : lease' = Killed({t}, orphans)
    /\ NoFault /\ Outside /\ UNCHANGED <<log, token, record, owner>>

-----------------------------------------------------------------------------
(* The end of logcat, and of the watcher.                                  *)

Recorded == {record[p] : p \in {x \in Package : LeaseAlive(x)}}
NoFiles == [p \in Package |-> None]
NoPorts == [q \in Port \cup Trigger |-> NoOutput]
NoTokens == [p \in Package |-> "none"]

LogcatDies ==
    /\ listening /\ Spend("downs", MaxDowns) /\ listening' = FALSE
    /\ UNCHANGED <<watcher, files, lease, outside, log, marker>>

\* The FIFO is read to its end; then reset_runtime_state.
EndOfFile ==
    /\ pc = "idle" /\ queue = <<>> /\ ~listening /\ Goto("reset")
    /\ UNCHANGED <<files, lease, outside, listening, marker, task, seen, used>>

\* reset_runtime_state: the tokens, then workers and files.
Reset ==
    /\ pc \in {"reset", "restart"} /\ token' = NoTokens
    /\ Goto(IF pc = "reset" THEN "reap" ELSE "renew")
    /\ UNCHANGED <<onFile, record, owner, lease, outside, listening, marker,
                   task, seen, used>>

\* The same in prepare_runtime, where the marker goes last.  logcat -T 1 repeats
\* the last line of the log.
Reap ==
    /\ pc \in {"reap", "renew"} /\ pc' = "idle"
    /\ queue' = (IF last = None THEN <<>> ELSE <<last>>) /\ UNCHANGED last
    /\ lease' = Unfiled(Told(Recorded), Package, "lost")
    /\ record' = NoFiles /\ owner' = NoFiles /\ ports' = NoPorts
    /\ listening' = TRUE /\ marker' = (marker /\ pc = "reap")
    /\ UNCHANGED <<leaked, unnamed, token, outside, task, seen, used>>

\* SIGKILL; or a signal that runs cleanup.  Neither the next watcher nor cleanup
\* finds a worker that has no record yet.
Dies(label) ==
    /\ Spend("downs", MaxDowns) /\ pc' = label
    /\ queue' = <<>> /\ UNCHANGED last /\ listening' = FALSE /\ task' = NoTask /\ seen' = {}
    /\ unnamed' = IF pc = "record" THEN unnamed \cup {task.pkg} ELSE unnamed
    /\ UNCHANGED <<ports, leaked, token, record, owner, lease, outside, marker>>
Kill == pc # "down" /\ Dies("down")
Terminate == pc \notin {"cleanup", "grace", "sweep", "down"} /\ Dies("cleanup")

\* cleanup: the tokens; a bounded wait for the workers, which are killed after
\* it; the files.
Cleanup ==
    /\ pc = "cleanup" /\ token' = NoTokens /\ Goto("grace")
    /\ UNCHANGED <<onFile, record, owner, lease, outside, listening, marker,
                   task, seen, used>>
Grace ==
    /\ pc = "grace" /\ Goto("sweep")
    /\ \E orphans \in Survivors(Recorded) : lease' = Killed(Recorded, orphans)
    /\ UNCHANGED <<files, outside, listening, marker, task, seen, used>>
Sweep ==
    /\ pc = "sweep" /\ Goto("down")
    /\ record' = NoFiles /\ owner' = NoFiles /\ ports' = NoPorts
    /\ lease' = Unfiled(lease, Package, "lost")
    /\ UNCHANGED <<leaked, unnamed, token, outside, listening, marker, task, seen, used>>

\* The service starts it again.
Restart ==
    /\ pc = "down" /\ Goto("restart")
    /\ UNCHANGED <<files, lease, outside, listening, marker, task, seen, used>>

-----------------------------------------------------------------------------

NoLease == [pkg |-> None, proc |-> "none", worker |-> "none", told |-> FALSE,
            file |-> "none", limit |-> "none"]

\* After the boot cleanup and prepare_runtime.
Init ==
    /\ apps = [q \in Port |-> NoOutput] /\ late = {} /\ queue = <<>> /\ last = None
    /\ listening = TRUE
    /\ allowed = [p \in Package |-> p \in Enabled] /\ edited = FALSE /\ marker = FALSE
    /\ ports = NoPorts /\ token = NoTokens /\ record = NoFiles /\ owner = NoFiles
    /\ lease = [t \in Trigger |-> NoLease]
    /\ pc = "idle" /\ task = NoTask /\ seen = {}
    /\ leaked = {} /\ unnamed = {}
    /\ used = [plays |-> 0, tracks |-> 0, edits |-> 0, faults |-> 0, downs |-> 0]

World ==
    \/ \E q \in Port, p \in Package, s \in Session : AppStarts(q, p, s)
    \/ \E q \in Port : AppStops(q)
    \/ \E x \in late : StopLogged(x)
    \/ \E p \in Package : VendorEvent(p) \/ Edit(p)
    \/ Signal

Handler ==
    \/ Claim \/ Reconcile
    \/ HandleStart \/ Decide \/ HandleStop \/ HandleTrack \/ HandleWake \/ Release
    \/ Revoke \/ Stop \/ Forget
    \/ Alive \/ Promote \/ Prepare \/ Fork \/ Record \/ Await \/ GiveUp \/ Drain

Stream(t) ==
    \/ Open(t) \/ OpenFails(t) \/ Ready(t) \/ Look(t) \/ Expire(t) \/ Close(t)
    \/ WorkerCleans(t) \/ WorkerEnds(t) \/ WorkerHears(t)

Life ==
    \/ EndOfFile \/ Reset \/ Reap \/ Cleanup \/ Grace \/ Sweep \/ Restart

Next ==
    \/ World \/ Handler \/ Life
    \/ \E t \in Trigger : Stream(t)
    \/ LogcatDies \/ Kill \/ Terminate

Spec == Init /\ [][Next]_vars

\* Processes run, deadlines pass, an apply follows an edit, a line is written.
FairSpec ==
    /\ Spec
    /\ WF_vars(Handler) /\ WF_vars(Life) /\ WF_vars(Signal)
    /\ WF_vars(\E x \in late : StopLogged(x))
    /\ \A t \in Trigger : WF_vars(Stream(t))

-----------------------------------------------------------------------------
(* Properties.                                                             *)

\* A lease without a deadline has an output of its package on file: nothing else
\* would ever take it back.  Excepted are a token that a failing write has left
\* empty (write_lease_token; it stays as long as its trigger), and a package whose
\* port went to another while the port file could not be written.
\* (policy_start, policy_stop, release_policy_lease_if_idle)
PolicyHasPort ==
    \A p \in Package :
        token[p] \in NoDeadline /\ p \notin leaked =>
            \/ token[p] = "empty" /\ used.faults > 0
            \/ HasPort(p)
            \/ pc = "release" /\ task.pkg = p
            \/ pc \in {"cleanup", "down", "restart"}

\* A token of a package that the configuration no longer allows is on its way
\* out: the edit is still to be signalled, the signal to be read, or the
\* reconcile to reach the package.  (reconcile_active_leases, policy_start)
DisallowedIsPending ==
    \A p \in Package :
        token[p] # "none" /\ ~allowed[p] =>
            \/ edited \/ marker
            \/ p \notin seen /\ (pc = "reconcile" \/ task.back = "reconcile")
            \/ pc = "revoke" /\ task.pkg = p
            \/ pc \in {"cleanup", "down", "restart"}

\* While no line is lost and no call fails, the files of the ports agree with
\* AudioPolicy as soon as all lines are read: a stop that comes late ends no output
\* but its own.
\* (policy_start, policy_stop)
PortsAgree ==
    pc = "idle" /\ queue = <<>> /\ used.downs = 0 /\ used.faults = 0 =>
        \A q \in Port :
            \/ ports[q] = apps[q]
            \/ apps[q] = NoOutput /\ [port |-> q, ses |-> ports[q].ses] \in late

\* A package never has two workers, unless the watcher or logcat died, or the
\* record of a worker could not be written: that one was told to end and may
\* still run when the next is started.  (start_lease_owned, stop_lease_for_reconcile)
OneWorker ==
    used.downs = 0 =>
        \A t, u \in Trigger :
            Runs(t) /\ Runs(u) /\ lease[t].pkg = lease[u].pkg /\ lease[t].pkg \notin unnamed
            => t = u

\* Once nothing changes any more, a stream is held open only for an allowed
\* package that plays: what was started by a vendor event expires, what lost
\* its port, its permission or its watcher ends.  Excepted are a stream that has
\* read an empty token (see PolicyHasPort) and the packages of which the watcher
\* has lost a port or a worker.  (wait_for_lease, cleanup)
OnlyPlayingHold ==
    <>[](\A t \in Trigger :
            /\ lease[t].proc \in {"ready", "holding"} /\ lease[t].limit # "empty"
            /\ lease[t].pkg \notin leaked \cup unnamed
            => allowed[lease[t].pkg] /\ \E q \in Port : apps[q].pkg = lease[t].pkg)

\* A package with an active output has its policy lease whenever the watcher has
\* read all lines and no call has failed.  (policy_start, start_lease)
PlayingHasLease ==
    pc = "idle" /\ queue = <<>> /\ ~edited /\ ~marker
      /\ used.downs = 0 /\ used.faults = 0 =>
        \A q \in Port :
            apps[q] # NoOutput /\ allowed[apps[q].pkg] => token[apps[q].pkg] = "policy"

=============================================================================
