---------------------------- MODULE ConfigSession ----------------------------
(* What a command of a2h_apply that holds the config lock promises, and     *)
(* ApplyQueue relies on: the configuration that the next apply will see     *)
(* changes as the command asks, in one step, or the exit status says that   *)
(* it did not; then controls have their old or their new values, and only   *)
(* a commit, or the installation of the default table, can have left        *)
(* other packages.  Nothing is promised once a file manager has written     *)
(* while the command was at work.                                           *)
CONSTANTS
    Command,
    View,            \* configurations: [mode, policy, pkgs]
    Table,           \* what the patcher's package file may hold
    Outcome(_, _),   \* the configuration a command makes of another
    Fallback,        \* the packages of the default table
    None

VARIABLES
    view,       \* the configuration
    runtime,    \* the patcher's package file
    session,    \* the command that holds the lock
    status,     \* the exit status of the last, or of this one if it has failed
    disturbed   \* has anybody else written since it began?

Status == {0, 1, 74, 75, 130, 137}

Init ==
    /\ view \in View /\ runtime \in Table
    /\ session = None /\ status = 1 /\ disturbed = FALSE

Open == \E c \in Command :
    /\ session = None /\ session' = c
    /\ status' = 0 /\ disturbed' = FALSE /\ UNCHANGED <<view, runtime>>

Alone == session # None /\ ~disturbed /\ UNCHANGED disturbed

\* prepare writes the patcher's package file.
Publish ==
    /\ Alone /\ session.kind = "prepare" /\ runtime' = view.pkgs
    /\ UNCHANGED <<view, session, status>>

Succeed ==
    /\ Alone /\ status = 0 /\ session' = None
    /\ view' = Outcome(session, view)
    /\ session.kind = "prepare" => runtime = view.pkgs
    /\ UNCHANGED <<runtime, status>>

\* What a command that fails or is killed may leave.
MayLeave(v) ==
    LET asked == Outcome(session, view) IN
    /\ v.mode \in {view.mode, asked.mode} \/ (session.kind = "commit" /\ v.mode = "disabled")
    /\ v.policy \in {view.policy, asked.policy} \/ (session.kind = "commit" /\ v.policy = "enabled")
    /\ \/ v.pkgs = view.pkgs \/ session.kind = "commit"
       \/ session.kind = "prepare" /\ view.pkgs = Fallback

Fail ==
    /\ Alone /\ status = 0 /\ session' \in {session, None}
    /\ status' \in IF session.kind = "commit" THEN {74, 75, 130, 137} ELSE {1, 137}
    /\ view' \in View /\ MayLeave(view')
    /\ UNCHANGED runtime

Leave ==
    /\ Alone /\ status # 0 /\ session' = None /\ status' \in {status, 137}
    /\ UNCHANGED <<view, runtime>>

Disturb ==
    /\ disturbed'
    /\ \/ UNCHANGED <<session, status>>
       \/ session # None /\ session' \in {session, None} /\ status' \in Status
    /\ runtime' \in Table /\ view' \in View

\* prepare has looked again: since then nobody has written.
Settle ==
    /\ disturbed /\ disturbed' = FALSE /\ session # None /\ session.kind = "prepare"
    /\ runtime = view.pkgs /\ UNCHANGED <<view, runtime, session, status>>

Next == Open \/ Publish \/ Succeed \/ Fail \/ Leave \/ Disturb \/ Settle

Spec == Init /\ [][Next]_<<view, runtime, session, status, disturbed>>
=============================================================================
