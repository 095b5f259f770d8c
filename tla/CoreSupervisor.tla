--------------------------- MODULE CoreSupervisor ---------------------------
(***************************************************************************)
(* The life of the Deskflow Core child under the supervisor of one daemon  *)
(* (crates/synbadd/src/supervisor): start, resolve, spawn, watch, exit,    *)
(* retry, stop.  The supervisor is one task, so a handler is one step; it  *)
(* interleaves with the resolution task, with the Core processes, with     *)
(* their log lines and exit reports waiting in channels, with timers, with *)
(* the user, and with the daemon stopping, crashing and starting again.    *)
(*                                                                         *)
(* Time is abstracted: an armed timer may fire at any moment.  A config is *)
(* a member of Configs; only valid ones occur, because Config::load,       *)
(* Config::save and the merge path all validate, so build_command never    *)
(* fails (its error branch is dead code) and is not modelled.              *)
(***************************************************************************)
EXTENDS Backoff, Sequences

CONSTANTS
    Pids,           \* process ids the kernel hands out
    NoPid,          \* child_pid = None
    Configs,        \* valid configs: [role, core, layout, ports]
    NoConfig,       \* core_resolving = false
    NoLaunch,       \* no child, hence no command line
    Screens,        \* remote screen names the Core may report
    LogCap,         \* bound on lines waiting in the Core log channel
    StopMayTimeOut, \* may a killed Core outlive the 2 s wait of stop_core?
    MarkerMayFail,  \* may writing or removing the user-stopped file fail?
    EditMayRace,    \* may a rejected merge meet an edit not yet applied?
    ParentDeathSignal   \* cfg(target_os = "linux"): PR_SET_PDEATHSIG is armed

ASSUME CoreAssumption ==
    /\ NoPid \notin Pids
    /\ NoConfig \notin Configs
    /\ \A c \in Configs : c.role \in Roles
    /\ LogCap \in Nat
    /\ StopMayTimeOut \in BOOLEAN
    /\ MarkerMayFail \in BOOLEAN
    /\ EditMayRace \in BOOLEAN
    /\ ParentDeathSignal \in BOOLEAN

\* What Config::core_inputs_differ compares: everything but the fields that
\* only the daemon reads.
CoreView(c) == [role |-> c.role, core |-> c.core, layout |-> c.layout]

\* Mutant of CoreInputsDiffer: the role is forgotten.
RoleIgnored(c, d) == c.core # d.core \/ c.layout # d.layout

CoreInputsDiffer(c, d) == CoreView(c) # CoreView(d)

Launches == [args : {CoreView(c) : c \in Configs}, core : {c.core : c \in Configs}]

ASSUME NoLaunchAssumption == NoLaunch \notin Launches

\* The Core log lines log_parse recognises.
ClientLines == [kind : {"connectedToServer", "disconnectedFromServer"}]
ServerLines ==
    [kind : {"startedServer"}]
        \cup [kind : {"peerConnected", "peerDisconnected"}, name : Screens]
Lines == ClientLines \cup ServerLines

NotArmed == 0

VARIABLES
    up,               \* is a daemon running on this machine?
    user_stopped,     \* does the user-stopped marker file exist?
    config,           \* Supervisor::config
    desired_running,  \* Supervisor::desired_running; kept while down as history
    state,            \* Supervisor::state, without its payload
    connected_peers,  \* Supervisor::connected_peers (and active_screen with it)
    child_pid,        \* Supervisor::child_pid
    child_kill,       \* is Supervisor::child_kill Some?
    launched,         \* what the current child was launched with
    procs,            \* the Core processes, as the kernel and exit_rx see them
    core_resolving,   \* the config given to the resolution task in flight
    restart_at,       \* delay of the armed restart timer, or NotArmed
    backoff,          \* Supervisor::backoff
    fast_fail_count,  \* Supervisor::fast_fail_count
    core_ready_at,    \* None, or for how long the Core has been ready
    core_connect_deadline,  \* is the connect watchdog armed?
    core_log          \* lines read from Core pipes, waiting for the loop

\* Groups of variables that actions leave alone together.
intentVars == <<user_stopped, desired_running>>
childVars  == <<child_pid, child_kill, launched>>
retryVars  == <<restart_at, backoff, fast_fail_count>>
watchVars  == <<core_ready_at, core_connect_deadline>>
vars == <<up, intentVars, config, state, connected_peers, childVars, procs,
          core_resolving, retryVars, watchVars, core_log>>

ProcStates == {"free",      \* not in use
               "alive",     \* running, nobody asked it to stop
               "killed",    \* running, the kill was sent
               "orphan",    \* running, its daemon crashed and nothing stopped it
               "exited"}    \* gone; its report waits in exit_rx

\* Every variable has its type; the failure counter and the backoff stay within
\* their limits.
TypeOK ==
    /\ up \in BOOLEAN
    /\ user_stopped \in BOOLEAN
    /\ config \in Configs
    /\ desired_running \in BOOLEAN
    /\ state \in {"Stopped", "Starting", "Running", "Reconnecting", "Crashed"}
    /\ connected_peers \in SUBSET Screens
    /\ child_pid \in Pids \cup {NoPid}
    /\ child_kill \in BOOLEAN
    /\ launched \in Launches \cup {NoLaunch}
    /\ procs \in [Pids -> ProcStates]
    /\ core_resolving \in Configs \cup {NoConfig}
    /\ restart_at \in Nat
    /\ backoff \in MIN_BACKOFF .. MAX_BACKOFF
    /\ fast_fail_count \in 0 .. U32_MAX
    /\ core_ready_at \in {"None", "Recent", "Healthy"}
    /\ core_connect_deadline \in BOOLEAN
    /\ core_log \in Seq([pid : Pids, line : Lines])
-----------------------------------------------------------------------------
(***************************************************************************)
(* Methods of the supervisor, as parts of actions.                         *)
(***************************************************************************)
\* set_state: leaving Running forgets what the Core reported.
SetState(s) ==
    /\ state' = s
    /\ connected_peers' = IF s # state /\ s # "Running" THEN {} ELSE connected_peers

\* Mutant of PersistUserStopped: the marker is written but never removed.
PersistOnlyStops(stopped) == user_stopped' = (stopped \/ user_stopped)

\* persist_user_stopped: best effort.
PersistUserStopped(stopped) ==
    \/ user_stopped' = stopped
    \/ MarkerMayFail /\ UNCHANGED user_stopped

\* schedule_restart, given the failure count it sees.
ScheduleRestart(failures) ==
    /\ restart_at' = ScheduledDelay(failures, backoff, config.role)
    /\ backoff' = NextBackoff(backoff, config.role)

\* The resolution task start_core spawns, unless one is in flight already.
BeginResolving ==
    core_resolving' = IF core_resolving = NoConfig THEN config' ELSE core_resolving

\* Mutant of StartCore: returns early in every state but Stopped.
StartOnlyFromStopped ==
    /\ restart_at' = NotArmed
    /\ IF state # "Stopped"
       THEN UNCHANGED <<state, connected_peers, core_resolving>>
       ELSE SetState("Starting") /\ BeginResolving

\* start_core.
StartCore ==
    /\ restart_at' = NotArmed
    /\ IF state = "Running" \/ child_kill
       THEN UNCHANGED <<state, connected_peers, core_resolving>>
       ELSE SetState("Starting") /\ BeginResolving

\* child_kill.take() followed by kill.send(()).
KillChild ==
    /\ child_kill' = FALSE
    /\ procs' = IF child_kill /\ procs[child_pid] = "alive"
                THEN [procs EXCEPT ![child_pid] = "killed"]
                ELSE procs

Exited == {p \in Pids : procs[p] = "exited"}

\* The wait of stop_core for the child it kills.  It returns once the report
\* of that child is read, having thrown away the reports queued before it, or
\* after 2 s, having thrown away every report but that one.  A child whose
\* kill handle is already gone is not waited for.
AwaitExit ==
    \/ ~child_kill /\ UNCHANGED procs
    \/ /\ child_kill
       /\ \E drained \in SUBSET Exited :
             procs' = [p \in Pids |->
                          IF p = child_pid \/ p \in drained THEN "free" ELSE procs[p]]
    \/ /\ child_kill
       /\ StopMayTimeOut
       /\ procs[child_pid] = "alive"
       /\ procs' = [p \in Pids |->
                       IF p = child_pid THEN "killed"
                       ELSE IF p \in Exited THEN "free" ELSE procs[p]]

\* Mutant of ReleaseChild: a pending retry survives.
ReleaseKeepsTimer ==
    /\ AwaitExit
    /\ child_pid' = NoPid /\ child_kill' = FALSE /\ launched' = NoLaunch
    /\ core_ready_at' = "None" /\ core_connect_deadline' = FALSE
    /\ UNCHANGED restart_at

\* stop_core up to the state it ends in.
ReleaseChild ==
    /\ AwaitExit
    /\ child_pid' = NoPid
    /\ child_kill' = FALSE
    /\ launched' = NoLaunch
    /\ core_ready_at' = "None"
    /\ core_connect_deadline' = FALSE
    /\ restart_at' = NotArmed

\* Mutant of StopCore: the state is not updated.
StopSilently == ReleaseChild /\ UNCHANGED <<state, connected_peers>>

\* stop_core.
StopCore == ReleaseChild /\ SetState("Stopped")

\* restart_core: stop_core leaves nothing that makes start_core return early.
RestartCore ==
    /\ fast_fail_count' = 0
    /\ backoff' = MIN_BACKOFF
    /\ ReleaseChild
    /\ state' = "Starting"
    /\ connected_peers' = {}
    /\ BeginResolving
-----------------------------------------------------------------------------
(***************************************************************************)
(* IPC requests.                                                           *)
(***************************************************************************)
RequestStart ==
    /\ up
    /\ desired_running' = TRUE
    /\ PersistUserStopped(FALSE)
    /\ fast_fail_count' = 0
    /\ backoff' = MIN_BACKOFF
    /\ UNCHANGED config
    /\ StartCore
    /\ UNCHANGED <<up, childVars, procs, watchVars, core_log>>

RequestStop ==
    /\ up
    /\ desired_running' = FALSE
    /\ PersistUserStopped(TRUE)
    /\ fast_fail_count' = 0
    /\ StopCore
    /\ UNCHANGED <<up, config, backoff, core_resolving, core_log>>

RequestRestart ==
    /\ up
    /\ desired_running' = TRUE
    /\ PersistUserStopped(FALSE)
    /\ UNCHANGED config
    /\ RestartCore
    /\ UNCHANGED <<up, core_log>>

\* The lifecycle part of an applied config change: set_config and the file
\* watcher (apply_local_edit) and a valid merge from a peer (handle_sync_op).
ChangeConfig(c) ==
    /\ up
    /\ c # config
    /\ config' = c
    /\ \/ /\ desired_running /\ CoreInputsDiffer(config, c)
          /\ RestartCore
       \/ /\ ~(desired_running /\ CoreInputsDiffer(config, c))
          /\ UNCHANGED <<state, connected_peers, childVars, procs, core_resolving,
                         retryVars, watchVars>>
    /\ UNCHANGED <<up, intentVars, core_log>>

\* handle_sync_op rejects a merge and reloads the file.  When the user has just
\* saved an edit whose file event still waits in fs_rx, that edit becomes the
\* config here, and the event finds nothing left to apply.
RollbackAdoptsEdit(c) ==
    /\ up
    /\ EditMayRace
    /\ c # config
    /\ config' = c
    /\ UNCHANGED <<up, intentVars, state, connected_peers, childVars, procs,
                   core_resolving, retryVars, watchVars, core_log>>
-----------------------------------------------------------------------------
(***************************************************************************)
(* Arms of the select! loop that drive the Core.                           *)
(***************************************************************************)
\* restart_due.
RestartDue ==
    /\ up
    /\ restart_at # NotArmed
    /\ UNCHANGED config
    /\ IF desired_running
       THEN StartCore
       ELSE /\ restart_at' = NotArmed
            /\ UNCHANGED <<state, connected_peers, core_resolving>>
    /\ UNCHANGED <<up, intentVars, childVars, procs, backoff, fast_fail_count,
                   watchVars, core_log>>

\* on_core_resolved when nobody wants the Core any more, or one runs already.
ResolutionUnwanted ==
    /\ up
    /\ core_resolving # NoConfig
    /\ ~desired_running \/ state = "Running" \/ child_kill
    /\ core_resolving' = NoConfig
    /\ UNCHANGED <<up, intentVars, config, state, connected_peers, childVars,
                   procs, retryVars, watchVars, core_log>>

\* Mutant of ResolutionWanted: a Stop that came meanwhile is not noticed.
ResolutionAlwaysWanted ==
    up /\ core_resolving # NoConfig /\ state # "Running" /\ ~child_kill

ResolutionWanted ==
    /\ up
    /\ core_resolving # NoConfig
    /\ desired_running
    /\ state # "Running"
    /\ ~child_kill

\* on_core_resolved -> start_failed: the download, writing the generated files
\* or the spawn failed.
ResolutionFailed ==
    /\ ResolutionWanted
    /\ core_resolving' = NoConfig
    /\ fast_fail_count' = SaturatingIncr(fast_fail_count)
    /\ ScheduleRestart(fast_fail_count')
    /\ SetState("Crashed")
    /\ UNCHANGED <<up, intentVars, config, childVars, procs, watchVars, core_log>>

\* on_core_resolved -> spawn_child: generated files and argv come from the live
\* config, the program from the config the resolution was started with.  The
\* kernel reuses a pid only when nothing of its previous owner is left.
SpawnChild(p) ==
    /\ ResolutionWanted
    /\ procs[p] = "free"
    /\ \A i \in DOMAIN core_log : core_log[i].pid # p
    /\ procs' = [procs EXCEPT ![p] = "alive"]
    /\ child_pid' = p
    /\ child_kill' = TRUE
    /\ launched' = [args |-> CoreView(config), core |-> core_resolving.core]
    /\ core_resolving' = NoConfig
    /\ SetState("Running")
    /\ core_ready_at' = "None"
    /\ core_connect_deadline' = TRUE
    /\ UNCHANGED <<up, intentVars, config, retryVars, core_log>>

\* Mutant of CoreStalled: the stall is logged and nothing is killed.
StallOnlyLogged ==
    /\ up
    /\ core_connect_deadline
    /\ core_connect_deadline' = FALSE
    /\ UNCHANGED <<up, intentVars, config, state, connected_peers, childVars, procs,
                   core_resolving, retryVars, core_ready_at, core_log>>

\* core_stalled: the connect watchdog fires.
CoreStalled ==
    /\ up
    /\ core_connect_deadline
    /\ core_connect_deadline' = FALSE
    /\ KillChild
    /\ UNCHANGED <<up, intentVars, config, state, connected_peers, child_pid,
                   launched, core_resolving, retryVars, core_ready_at, core_log>>

\* Mutant of IgnoreExit: the pid is not compared with the current child's.
IgnoreAnyExit(p) ==
    /\ up
    /\ procs[p] = "exited"
    /\ procs' = [procs EXCEPT ![p] = "free"]
    /\ UNCHANGED <<up, intentVars, config, state, connected_peers, childVars,
                   core_resolving, retryVars, watchVars, core_log>>

\* handle_child_exit for a child that was superseded: ignored.
IgnoreExit(p) ==
    /\ up
    /\ procs[p] = "exited"
    /\ p # child_pid
    /\ procs' = [procs EXCEPT ![p] = "free"]
    /\ UNCHANGED <<up, intentVars, config, state, connected_peers, childVars,
                   core_resolving, retryVars, watchVars, core_log>>

\* handle_child_exit for the current child.
HandleExit(p) ==
    /\ up
    /\ procs[p] = "exited"
    /\ p = child_pid
    /\ procs' = [procs EXCEPT ![p] = "free"]
    /\ child_pid' = NoPid
    /\ child_kill' = FALSE
    /\ launched' = NoLaunch
    /\ core_connect_deadline' = FALSE
    /\ core_ready_at' = "None"
    /\ fast_fail_count' = IF core_ready_at = "Healthy"
                          THEN 0 ELSE SaturatingIncr(fast_fail_count)
    /\ LET kept == IF core_ready_at = "Healthy" THEN MIN_BACKOFF ELSE backoff
       IN IF desired_running
          THEN /\ restart_at' = ScheduledDelay(fast_fail_count', kept, config.role)
               /\ backoff' = NextBackoff(kept, config.role)
               /\ SetState(IF config.role = "Client" THEN "Reconnecting" ELSE "Crashed")
          ELSE /\ backoff' = kept
               /\ SetState("Stopped")
               /\ UNCHANGED restart_at
    /\ UNCHANGED <<up, intentVars, config, core_resolving, core_log>>

Ready(line) == line.kind \in {"connectedToServer", "startedServer"}

\* Mutant of DisarmsWatchdog: any output counts as progress.
AnyLineDisarms(line) == TRUE

DisarmsWatchdog(line) ==
    line.kind = "connectedToServer" \/ (config.role = "Server" /\ Ready(line))

\* What the loop does with a line of the current child: note readiness, disarm
\* the watchdog, force a reconnect, record peers.
HandleOwnLine(line) ==
    /\ core_ready_at' = IF Ready(line) /\ core_ready_at = "None"
                        THEN "Recent" ELSE core_ready_at
    /\ core_connect_deadline' =
          IF DisarmsWatchdog(line) THEN FALSE ELSE core_connect_deadline
    /\ IF config.role = "Client" /\ line.kind = "disconnectedFromServer"
       THEN KillChild ELSE UNCHANGED <<child_kill, procs>>
    /\ connected_peers' =
          CASE line.kind = "peerConnected" -> connected_peers \cup {line.name}
            [] line.kind = "peerDisconnected" -> connected_peers \ {line.name}
            [] OTHER -> connected_peers

\* Mutant of HandleLogLine: lines of a retired Core are believed.
BelieveAnyLine ==
    /\ up
    /\ core_log # <<>>
    /\ core_log' = Tail(core_log)
    /\ HandleOwnLine(Head(core_log).line)
    /\ UNCHANGED <<up, intentVars, config, state, child_pid, launched,
                   core_resolving, retryVars>>

\* The core_log arm; a line of a retired Core is only recorded as text.
HandleLogLine ==
    /\ up
    /\ core_log # <<>>
    /\ core_log' = Tail(core_log)
    /\ IF Head(core_log).pid = child_pid
       THEN HandleOwnLine(Head(core_log).line)
       ELSE UNCHANGED <<watchVars, child_kill, procs, connected_peers>>
    /\ UNCHANGED <<up, intentVars, config, state, child_pid, launched,
                   core_resolving, retryVars>>
-----------------------------------------------------------------------------
(***************************************************************************)
(* The Core process, the clock, and the daemon process itself.             *)
(***************************************************************************)
\* The current Core prints a line.  (Lines a retired Core prints later have
\* the same effect as lines it printed before, so those suffice.)
CorePrints(line) ==
    /\ child_pid # NoPid
    /\ procs[child_pid] \in {"alive", "killed"}
    /\ line \in IF launched.args.role = "Client" THEN ClientLines ELSE ServerLines
    /\ Len(core_log) < LogCap
    /\ core_log' = Append(core_log, [pid |-> child_pid, line |-> line])
    /\ UNCHANGED <<up, intentVars, config, state, connected_peers, childVars, procs,
                   core_resolving, retryVars, watchVars>>

\* A Core ends; the exit watcher of a running daemon queues the report of a Core
\* of its own.
CoreExits(p) ==
    /\ procs[p] \in {"alive", "killed", "orphan"}
    /\ procs' = [procs EXCEPT ![p] = IF up /\ procs[p] # "orphan" THEN "exited" ELSE "free"]
    /\ UNCHANGED <<up, intentVars, config, state, connected_peers, childVars,
                   core_resolving, retryVars, watchVars, core_log>>

\* CORE_HEALTHY_WINDOW passes since the Core reported readiness.
HealthyWindowPasses ==
    /\ core_ready_at = "Recent"
    /\ core_ready_at' = "Healthy"
    /\ UNCHANGED <<up, intentVars, config, state, connected_peers, childVars, procs,
                   core_resolving, retryVars, core_connect_deadline, core_log>>

\* Mutant of ProcsAfterStop: the loop ends without stop_core.
ProcsUnkilled == [p \in Pids |-> IF procs[p] = "exited" THEN "free" ELSE procs[p]]

\* stop_core has killed the child, and earlier children were killed when they
\* were superseded; reports nobody reads any more are gone.
ProcsAfterStop ==
    [p \in Pids |-> CASE procs[p] \in {"alive", "killed"} -> "killed"
                      [] procs[p] = "exited" -> "free"
                      [] OTHER -> procs[p]]

\* No code of the daemon runs after a SIGKILL or an abort, so kill_on_drop does
\* not help.  The kernel's parent-death signal reaches every Core of the daemon on
\* Linux; elsewhere the child lives on, and so may one whose kill the exit
\* watcher had not yet carried out.
ProcsAfterCrash(unkilled) ==
    [p \in Pids |-> CASE procs[p] \in {"alive", "killed"} ->
                            IF ParentDeathSignal \/ p \notin unkilled THEN "killed" ELSE "orphan"
                      [] procs[p] = "exited" -> "free"
                      [] OTHER -> procs[p]]

\* What ends with the daemon process, however it ends.
DaemonGone ==
    /\ up
    /\ up' = FALSE
    /\ child_pid' = NoPid
    /\ child_kill' = FALSE
    /\ launched' = NoLaunch
    /\ core_ready_at' = "None"
    /\ core_connect_deadline' = FALSE
    /\ restart_at' = NotArmed
    /\ core_resolving' = NoConfig
    /\ SetState("Stopped")
    /\ core_log' = <<>>
    /\ UNCHANGED <<intentVars, config, backoff, fast_fail_count>>

\* A Shutdown request or a signal: the loop ends with stop_core.
DaemonStops == DaemonGone /\ procs' = ProcsAfterStop

\* The daemon dies without running another line of its code.
DaemonCrashes ==
    /\ DaemonGone
    /\ \E unkilled \in SUBSET Pids :
          /\ \A p \in Pids : procs[p] = "alive" => p \in unkilled
          /\ procs' = ProcsAfterCrash(unkilled)

\* Supervisor::new: sharing starts unless the user stopped it last time.
Launch ==
    /\ ~up
    /\ up' = TRUE
    /\ desired_running' = ~user_stopped
    /\ fast_fail_count' = 0
    /\ backoff' = MIN_BACKOFF
    /\ UNCHANGED config
    /\ \/ /\ ~user_stopped
          /\ StartCore
       \/ /\ user_stopped
          /\ UNCHANGED <<state, connected_peers, core_resolving, restart_at>>
    /\ UNCHANGED <<user_stopped, childVars, procs, watchVars, core_log>>

\* The first launch on a machine, before the loop runs.
Init ==
    /\ up = TRUE
    /\ user_stopped = FALSE
    /\ config \in Configs
    /\ desired_running = TRUE
    /\ state = "Starting"
    /\ connected_peers = {}
    /\ child_pid = NoPid
    /\ child_kill = FALSE
    /\ launched = NoLaunch
    /\ procs = [p \in Pids |-> "free"]
    /\ core_resolving = config
    /\ restart_at = NotArmed
    /\ backoff = MIN_BACKOFF
    /\ fast_fail_count = 0
    /\ core_ready_at = "None"
    /\ core_connect_deadline = FALSE
    /\ core_log = <<>>

User ==
    \/ RequestStart
    \/ RequestStop
    \/ RequestRestart
    \/ \E c \in Configs : ChangeConfig(c) \/ RollbackAdoptsEdit(c)

Loop ==
    \/ RestartDue
    \/ ResolutionUnwanted
    \/ ResolutionFailed
    \/ \E p \in Pids : SpawnChild(p) \/ IgnoreExit(p) \/ HandleExit(p)
    \/ CoreStalled
    \/ HandleLogLine

Environment ==
    \/ \E line \in Lines : CorePrints(line)
    \/ \E p \in Pids : CoreExits(p)
    \/ HealthyWindowPasses
    \/ DaemonStops
    \/ DaemonCrashes
    \/ Launch

Next == User \/ Loop \/ Environment

Spec == Init /\ [][Next]_vars

(***************************************************************************)
(* Fairness.  tokio's select! polls its ready arms in random order, so an  *)
(* arm that stays ready is taken eventually; an armed timer becomes ready; *)
(* the resolution task ends because its HTTP client has timeouts; a killed *)
(* process ends.  Nothing is assumed of the user, of a Core that nobody    *)
(* killed, or of the daemon surviving.                                     *)
(***************************************************************************)
ResolutionLands ==
    ResolutionUnwanted \/ ResolutionFailed \/ (\E p \in Pids : SpawnChild(p))

ExitReported == \E p \in Pids : IgnoreExit(p) \/ HandleExit(p)

KilledCoreExits == \E p \in Pids : procs[p] = "killed" /\ CoreExits(p)

FairSpec ==
    /\ Spec
    /\ WF_vars(RestartDue)
    /\ WF_vars(ResolutionLands)
    /\ WF_vars(ExitReported)
    /\ WF_vars(CoreStalled)
    /\ WF_vars(HandleLogLine)
    /\ WF_vars(KilledCoreExits)
-----------------------------------------------------------------------------
(***************************************************************************)
(* Properties.                                                             *)
(***************************************************************************)
HasChild  == child_pid # NoPid
Resolving == core_resolving # NoConfig
Waiting   == restart_at # NotArmed

\* While sharing is wanted the supervisor holds exactly one of a child, a
\* resolution in flight and an armed restart timer: it is never stranded with
\* nothing pending (doc of start_core) and never has two starts racing each
\* other.  While sharing is not wanted it has no child and no timer, so a user
\* Stop cancels every retry; only a resolution may still be under way.
ExactlyOnePending ==
    IF up /\ desired_running
    THEN /\ HasChild \/ Resolving \/ Waiting
         /\ HasChild => ~Resolving
         /\ HasChild => ~Waiting
         /\ Resolving => ~Waiting
    ELSE ~HasChild /\ ~Waiting

\* The reported state is Running exactly while the supervisor owns a child, and
\* Starting exactly while a wanted resolution is in flight, so what the GUI
\* shows is what is going on (set_state calls in core_proc.rs).
StateIsHonest ==
    /\ HasChild <=> state = "Running"
    /\ up /\ desired_running => (Resolving <=> state = "Starting")

\* A Core process that nobody has killed is the current child and its kill
\* handle is held: superseding a child, ignoring a late exit, a Shutdown or a
\* signal never leaks a Core that holds the port with no way to stop it.  A crash
\* of the daemon leaks none where the kernel delivers the parent-death signal,
\* that is on Linux (spawn_child, core_proc.rs:115-131); on macOS and Windows the
\* Core of a crashed daemon lives on, and is the only one that does.
NoLeakedCore ==
    /\ \A p \in Pids : procs[p] = "alive" => p = child_pid /\ child_kill
    /\ ParentDeathSignal => \A p \in Pids : procs[p] # "orphan"

\* The running Core was given the argv and the generated files of the config in
\* force now, whatever edits, merges and restarts raced its (possibly slow)
\* resolution (on_core_resolved rebuilds them; core_inputs_differ restarts).
\* True as long as EditMayRace is FALSE.
LaunchedFromLiveConfig ==
    HasChild => launched.args = CoreView(config)

\* A child that can still be killed and has not reported readiness is guarded by
\* the connect watchdog: a silent Core cannot stay "running" for ever because
\* some log line disarmed the timer (core_connect_deadline in the run loop).
UnreadyCoreIsWatched ==
    HasChild /\ child_kill /\ core_ready_at = "None" => core_connect_deadline

\* Peers are shown as connected only while a Core runs: a line that a replaced
\* Core printed, delivered late, never brings one back (pid check of the log
\* arm, clearing in set_state).
PeersOnlyWhileRunning ==
    connected_peers # {} => state = "Running"

\* The retry delay armed respects the documented budget: below MAX_FAST_FAILS
\* failures it is at most the exponential cap of the role in force, the tighter
\* one for a client, whatever role changes and restarts came before; from then on
\* a cooldown between the two circuit-breaker bounds, for both roles
\* (restart_backoff, schedule_restart; ARCHITECTURE.md, Core process).  The bound
\* of the role is true as long as EditMayRace is FALSE.
RetryDelayWithinBudget ==
    Waiting =>
        IF fast_fail_count < MAX_FAST_FAILS
        THEN /\ restart_at >= MIN_BACKOFF
             /\ restart_at <= IF config.role = "Client"
                              THEN CLIENT_MAX_BACKOFF ELSE MAX_BACKOFF
        ELSE restart_at \in CIRCUIT_BREAKER_MIN .. CIRCUIT_BREAKER_MAX

\* A launch resumes what the user last asked for: an explicit Stop keeps sharing
\* off across daemon restarts and crashes, anything else starts it
\* (user_stopped marker read in Supervisor::new).
LaunchHonoursIntent ==
    [][~up /\ up' => desired_running' = desired_running]_vars

\* The child the supervisor owns has a process or an unread exit report: the
\* report that drives the retry is never thrown away, although stop_core drains
\* the exit channel and late reports are ignored.  Handles, timers and readiness
\* belong to an owned child only, and nothing is pending without a daemon.
OwnChildAccountedFor ==
    /\ HasChild => procs[child_pid] \notin {"free", "orphan"}
    /\ child_kill => HasChild
    /\ core_connect_deadline => HasChild
    /\ core_ready_at # "None" => HasChild
    /\ HasChild <=> launched # NoLaunch
    /\ ~up => ~Resolving /\ state = "Stopped"

\* The supervisor implements the one-slot abstraction of CoreSlot: the phase is
\* read off what is pending, so a stranded supervisor, or a child that replaces
\* another without a pending start between them, would be no step of it.
SlotPhase ==
    IF HasChild THEN "filled"
    ELSE IF Waiting \/ (up /\ desired_running /\ Resolving) THEN "pending"
    ELSE "off"

Slot == INSTANCE CoreSlot WITH wanted <- desired_running, phase <- SlotPhase,
                               owner <- child_pid

ImplementsCoreSlot == Slot!Spec

\* Recovery: a Core that failed is attempted again, unless the user stops
\* sharing or the daemon ends (restart timer of schedule_restart).
FailureIsRetried ==
    (up /\ state \in {"Crashed", "Reconnecting"})
        ~> (state \in {"Starting", "Running"} \/ ~desired_running \/ ~up)

\* Recovery: a child that stays unready is replaced or becomes ready; it is
\* never left running silently (connect watchdog, then kill, then exit).
SilentCoreIsReplaced ==
    \A p \in Pids :
        (child_pid = p /\ core_ready_at = "None")
            ~> (child_pid # p \/ core_ready_at # "None")

\* Recovery: once the kill of the current child was sent (watchdog or forced
\* reconnect), a fresh start follows unless the user or the daemon ends it.
KilledCoreIsReplaced ==
    (HasChild /\ ~child_kill)
        ~> (state = "Starting" \/ ~desired_running \/ ~up)
-----------------------------------------------------------------------------
(***************************************************************************)
(* What comments say and the code does not do; each is refuted by a run.   *)
(***************************************************************************)
\* "it spawns from the live config when it lands" (start_core, about a start
\* that finds a resolution in flight): the running Core is the binary the config
\* in force names.
SpawnsLiveBinary == HasChild => launched.core = config.core

\* "the stamp/persist/regen/restart/gossip sequence is identical regardless of
\* where the edit came from" (config_edit.rs): an edit a rejected merge adopts
\* reaches the Core like any other.
EveryEditReachesCore == LaunchedFromLiveConfig

\* "Wait for *this* child's exit so state reflects reality before we return (and
\* a server's replacement doesn't race it for the port)" (stop_core): when the
\* supervisor lets go of its child, that process is gone.
ReleasedChildIsGone ==
    [][(HasChild /\ ~HasChild' /\ up') => procs'[child_pid] \notin {"alive", "killed"}]_vars

\* "failing to persist only means the next launch falls back to the default of
\* starting" (persist_user_stopped): a launch never leaves sharing off that the
\* user had last turned on.
MarkerFailureStillStarts ==
    [][(~up /\ up' /\ desired_running) => desired_running']_vars

\* "so an orphaned deskflow-server can't keep holding the Core port and make the
\* next daemon's server fast-fail on bind" (spawn_child): a daemon never runs
\* beside a Core of a predecessor that nobody asked to stop.  The code arranges
\* it on Linux only.
NoOrphanBesideDaemon == up => \A p \in Pids : procs[p] # "orphan"

\* "it notices the server coming back within seconds rather than half a minute"
\* (CLIENT_MAX_BACKOFF): a client never waits longer than its cap.
ClientRetriesSoon ==
    Waiting /\ config.role = "Client" => restart_at <= CLIENT_MAX_BACKOFF
=============================================================================
