------------------------------ MODULE Updater ------------------------------
(* The in-app updater: the Updates dialog and its workers                     *)
(* (synbad-gui/src/update.rs), the installation of a release over the running *)
(* binaries (synbad-update), and the relaunch that hands the single-instance  *)
(* socket (synbad-gui/src/single_instance.rs) to the new binary.              *)
EXTENDS Naturals, Sequences, FiniteSets

CONSTANTS
    Processes,   \* the GUI processes of a behaviour; the first is running
    First,
    None,
    UpdateFaults, \* which of "check", "install", "auth", "spawn" occur
    MaxFailures  \* bound: failures in a behaviour

ASSUME UpdaterAssumption == First \in Processes /\ None \notin Processes /\ MaxFailures \in Nat

VARIABLES
    host,        \* the build, the installation and the release it is offered
    disk,        \* the version of each installed file; "gui" is the running binary
    modal,       \* SynbadApp.update_state of the first process
    dialog,      \* its show_update_dialog
    worker,      \* its check or install worker
    gui,         \* each GUI process: its place in acquire, and the version it runs
    socket,      \* the process bound to the single-instance path, None, or "stale"
    failures     \* count of failures

updaterVars == <<host, disk, modal, dialog, worker, gui, socket, failures>>

Versions == {"old", "new", "missing"}

\* The binaries, and the patched Core that a macOS release brings along.
Patched == {"client", "server"}
Files == {"gui", "daemon"} \cup Patched

\* os; app: the GUI runs from a macOS app bundle; writable: may its user write
\* the directory; ships_daemon: does the release hold the sibling?
Hosts == {h \in [os : {"linux", "windows", "macos"}, app : BOOLEAN, writable : BOOLEAN,
                 ships_daemon : BOOLEAN] : h.app => h.os = "macos"}
NoWorker == [at |-> "none", moves |-> <<>>]

Running(p) == gui[p].at \in {"owner", "unguarded"}
Open == Running(First)

Failure(kind) ==
    /\ kind \in UpdateFaults
    /\ failures < MaxFailures
    /\ failures' = failures + 1

-----------------------------------------------------------------------------
(* The dialog: open_update_dialog, draw_modal and poll.                      *)

SpawnCheck == modal' = "checking" /\ worker' = [NoWorker EXCEPT !.at = "check"]

\* Tray or Settings; a result already on screen is kept.
OpenUpdateDialog ==
    /\ Open
    /\ ~dialog
    /\ dialog' = TRUE
    /\ IF modal \in {"none", "check_failed", "install_failed"}
       THEN SpawnCheck ELSE UNCHANGED <<modal, worker>>
    /\ UNCHANGED <<host, disk, gui, socket, failures>>

\* Close, Later, or the window's own button; a worker goes on.
CloseDialog ==
    /\ Open
    /\ dialog
    /\ dialog' = FALSE
    /\ UNCHANGED <<host, disk, modal, worker, gui, socket, failures>>

Retry ==
    /\ Open
    /\ dialog /\ modal \in {"check_failed", "install_failed"}
    /\ SpawnCheck
    /\ UNCHANGED <<host, disk, dialog, gui, socket, failures>>

\* The check's answer; is_newer decides whether an install is offered.
CheckEnds(result) ==
    /\ worker.at = "check"
    /\ IF result = "check_failed" THEN Failure("check") ELSE UNCHANGED failures
    /\ worker' = [NoWorker EXCEPT !.at = result]
    /\ UNCHANGED <<host, disk, modal, dialog, gui, socket>>

\* A frame drains the worker's channel.
Poll ==
    /\ Open
    /\ worker.at \in {"check_failed", "newer", "current", "installed", "install_failed"}
    /\ modal' = worker.at
    /\ worker' = NoWorker
    /\ UNCHANGED <<host, disk, dialog, gui, socket, failures>>

ClickInstall ==
    /\ Open
    /\ dialog /\ modal = "newer"
    /\ modal' = "installing"
    /\ worker' = [NoWorker EXCEPT !.at = "download"]
    /\ UNCHANGED <<host, disk, dialog, gui, socket, failures>>

-----------------------------------------------------------------------------
(* download_and_apply.                                                       *)

\* new_sibling: the release holds the sibling of a GUI that has one.
ReplacesDaemon == disk.daemon # "missing" /\ host.ships_daemon

\* extra_moves: a macOS install outside a bundle brings the patched Core along.
HasExtraMoves == host.os = "macos"

\* Mutant of PlannedMoves: the running binary before its sibling.
SelfFirst ==
    CASE HasExtraMoves /\ ReplacesDaemon  -> <<"client", "server", "gui", "daemon">>
      [] HasExtraMoves /\ ~ReplacesDaemon -> <<"client", "server", "gui">>
      [] ~HasExtraMoves /\ ReplacesDaemon -> <<"gui", "daemon">>
      [] OTHER                            -> <<"gui">>

\* install_inline and the plan: extra files, then the sibling, the running binary
\* last.  A release without the sibling is installed all the same.
PlannedMoves ==
    CASE HasExtraMoves /\ ReplacesDaemon  -> <<"client", "server", "daemon", "gui">>
      [] HasExtraMoves /\ ~ReplacesDaemon -> <<"client", "server", "gui">>
      [] ~HasExtraMoves /\ ReplacesDaemon -> <<"daemon", "gui">>
      [] OTHER                            -> <<"gui">>

\* The archive is downloaded and unpacked into a temporary directory; a
\* directory that was not writable at the start needs the elevated helper.  A
\* bundle is moved as one directory.
Unpack ==
    /\ worker.at = "download"
    /\ worker' = [at |-> IF host.writable THEN "install" ELSE "auth",
                  moves |-> IF host.app THEN <<"app">> ELSE PlannedMoves]
    /\ UNCHANGED <<host, disk, modal, dialog, gui, socket, failures>>

\* The user answers the system's prompt; the helper is the daemon's binary, or
\* the GUI's own where there is no sibling.
Elevate ==
    /\ worker.at = "auth"
    /\ worker' = IF disk.daemon # "missing" \/ disk.gui # "missing"
                 THEN [worker EXCEPT !.at = "helper"]
                 ELSE [NoWorker EXCEPT !.at = "install_failed"]
    /\ UNCHANGED <<host, disk, modal, dialog, gui, socket, failures>>

\* external_replace on Windows renames the destination aside first.
RenameAside ==
    /\ worker.at = "helper" /\ worker.moves # <<>>
    /\ host.os = "windows"
    /\ disk[Head(worker.moves)] # "missing"
    /\ disk' = [disk EXCEPT ![Head(worker.moves)] = "missing"]
    /\ UNCHANGED <<host, modal, dialog, worker, gui, socket, failures>>

\* self_replace on Windows renames the running binary aside, in a directory the
\* user may write; it fails where an earlier attempt left none.
RelocateSelf ==
    /\ worker.at = "install" /\ worker.moves = <<"gui">>
    /\ host.os = "windows"
    /\ disk' = [disk EXCEPT !.gui = "missing"]
    /\ worker' = IF disk.gui = "missing" THEN [NoWorker EXCEPT !.at = "install_failed"]
                 ELSE [worker EXCEPT !.at = "swap"]
    /\ UNCHANGED <<host, modal, dialog, gui, socket, failures>>

\* May the next file be put in its place by one rename?
InPlace ==
    LET next == Head(worker.moves)
    IN CASE worker.at = "install" -> host.os # "windows" \/ next # "gui"
         [] worker.at = "helper"  -> host.os # "windows" \/ disk[next] = "missing"
         [] worker.at = "swap"    -> TRUE
         [] OTHER -> FALSE

\* replace_sibling, self_replace, external_replace: the rename onto the
\* destination is atomic, also after a copy from another file system.
Replace ==
    /\ worker.moves # <<>> /\ Head(worker.moves) # "app"
    /\ InPlace
    /\ disk' = [disk EXCEPT ![Head(worker.moves)] = "new"]
    /\ worker' = IF Len(worker.moves) = 1
                 THEN [NoWorker EXCEPT !.at = "installed"]
                 ELSE [worker EXCEPT !.moves = Tail(@)]
    /\ UNCHANGED <<host, modal, dialog, gui, socket, failures>>

App(version) == [b \in Files |->
    IF b = "daemon" /\ version = "new" /\ ~host.ships_daemon THEN "missing" ELSE version]

\* bundle::replace, once the new bundle is copied beside the old one: the old one
\* is renamed aside, which fails where an earlier attempt left none.
AppAside ==
    /\ worker.at \in {"install", "helper"} /\ worker.moves = <<"app">>
    /\ disk' = App("missing")
    /\ worker' = IF disk.gui = "missing" THEN [NoWorker EXCEPT !.at = "install_failed"]
                 ELSE [worker EXCEPT !.at = IF @ = "install" THEN "swap" ELSE "helper_swap"]
    /\ UNCHANGED <<host, modal, dialog, gui, socket, failures>>

\* bundle::replace: the new bundle takes its place.
AppReplace ==
    /\ worker.at \in {"swap", "helper_swap"} /\ worker.moves = <<"app">>
    /\ disk' = App("new")
    /\ worker' = [NoWorker EXCEPT !.at = "installed"]
    /\ UNCHANGED <<host, modal, dialog, gui, socket, failures>>

\* The download, the unpacking, the check of a signature, the prompt or a move
\* fails; nothing is undone, but bundle::replace tries to put the old bundle back.
InstallFails ==
    /\ worker.at \in {"download", "auth", "install", "helper", "swap", "helper_swap"}
    /\ Failure(IF worker.at = "auth" THEN "auth" ELSE "install")
    /\ worker' = [NoWorker EXCEPT !.at = "install_failed"]
    /\ \/ UNCHANGED disk
       \/ worker.moves = <<"app">> /\ worker.at \in {"swap", "helper_swap"} /\ disk' = App("old")
    /\ UNCHANGED <<host, modal, dialog, gui, socket>>

-----------------------------------------------------------------------------
(* single_instance::acquire in every GUI process.                            *)

\* A process of the installed binary starts; Windows has no guard.
Starting == [at |-> IF host.os = "windows" THEN "unguarded" ELSE "bind", version |-> disk.gui]

\* A launcher click, or autostart.
Launch(p) ==
    /\ gui[p].at = "absent"
    /\ disk.gui # "missing"
    /\ gui' = [gui EXCEPT ![p] = Starting]
    /\ UNCHANGED <<host, disk, modal, dialog, worker, socket, failures>>

Bind(p) ==
    /\ gui[p].at \in {"bind", "rebind"}
    /\ IF socket = None
       THEN socket' = p /\ gui' = [gui EXCEPT ![p].at = "owner"]
       ELSE /\ gui' = [gui EXCEPT ![p].at = IF @ = "bind" THEN "probe" ELSE "reprobe"]
            /\ UNCHANGED socket
    /\ UNCHANGED <<host, disk, modal, dialog, worker, failures>>

\* A live owner raises its window and this process ends; a refused connection
\* is a leftover, reclaimed on the first attempt only; anything else goes on
\* without a guard.
Probe(p) ==
    /\ gui[p].at \in {"probe", "reprobe"}
    /\ gui' = [gui EXCEPT ![p].at =
                  IF socket \in Processes THEN "forwarded"
                  ELSE IF socket = "stale" /\ @ = "probe" THEN "remove"
                  ELSE "unguarded"]
    /\ UNCHANGED <<host, disk, modal, dialog, worker, socket, failures>>

\* The path is removed whoever is bound to it by now.
RemoveStale(p) ==
    /\ gui[p].at = "remove"
    /\ socket' = None
    /\ gui' = [gui EXCEPT ![p].at = "rebind"]
    /\ UNCHANGED <<host, disk, modal, dialog, worker, failures>>

\* The guard is leaked, so a process that ends leaves its socket file.
SocketAfter(p) == IF socket = p THEN "stale" ELSE socket

\* The user quits, or the process is killed; only the elevated helper goes on.
EndProcess(p) ==
    /\ Running(p)
    /\ gui' = [gui EXCEPT ![p].at = "quit"]
    /\ socket' = SocketAfter(p)
    /\ worker' = IF p = First /\ worker.at \notin {"helper", "helper_swap"}
                 THEN NoWorker ELSE worker
    /\ UNCHANGED <<host, disk, modal, dialog, failures>>

\* Mutant of SocketForSuccessor: the path stays bound to the old process.
KeepSocket == socket

\* relaunch_after_update unlinks the path before it spawns the new binary.
SocketForSuccessor == None

\* Relaunch: spawn the installed binary and exit; where the spawn fails the old
\* process stays, its path gone.  (The daemon it shuts down and has restarted is
\* the one of module CoreCache.)
Relaunch(p) ==
    /\ Open
    /\ dialog /\ modal = "installed"
    /\ socket' = SocketForSuccessor
    /\ \/ /\ gui[p].at = "absent"
          /\ disk.gui # "missing"
          /\ gui' = [gui EXCEPT ![p] = Starting, ![First].at = "exiting"]
          /\ UNCHANGED failures
       \/ /\ p = First
          /\ Failure("spawn")
          /\ UNCHANGED gui
    /\ UNCHANGED <<host, disk, modal, dialog, worker>>

ExitOld ==
    /\ gui[First].at = "exiting"
    /\ gui' = [gui EXCEPT ![First].at = "replaced"]
    /\ socket' = SocketAfter(First)
    /\ UNCHANGED <<host, disk, modal, dialog, worker, failures>>

Acquire(p) == Bind(p) \/ Probe(p) \/ RemoveStale(p)

UpdaterInit ==
    /\ host \in Hosts
    /\ disk \in [Files -> {"old", "missing"}]
    /\ \A b \in Files : disk[b] = "old" \/ (b = "daemon" /\ ~host.app)
    /\ modal = "none"
    /\ dialog = FALSE
    /\ worker = NoWorker
    /\ gui = [p \in Processes |->
                 IF p # First THEN [at |-> "absent", version |-> "missing"]
                 ELSE [at |-> IF host.os = "windows" THEN "unguarded" ELSE "owner", version |-> "old"]]
    /\ socket = IF host.os = "windows" THEN None ELSE First
    /\ failures = 0

Dialog == OpenUpdateDialog \/ CloseDialog \/ Retry \/ Poll \/ ClickInstall
Work ==
    \/ \E result \in {"newer", "current", "check_failed"} : CheckEnds(result)
    \/ Unpack \/ Elevate \/ RenameAside \/ RelocateSelf \/ Replace
    \/ AppAside \/ AppReplace \/ InstallFails
Instances == ExitOld \/ \E p \in Processes : Launch(p) \/ Acquire(p)

UpdaterNext ==
    \/ Dialog \/ Work \/ Instances
    \/ \E p \in Processes : EndProcess(p) \/ Relaunch(p)

\* Processes that run make progress; the user need not do anything.
UpdaterFairness ==
    /\ WF_updaterVars(ExitOld)
    /\ \A p \in Processes : WF_updaterVars(Acquire(p))

UpdaterSpec == UpdaterInit /\ [][UpdaterNext]_updaterVars /\ UpdaterFairness
-----------------------------------------------------------------------------
\* Whatever step of an install fails or is cut off: a new GUI stands beside an old
\* daemon only where the release lacks the daemon and no bundle is involved, and
\* beside an old patched Core never; the GUI's file is absent only on Windows or
\* in a macOS bundle, where it is renamed aside first, and there only during the
\* swap or after a swap that failed or was cut off; an install reported as done
\* has replaced the GUI (download_and_apply, install_inline, apply_plan).
InstallStaysUsable ==
    /\ disk.gui = "new" /\ disk.daemon = "old" => ~host.ships_daemon /\ ~host.app
    /\ disk.gui = "new" /\ host.os = "macos" => \A b \in Patched : disk[b] = "new"
    /\ disk.gui = "missing" =>
          /\ host.os = "windows" \/ host.app
          /\ worker.at \in {"swap", "helper", "helper_swap"} \/ failures > 0 \/ ~Open
    /\ modal = "installed" => disk.gui = "new"

\* A relaunch leaves the user with a GUI until they quit it: while the old process
\* is on its way out, a new one that starts is not sent away by the old one's
\* socket.  (A process the user quit earlier does not count.)
RelaunchTakesOver ==
    \A gone \in SUBSET Processes :
        /\ gui[First].at = "exiting"
        /\ \E p \in Processes : gui[p].at \in {"bind", "probe", "remove", "rebind", "reprobe"}
        /\ gone = {p \in Processes : gui[p].at = "quit"}
        ~> \E p \in Processes \ ({First} \cup gone) : gui[p].at \in {"owner", "unguarded", "quit"}
-----------------------------------------------------------------------------
(* What comments say and the code does not do; each is refuted by a config.   *)

\* "a partial failure leaves the install in a well-defined 'current binary still
\* works' state" (Plan::moves): the GUI's file is there when the install failed.
CurrentBinarySurvives == modal = "install_failed" => disk.gui # "missing"

\* "The daemon and GUI ship together so updating one without the other leaves the
\* install in a half-upgraded state" (download_and_apply): an install reported as
\* done has not left the old daemon beside the new GUI.
NoHalfUpgrade == modal = "installed" => disk.daemon # "old"
=============================================================================
