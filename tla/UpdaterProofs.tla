--------------------------- MODULE UpdaterProofs ---------------------------
(* The proof that an update leaves a usable installation at every step.       *)
EXTENDS Updater, TLAPS

\* What may be left of the moves of an install outside a bundle: with the sibling
\* still to come, or without it.
DaemonPlans == {<<"client", "server", "daemon", "gui">>, <<"server", "daemon", "gui">>,
                <<"daemon", "gui">>}
GuiPlans == {<<"client", "server", "gui">>, <<"server", "gui">>, <<"gui">>}
Plans == DaemonPlans \cup GuiPlans

\* Plans after the patched client, and after both patched files, were replaced.
ServerPlans == {<<"server", "daemon", "gui">>, <<"server", "gui">>}
LatePlans == {<<"daemon", "gui">>, <<"gui">>}

Installing == {"auth", "install", "helper", "swap", "helper_swap"}
WorkerPlaces == {"none", "check", "check_failed", "newer", "current", "download",
                 "installed", "install_failed"} \cup Installing
Workers == [at : WorkerPlaces, moves : Plans \cup {<<"app">>, <<>>}]

GuiPlaces == {"absent", "bind", "probe", "remove", "rebind", "reprobe", "forwarded", "owner",
              "unguarded", "quit", "exiting", "replaced"}
Guis == [at : GuiPlaces, version : Versions]

UpdaterTypeOK ==
    /\ host \in Hosts
    /\ disk \in [Files -> Versions]
    /\ worker \in Workers
    /\ failures \in Nat
    /\ gui \in [Processes -> Guis]
    /\ gui[First].at \in {"owner", "unguarded", "quit", "exiting", "replaced"}

\* What is left of a plan: what is not in it any more was replaced, or is not in
\* the release.  A file is taken away only by a swap of the running binary on
\* Windows or of a bundle, and by the helper.
PlanIsOrdered ==
    worker.at \in Installing =>
        /\ IF host.app THEN worker.moves = <<"app">> ELSE worker.moves \in Plans
        /\ worker.moves \in GuiPlans => disk["daemon"] # "old" \/ ~host.ships_daemon
        /\ host.os = "macos" =>
              /\ worker.moves \in ServerPlans \cup LatePlans => disk["client"] = "new"
              /\ worker.moves \in LatePlans => disk["server"] = "new"
        /\ worker.at = "swap" /\ ~host.app => worker.moves = <<"gui">> /\ host.os = "windows"
        /\ worker.at = "helper_swap" => host.app

\* An install reported as done has replaced the running binary, and nothing is
\* at work any more once the dialog says so.
DoneIsDone ==
    /\ worker.at = "installed" => disk["gui"] = "new"
    /\ modal = "installed" => disk["gui"] = "new" /\ worker.at = "none"

\* While an install is at work the dialog says so.
ModalAgrees == worker.at \in Installing \cup {"download"} => modal = "installing"

\* The GUI's file is away for a reason.
Swapping == worker.at \in {"swap", "helper_swap"} \/ (worker.at = "helper" /\ ~host.app)
Excused == Swapping \/ failures > 0 \/ ~Open

FilesAreUsable ==
    /\ disk["gui"] = "new" /\ disk["daemon"] = "old" => ~host.ships_daemon /\ ~host.app
    /\ disk["gui"] = "new" /\ host.os = "macos" => disk["client"] = "new" /\ disk["server"] = "new"
    /\ disk["gui"] = "missing" => (host.os = "windows" \/ host.app) /\ Excused

UpdateInv ==
    UpdaterTypeOK /\ PlanIsOrdered /\ DoneIsDone /\ ModalAgrees /\ FilesAreUsable

-----------------------------------------------------------------------------
\* The plans, unfolded one move at a time.
LEMMA PlanHeads ==
    /\ \A s \in Plans : s # <<>> /\ s # <<"app">> /\ Head(s) \in Files /\ Head(s) # "app"
    /\ \A s \in Plans : Len(s) = 1 <=> s = <<"gui">>
    /\ \A s \in Plans : Head(s) = "gui" <=> s = <<"gui">>
    /\ \A s \in Plans : Head(s) = "daemon" <=> s = <<"daemon", "gui">>
    /\ \A s \in Plans : Head(s) = "server" <=> s \in ServerPlans
    /\ Head(<<"app">>) = "app" /\ <<"app">> # <<>> /\ <<"app">> \notin Plans
  BY DEF Plans, DaemonPlans, GuiPlans, ServerPlans, Files, Patched

LEMMA PlanTails ==
    /\ \A s \in Plans \ {<<"gui">>} : Tail(s) \in Plans
    /\ \A s \in Plans \ {<<"gui">>} : Tail(s) \in GuiPlans => s \in GuiPlans \/ Head(s) = "daemon"
    /\ \A s \in Plans \ {<<"gui">>} :
          Tail(s) \in ServerPlans => Head(s) = "client"
    /\ \A s \in Plans \ {<<"gui">>} :
          Tail(s) \in LatePlans => Head(s) = "server" \/ s \in LatePlans
<1>1. /\ Tail(<<"client", "server", "daemon", "gui">>) = <<"server", "daemon", "gui">>
      /\ Tail(<<"server", "daemon", "gui">>) = <<"daemon", "gui">>
      /\ Tail(<<"daemon", "gui">>) = <<"gui">>
      /\ Tail(<<"client", "server", "gui">>) = <<"server", "gui">>
      /\ Tail(<<"server", "gui">>) = <<"gui">>
  OBVIOUS
<1>2. /\ Head(<<"client", "server", "daemon", "gui">>) = "client"
      /\ Head(<<"server", "daemon", "gui">>) = "server"
      /\ Head(<<"daemon", "gui">>) = "daemon"
      /\ Head(<<"client", "server", "gui">>) = "client"
      /\ Head(<<"server", "gui">>) = "server"
  OBVIOUS
<1>3. /\ <<"daemon", "gui">> \notin GuiPlans /\ <<"server", "daemon", "gui">> \notin GuiPlans
      /\ <<"daemon", "gui">> \notin ServerPlans /\ <<"gui">> \notin ServerPlans
      /\ <<"server", "daemon", "gui">> \notin LatePlans /\ <<"server", "gui">> \notin LatePlans
  BY DEF GuiPlans, ServerPlans, LatePlans
<1>4. SUFFICES ASSUME NEW s \in Plans, s # <<"gui">>
               PROVE  /\ Tail(s) \in Plans
                      /\ Tail(s) \in GuiPlans => s \in GuiPlans \/ Head(s) = "daemon"
                      /\ Tail(s) \in ServerPlans => Head(s) = "client"
                      /\ Tail(s) \in LatePlans => Head(s) = "server" \/ s \in LatePlans
  OBVIOUS
<1>5. CASE s = <<"client", "server", "daemon", "gui">>
  BY <1>1, <1>2, <1>3, <1>5 DEF Plans, DaemonPlans
<1>6. CASE s = <<"server", "daemon", "gui">>
  BY <1>1, <1>2, <1>3, <1>6 DEF Plans, DaemonPlans
<1>7. CASE s = <<"daemon", "gui">>
  BY <1>1, <1>2, <1>3, <1>7 DEF Plans, GuiPlans, LatePlans
<1>8. CASE s = <<"client", "server", "gui">>
  BY <1>1, <1>2, <1>3, <1>8 DEF Plans, GuiPlans
<1>9. CASE s = <<"server", "gui">>
  BY <1>1, <1>2, <1>3, <1>9 DEF Plans, GuiPlans
<1>. QED
  BY <1>4, <1>5, <1>6, <1>7, <1>8, <1>9 DEF Plans, DaemonPlans, GuiPlans

\* The classes of plans are told apart by what they are.
LEMMA PlanClasses ==
    /\ <<"gui">> \in GuiPlans /\ <<"gui">> \in LatePlans /\ <<"gui">> \in Plans
    /\ <<"daemon", "gui">> \notin GuiPlans
    /\ <<"app">> \notin GuiPlans \cup ServerPlans \cup LatePlans
    /\ <<>> \notin Plans
    /\ \A s \in GuiPlans : s \notin DaemonPlans
    /\ <<"client", "server", "gui">> \notin ServerPlans \cup LatePlans
    /\ <<"client", "server", "daemon", "gui">> \notin ServerPlans \cup LatePlans
  BY DEF Plans, DaemonPlans, GuiPlans, ServerPlans, LatePlans

\* PlannedMoves is a plan; it leaves the sibling out only where there is none to
\* replace or none to replace it by, and on macOS it begins with the patched Core.
LEMMA PlannedIsPlan ==
    /\ PlannedMoves \in Plans
    /\ PlannedMoves \in GuiPlans => disk["daemon"] = "missing" \/ ~host.ships_daemon
    /\ host.os = "macos" => PlannedMoves \notin ServerPlans \cup LatePlans
<1>1. CASE host.os = "macos" /\ ReplacesDaemon
  <2>1. PlannedMoves = <<"client", "server", "daemon", "gui">>
    BY <1>1 DEF PlannedMoves, HasExtraMoves
  <2>. QED
    BY <2>1, PlanClasses DEF Plans, DaemonPlans
<1>2. CASE host.os = "macos" /\ ~ReplacesDaemon
  <2>1. PlannedMoves = <<"client", "server", "gui">>
    BY <1>2 DEF PlannedMoves, HasExtraMoves
  <2>. QED
    BY <1>2, <2>1, PlanClasses DEF Plans, GuiPlans, ReplacesDaemon
<1>3. CASE host.os # "macos" /\ ReplacesDaemon
  <2>1. PlannedMoves = <<"daemon", "gui">>
    BY <1>3 DEF PlannedMoves, HasExtraMoves
  <2>. QED
    BY <1>3, <2>1, PlanClasses DEF Plans, DaemonPlans
<1>4. CASE host.os # "macos" /\ ~ReplacesDaemon
  <2>1. PlannedMoves = <<"gui">>
    BY <1>4 DEF PlannedMoves, HasExtraMoves
  <2>. QED
    BY <1>4, <2>1, PlanClasses DEF ReplacesDaemon
<1>. QED
  BY <1>1, <1>2, <1>3, <1>4

\* A worker that only changes its place.
LEMMA WorkerAt ==
    ASSUME NEW at \in WorkerPlaces
    PROVE  /\ [NoWorker EXCEPT !.at = at] \in Workers
           /\ [NoWorker EXCEPT !.at = at].at = at
  BY DEF NoWorker, Workers

\* The initial state satisfies the invariant.
LEMMA UpdateInitInv == UpdaterInit => UpdateInv
<1> SUFFICES ASSUME UpdaterInit PROVE UpdateInv
  OBVIOUS
<1>1. worker \in Workers /\ worker.at = "none" /\ modal = "none"
  BY WorkerAt DEF UpdaterInit, NoWorker, Workers, WorkerPlaces
<1>2. disk \in [Files -> Versions] /\ disk["gui"] = "old"
  BY DEF UpdaterInit, Files, Versions
<1>3. /\ gui \in [Processes -> Guis]
      /\ gui[First].at \in {"owner", "unguarded"}
  <2>1. \A p \in Processes : gui[p] \in Guis
    <3>1. /\ [at |-> "absent", version |-> "missing"] \in Guis
          /\ [at |-> "owner", version |-> "old"] \in Guis
          /\ [at |-> "unguarded", version |-> "old"] \in Guis
      BY DEF Guis, GuiPlaces, Versions
    <3>2. CASE host.os = "windows"
      BY <3>1, <3>2 DEF UpdaterInit
    <3>3. CASE host.os # "windows"
      BY <3>1, <3>3 DEF UpdaterInit
    <3>. QED
      BY <3>2, <3>3
  <2>2. gui[First].at \in {"owner", "unguarded"}
    BY UpdaterAssumption DEF UpdaterInit
  <2>. QED
    BY <2>1, <2>2 DEF UpdaterInit
<1>4. host \in Hosts /\ failures \in Nat
  BY DEF UpdaterInit
<1>. QED
  BY <1>1, <1>2, <1>3, <1>4
  DEF UpdateInv, UpdaterTypeOK, PlanIsOrdered, DoneIsDone, ModalAgrees, FilesAreUsable,
      Installing

-----------------------------------------------------------------------------
\* A process that starts runs the binary that is installed.
LEMMA StartingType == ASSUME UpdaterTypeOK PROVE Starting \in Guis
<1>1. disk.gui = disk["gui"] /\ disk["gui"] \in Versions
  BY DEF UpdaterTypeOK, Files
<1>2. /\ [at |-> "unguarded", version |-> disk.gui] \in Guis
      /\ [at |-> "bind", version |-> disk.gui] \in Guis
  BY <1>1 DEF Guis, GuiPlaces
<1>3. CASE host.os = "windows"
  BY <1>2, <1>3 DEF Starting
<1>4. CASE host.os # "windows"
  BY <1>2, <1>4 DEF Starting
<1>. QED
  BY <1>3, <1>4

\* The first process does not come back once it has ended or is on its way out.
LEMMA GuiStep ==
    ASSUME UpdaterTypeOK, [UpdaterNext]_updaterVars
    PROVE  /\ gui' \in [Processes -> Guis]
           /\ gui'[First].at \in {"owner", "unguarded", "quit", "exiting", "replaced"}
           /\ ~Open => ~Open'
<1> DEFINE Keeps == /\ gui' \in [Processes -> Guis]
                    /\ gui'[First].at \in {"owner", "unguarded", "quit", "exiting", "replaced"}
                    /\ ~Open => ~Open'
<1>0. /\ gui \in [Processes -> Guis] /\ First \in Processes
      /\ gui[First].at \in {"owner", "unguarded", "quit", "exiting", "replaced"}
      /\ Open <=> gui[First].at \in {"owner", "unguarded"}
      /\ Open' <=> gui'[First].at \in {"owner", "unguarded"}
  BY UpdaterAssumption DEF UpdaterTypeOK, Open, Running
<1>1. UNCHANGED gui => Keeps
  BY <1>0
<1> DEFINE With(p, at) == [gui EXCEPT ![p].at = at]
<1>2. ASSUME NEW p \in Processes, NEW at \in GuiPlaces, gui' = With(p, at),
             p # First \/ at \in {"quit", "exiting", "replaced"}
      PROVE  Keeps
  <2>1. gui' = [gui EXCEPT ![p] = [gui[p] EXCEPT !.at = at]]
    BY <1>2, <1>0
  <2>2. [gui[p] EXCEPT !.at = at] \in Guis /\ [gui[p] EXCEPT !.at = at].at = at
    BY <1>0 DEF Guis, GuiPlaces
  <2>. QED
    BY <1>0, <1>2, <2>1, <2>2
<1>3. ASSUME NEW p \in Processes, gui[p].at = "absent", gui' = [gui EXCEPT ![p] = Starting]
      PROVE  Keeps
  BY <1>0, <1>3, StartingType
<1>3a. \A p \in Processes, at \in GuiPlaces :
          (p # First \/ at \in {"quit", "exiting", "replaced"}) /\ gui' = With(p, at) => Keeps
  BY <1>2
<1> HIDE DEF Keeps
<1>4. ASSUME ExitOld PROVE Keeps
  <2>1. PICK p \in Processes : p = First /\ gui' = With(p, "replaced")
    BY <1>0, <1>4 DEF ExitOld
  <2> HIDE DEF With
  <2>. QED
    BY <1>3a, <2>1 DEF GuiPlaces
<1>5. ASSUME NEW p \in Processes, Launch(p) PROVE Keeps
  BY <1>3, <1>5 DEF Launch
<1>6. ASSUME NEW p \in Processes, Acquire(p) PROVE Keeps
  <2>1. gui[p].at \in {"bind", "rebind", "probe", "reprobe", "remove"}
    <3>1. Bind(p) => gui[p].at \in {"bind", "rebind"}
      BY DEF Bind
    <3>2. Probe(p) => gui[p].at \in {"probe", "reprobe"}
      BY DEF Probe
    <3>3. RemoveStale(p) => gui[p].at = "remove"
      BY DEF RemoveStale
    <3>. QED
      BY <1>6, <3>1, <3>2, <3>3 DEF Acquire
  <2>1a. p # First
    BY <1>0, <2>1
  <2>2. \E at \in GuiPlaces : gui' = With(p, at)
    <3>1. CASE Bind(p)
      <4>1. \/ gui' = With(p, "owner") \/ gui' = With(p, "probe") \/ gui' = With(p, "reprobe")
        BY <3>1 DEF Bind
      <4> HIDE DEF With
      <4>. QED
        BY <4>1 DEF GuiPlaces
    <3>2. CASE Probe(p)
      <4>1. \/ gui' = With(p, "forwarded") \/ gui' = With(p, "remove") \/ gui' = With(p, "unguarded")
        BY <3>2 DEF Probe
      <4> HIDE DEF With
      <4>. QED
        BY <4>1 DEF GuiPlaces
    <3>3. CASE RemoveStale(p)
      <4>1. gui' = With(p, "rebind")
        BY <3>3 DEF RemoveStale
      <4> HIDE DEF With
      <4>. QED
        BY <4>1 DEF GuiPlaces
    <3>. QED
      BY <1>6, <3>1, <3>2, <3>3 DEF Acquire
  <2> HIDE DEF With
  <2>. QED
    BY <1>3a, <2>1a, <2>2
<1>7. ASSUME NEW p \in Processes, EndProcess(p) PROVE Keeps
  <2>1. gui' = With(p, "quit")
    BY <1>7 DEF EndProcess
  <2> HIDE DEF With
  <2>. QED
    BY <1>3a, <2>1 DEF GuiPlaces
<1>8. ASSUME NEW p \in Processes, Relaunch(p) PROVE Keeps
  <2>1. CASE UNCHANGED gui
    BY <1>1, <2>1
  <2>2. CASE gui[p].at = "absent" /\ gui' = [gui EXCEPT ![p] = Starting, ![First].at = "exiting"]
    <3>1. [gui[First] EXCEPT !.at = "exiting"] \in Guis
          /\ [gui[First] EXCEPT !.at = "exiting"].at = "exiting"
      BY <1>0 DEF Guis, GuiPlaces
    <3>2. p # First
      BY <1>0, <2>2
    <3>3. DEFINE started == [gui EXCEPT ![p] = Starting]
    <3>4. started \in [Processes -> Guis] /\ started[First] = gui[First]
      BY <1>0, <3>2, StartingType
    <3>5. gui' = [started EXCEPT ![First] = [started[First] EXCEPT !.at = "exiting"]]
      BY <2>2
    <3> HIDE DEF started
    <3>. QED
      BY <1>0, <3>1, <3>4, <3>5 DEF Keeps
  <2>. QED
    BY <1>8, <2>1, <2>2 DEF Relaunch
<1>. QED
  BY <1>1, <1>4, <1>5, <1>6, <1>7, <1>8
  DEF Keeps, UpdaterNext, Dialog, Work, Instances, updaterVars, OpenUpdateDialog, CloseDialog, Retry, Poll,
      ClickInstall, CheckEnds, Unpack, Elevate, RenameAside, RelocateSelf, Replace, AppAside,
      AppReplace, InstallFails

LEMMA FailuresStep ==
    ASSUME UpdaterTypeOK, [UpdaterNext]_updaterVars
    PROVE  failures' \in Nat /\ (failures > 0 => failures' > 0)
<1>1. failures' = failures \/ failures' = failures + 1
  BY DEF UpdaterNext, Dialog, Work, Instances, updaterVars, OpenUpdateDialog, CloseDialog, Retry, Poll,
      ClickInstall, CheckEnds, Unpack, Elevate, RenameAside, RelocateSelf, Replace, AppAside,
      AppReplace, InstallFails, ExitOld, Launch, Acquire, Bind, Probe, RemoveStale, EndProcess,
      Relaunch, Failure
<1>. QED
  BY <1>1 DEF UpdaterTypeOK

\* Every step keeps the invariant.
LEMMA UpdateStepInv == UpdateInv /\ [UpdaterNext]_updaterVars => UpdateInv'
<1> SUFFICES ASSUME UpdateInv, [UpdaterNext]_updaterVars PROVE UpdateInv'
  OBVIOUS
<1>0. /\ UpdaterTypeOK /\ PlanIsOrdered /\ DoneIsDone /\ ModalAgrees /\ FilesAreUsable
      /\ host \in Hosts /\ disk \in [Files -> Versions] /\ worker \in Workers
      /\ gui' \in [Processes -> Guis]
      /\ gui'[First].at \in {"owner", "unguarded", "quit", "exiting", "replaced"}
      /\ ~Open => ~Open'
      /\ failures' \in Nat /\ (failures > 0 => failures' > 0)
  BY GuiStep, FailuresStep DEF UpdateInv, UpdaterTypeOK
<1>1. ASSUME UNCHANGED <<host, disk, modal, worker>> PROVE UpdateInv'
  BY <1>0, <1>1
  DEF UpdateInv, UpdaterTypeOK, PlanIsOrdered, DoneIsDone, ModalAgrees, FilesAreUsable, Excused, Swapping
\* A worker without moves takes the place of the one before.
<1>2. ASSUME NEW at \in WorkerPlaces \ Installing,
             worker' = [NoWorker EXCEPT !.at = at], UNCHANGED <<host, disk>>,
             at = "installed" => disk["gui"] = "new",
             modal' = "installed" => disk["gui"] = "new" /\ at = "none",
             at = "download" => modal' = "installing",
             Swapping => failures' > 0 \/ ~Open'
      PROVE  UpdateInv'
  <2>1. worker' \in Workers /\ worker'.at = at
    BY <1>2, WorkerAt
  <2>2. at \notin Installing
    BY <1>2
  <2>. QED
    BY <1>0, <1>2, <2>1, <2>2
    DEF UpdateInv, UpdaterTypeOK, PlanIsOrdered, DoneIsDone, ModalAgrees, FilesAreUsable, Excused
<1>3. NoWorker = [NoWorker EXCEPT !.at = "none"]
  BY DEF NoWorker
<1>4. worker.at \notin Installing => ~Swapping
  BY DEF Installing, Swapping
<1>5. worker.at \in {"install", "auth"} => ~Swapping
  BY DEF Swapping
<1>6. {"check", "check_failed", "newer", "current", "download", "installed", "install_failed", "none"}
      = WorkerPlaces \ Installing
  BY DEF WorkerPlaces, Installing
<1>7. ASSUME SpawnCheck, modal \in {"none", "check_failed", "install_failed"}, UNCHANGED <<host, disk>>
      PROVE  UpdateInv'
  <2>1. ~Swapping
    BY <1>0, <1>4, <1>7 DEF ModalAgrees
  <2>. QED
    BY <1>2, <1>6, <1>7, <2>1 DEF SpawnCheck
<1>8. CASE OpenUpdateDialog
  BY <1>1, <1>7, <1>8 DEF OpenUpdateDialog
<1>9. CASE CloseDialog
  BY <1>1, <1>9 DEF CloseDialog
<1>10. CASE Retry
  BY <1>7, <1>10 DEF Retry
<1>11. CASE Poll
  <2>1. worker.at \notin Installing
    BY <1>11 DEF Poll, Installing
  <2>2. modal' = "installed" => disk["gui"] = "new"
    BY <1>0, <1>11 DEF Poll, DoneIsDone
  <2>. QED
    BY <1>2, <1>3, <1>4, <1>6, <1>11, <2>1, <2>2 DEF Poll
<1>12. CASE ClickInstall
  <2>1. worker.at \notin Installing
    BY <1>0, <1>12 DEF ClickInstall, ModalAgrees
  <2>. QED
    BY <1>2, <1>4, <1>6, <1>12, <2>1 DEF ClickInstall
<1>13. ASSUME NEW result \in {"newer", "current", "check_failed"}, CheckEnds(result) PROVE UpdateInv'
  <2>1. worker.at \notin Installing /\ modal' # "installed"
    BY <1>0, <1>13 DEF CheckEnds, Installing, DoneIsDone
  <2>. QED
    BY <1>2, <1>4, <1>6, <1>13, <2>1 DEF CheckEnds
<1>14. CASE Unpack
  <2>1. worker.at = "download" /\ modal = "installing" /\ UNCHANGED <<host, disk, modal>> /\ ~Swapping
    BY <1>0, <1>14 DEF Unpack, ModalAgrees, Swapping
  <2>2. PICK at \in {"install", "auth"}, moves \in {<<"app">>, PlannedMoves} :
           /\ worker' = [at |-> at, moves |-> moves]
           /\ moves = IF host.app THEN <<"app">> ELSE PlannedMoves
    <3>1. CASE host.writable
      BY <1>14, <3>1 DEF Unpack
    <3>2. CASE ~host.writable
      BY <1>14, <3>2 DEF Unpack
    <3>. QED
      BY <3>1, <3>2
  <2>3. worker' \in Workers /\ worker'.at = at /\ worker'.moves = moves
    BY <2>2, PlannedIsPlan DEF Workers, WorkerPlaces, Installing
  <2>4. PlanIsOrdered'
    <3>1. IF host.app THEN moves = <<"app">> ELSE moves \in Plans
      BY <2>2, PlannedIsPlan
    <3>2. moves \in GuiPlans => disk["daemon"] # "old" \/ ~host.ships_daemon
      BY <2>2, PlannedIsPlan, PlanClasses
    <3>3. host.os = "macos" => moves \notin ServerPlans \cup LatePlans
      BY <2>2, PlannedIsPlan, PlanClasses
    <3>. QED
      BY <2>1, <2>2, <2>3, <3>1, <3>2, <3>3 DEF PlanIsOrdered
  <2>5. DoneIsDone' /\ ModalAgrees'
    BY <2>1, <2>2, <2>3 DEF DoneIsDone, ModalAgrees
  <2>. QED
    BY <1>0, <2>1, <2>3, <2>4, <2>5 DEF UpdateInv, UpdaterTypeOK, FilesAreUsable, Excused
<1>15. CASE Elevate
  <2>1. /\ worker.at = "auth" /\ modal = "installing" /\ UNCHANGED <<host, disk, modal>> /\ ~Swapping
        /\ worker.at \in Installing
    BY <1>0, <1>15 DEF Elevate, ModalAgrees, Swapping, Installing
  <2>2. CASE worker' = [NoWorker EXCEPT !.at = "install_failed"]
    BY <1>2, <1>6, <2>1, <2>2
  <2>3. CASE worker' = [worker EXCEPT !.at = "helper"]
    <3>1. worker' \in Workers /\ worker'.at = "helper" /\ worker'.moves = worker.moves
      BY <1>0, <2>3 DEF Workers, WorkerPlaces, Installing
    <3>. QED
      BY <1>0, <2>1, <3>1
      DEF UpdateInv, UpdaterTypeOK, PlanIsOrdered, DoneIsDone, ModalAgrees, FilesAreUsable, Excused
  <2>. QED
    BY <1>15, <2>2, <2>3 DEF Elevate
<1>16. CASE RenameAside
  <2>1. /\ worker.at = "helper" /\ modal = "installing" /\ UNCHANGED <<host, modal, worker>>
        /\ host.os = "windows" /\ worker.at \in Installing
    BY <1>0, <1>16 DEF RenameAside, ModalAgrees, Installing
  <2>2. ~host.app
    BY <1>0, <2>1 DEF Hosts
  <2>3. worker.moves \in Plans
    BY <1>0, <2>1, <2>2 DEF PlanIsOrdered
  <2>4. PICK b \in Files : b = Head(worker.moves) /\ disk' = [disk EXCEPT ![b] = "missing"]
    BY <1>16, <2>3, PlanHeads DEF RenameAside
  <2>5. /\ disk' \in [Files -> Versions]
        /\ disk'["daemon"] = "old" => disk["daemon"] = "old"
        /\ disk'["gui"] = "new" => disk["gui"] = "new"
    BY <1>0, <2>4 DEF Versions, Files
  <2>6. Swapping'
    BY <2>1, <2>2 DEF Swapping
  <2>. QED
    BY <1>0, <2>1, <2>2, <2>5, <2>6
    DEF UpdateInv, UpdaterTypeOK, PlanIsOrdered, DoneIsDone, ModalAgrees, FilesAreUsable, Excused
<1>17. CASE RelocateSelf
  <2>1. /\ worker.at = "install" /\ modal = "installing" /\ UNCHANGED <<host, modal>> /\ ~Swapping
        /\ host.os = "windows" /\ worker.at \in Installing /\ worker.moves = <<"gui">>
        /\ disk' = [disk EXCEPT !["gui"] = "missing"]
    BY <1>0, <1>17 DEF RelocateSelf, ModalAgrees, Swapping, Installing
  <2>2. ~host.app
    BY <1>0, <2>1 DEF Hosts
  <2>3. /\ disk' \in [Files -> Versions] /\ disk'["gui"] = "missing"
        /\ \A b \in Files \ {"gui"} : disk'[b] = disk[b]
    BY <1>0, <2>1 DEF Versions, Files
  <2>4. CASE disk["gui"] = "missing" /\ worker' = [NoWorker EXCEPT !.at = "install_failed"]
    <3>1. UNCHANGED disk
      BY <1>0, <2>1, <2>3, <2>4
    <3>. QED
      BY <1>2, <1>6, <2>1, <2>4, <3>1
  <2>5. CASE worker' = [worker EXCEPT !.at = "swap"]
    <3>1. worker' \in Workers /\ worker'.at = "swap" /\ worker'.moves = worker.moves
      BY <1>0, <2>5 DEF Workers, WorkerPlaces, Installing
    <3>2. disk'["daemon"] = disk["daemon"]
      BY <2>3 DEF Files
    <3>. QED
      BY <1>0, <2>1, <2>2, <2>3, <3>1, <3>2
      DEF UpdateInv, UpdaterTypeOK, PlanIsOrdered, DoneIsDone, ModalAgrees, FilesAreUsable, Excused,
          Swapping
  <2>. QED
    BY <1>17, <2>4, <2>5 DEF RelocateSelf
<1>18. CASE Replace
  <2>1. /\ worker.at \in {"install", "helper", "swap"} /\ worker.at \in Installing
        /\ modal = "installing" /\ UNCHANGED <<host, modal>> /\ Head(worker.moves) # "app"
    BY <1>0, <1>18 DEF Replace, InPlace, ModalAgrees, Installing
  <2>2. ~host.app /\ worker.moves \in Plans
    BY <1>0, <2>1, PlanHeads DEF PlanIsOrdered
  <2>3. PICK b \in Files : b = Head(worker.moves) /\ disk' = [disk EXCEPT ![b] = "new"]
    BY <1>18, <2>2, PlanHeads DEF Replace
  <2>4. /\ disk' \in [Files -> Versions] /\ disk'[b] = "new"
        /\ \A c \in Files \ {b} : disk'[c] = disk[c]
    BY <1>0, <2>3 DEF Versions
  <2>5. CASE worker.moves = <<"gui">>
    <3>1. b = "gui" /\ worker' = [NoWorker EXCEPT !.at = "installed"]
      BY <1>18, <2>2, <2>3, <2>5, PlanHeads DEF Replace
    <3>2. worker' \in Workers /\ worker'.at = "installed" /\ "installed" \notin Installing
      BY <3>1, WorkerAt, <1>6
    <3>3. /\ disk["daemon"] = "old" => ~host.ships_daemon
          /\ host.os = "macos" => disk["client"] = "new" /\ disk["server"] = "new"
      BY <1>0, <2>1, <2>5, PlanClasses DEF PlanIsOrdered
    <3>4. /\ disk'["gui"] = "new" /\ disk'["daemon"] = disk["daemon"]
          /\ disk'["client"] = disk["client"] /\ disk'["server"] = disk["server"]
      BY <2>4, <3>1 DEF Files, Patched
    <3>. QED
      BY <1>0, <2>1, <2>2, <2>4, <3>2, <3>3, <3>4
      DEF UpdateInv, UpdaterTypeOK, PlanIsOrdered, DoneIsDone, ModalAgrees, FilesAreUsable
  <2>6. CASE worker.moves # <<"gui">>
    <3>1. b # "gui" /\ worker' = [worker EXCEPT !.moves = Tail(worker.moves)]
      BY <1>18, <2>2, <2>3, <2>6, PlanHeads DEF Replace
    <3>2. /\ Tail(worker.moves) \in Plans
          /\ Tail(worker.moves) \in GuiPlans => worker.moves \in GuiPlans \/ b = "daemon"
          /\ Tail(worker.moves) \in ServerPlans => b = "client"
          /\ Tail(worker.moves) \in LatePlans =>
                \/ b = "server" /\ worker.moves \in ServerPlans
                \/ worker.moves \in LatePlans
      BY <2>2, <2>3, <2>6, PlanTails, PlanHeads
    <3>3. worker' \in Workers /\ worker'.at = worker.at /\ worker'.moves = Tail(worker.moves)
      BY <1>0, <3>1, <3>2 DEF Workers
    <3>4. /\ disk'["gui"] = disk["gui"]
          /\ disk'["daemon"] = disk["daemon"] \/ disk'["daemon"] = "new"
          /\ disk'["client"] = disk["client"] \/ disk'["client"] = "new"
          /\ disk'["server"] = disk["server"] \/ disk'["server"] = "new"
          /\ b = "daemon" => disk'["daemon"] = "new"
          /\ b = "client" => disk'["client"] = "new"
          /\ b = "server" => disk'["server"] = "new"
      BY <2>4, <3>1 DEF Files, Patched
    <3>5. PlanIsOrdered'
      <4>1. worker.at # "swap"
        BY <1>0, <2>1, <2>2, <2>6 DEF PlanIsOrdered
      <4>2. worker.at # "helper_swap"
        BY <2>1
      <4>. QED
        BY <1>0, <2>1, <2>2, <3>2, <3>3, <3>4, <4>1, <4>2 DEF PlanIsOrdered
    <3>6. DoneIsDone' /\ ModalAgrees' /\ FilesAreUsable'
      BY <1>0, <2>1, <3>3, <3>4 DEF DoneIsDone, ModalAgrees, FilesAreUsable, Excused, Swapping, Installing
    <3>. QED
      BY <1>0, <2>1, <2>4, <3>3, <3>5, <3>6 DEF UpdateInv, UpdaterTypeOK
  <2>. QED
    BY <2>5, <2>6
<1>19. ASSUME NEW version \in {"old", "missing", "new"}, disk' = App(version), UNCHANGED host
       PROVE  /\ disk' \in [Files -> Versions] /\ disk'["gui"] = version
              /\ disk'["client"] = version /\ disk'["server"] = version
              /\ version = "new" => disk'["daemon"] # "old"
  BY <1>19 DEF App, Files, Patched, Versions
<1>20. CASE AppAside
  <2>1. /\ worker.at \in {"install", "helper"} /\ modal = "installing" /\ UNCHANGED <<host, modal>>
        /\ worker.at \in Installing /\ worker.moves = <<"app">> /\ disk' = App("missing")
    BY <1>0, <1>20 DEF AppAside, ModalAgrees, Installing
  <2>2. host.app /\ ~Swapping
    BY <1>0, <2>1, PlanHeads DEF PlanIsOrdered, Swapping
  <2>3. disk' \in [Files -> Versions] /\ disk'["gui"] = "missing"
    BY <1>19, <2>1
  <2>4. CASE disk["gui"] = "missing" /\ worker' = [NoWorker EXCEPT !.at = "install_failed"]
    <3>1. failures' > 0 \/ ~Open'
      BY <1>0, <2>2, <2>4 DEF FilesAreUsable, Excused
    <3>2. worker' \in Workers /\ worker'.at = "install_failed" /\ "install_failed" \notin Installing
      BY <2>4, WorkerAt, <1>6
    <3>. QED
      BY <1>0, <2>1, <2>2, <2>3, <3>1, <3>2
      DEF UpdateInv, UpdaterTypeOK, PlanIsOrdered, DoneIsDone, ModalAgrees, FilesAreUsable, Excused
  <2>5. ASSUME NEW at \in {"swap", "helper_swap"}, worker' = [worker EXCEPT !.at = at]
        PROVE  UpdateInv'
    <3>1. worker' \in Workers /\ worker'.at = at /\ worker'.moves = <<"app">>
      BY <1>0, <2>1, <2>5 DEF Workers, WorkerPlaces, Installing
    <3>2. PlanIsOrdered'
      BY <2>1, <2>2, <3>1, PlanClasses DEF PlanIsOrdered
    <3>. QED
      BY <1>0, <2>1, <2>2, <2>3, <3>1, <3>2
      DEF UpdateInv, UpdaterTypeOK, DoneIsDone, ModalAgrees, FilesAreUsable, Excused, Swapping
  <2>6. \/ disk["gui"] = "missing" /\ worker' = [NoWorker EXCEPT !.at = "install_failed"]
        \/ worker' = [worker EXCEPT !.at = "swap"] \/ worker' = [worker EXCEPT !.at = "helper_swap"]
    BY <1>20 DEF AppAside
  <2>. QED
    BY <2>4, <2>5, <2>6
<1>21. CASE AppReplace
  <2>1. /\ worker.moves = <<"app">> /\ worker.at \in Installing
        /\ modal = "installing" /\ UNCHANGED <<host, modal>> /\ disk' = App("new")
        /\ worker' = [NoWorker EXCEPT !.at = "installed"]
    BY <1>0, <1>21 DEF AppReplace, ModalAgrees, Installing
  <2>2. worker' \in Workers /\ worker'.at = "installed" /\ "installed" \notin Installing
    BY <2>1, WorkerAt, <1>6
  <2>. QED
    BY <1>0, <1>19, <2>1, <2>2
    DEF UpdateInv, UpdaterTypeOK, PlanIsOrdered, DoneIsDone, ModalAgrees, FilesAreUsable
<1>22. CASE InstallFails
  <2>1. /\ worker.at \in Installing \cup {"download"} /\ modal = "installing"
        /\ UNCHANGED <<host, modal>> /\ worker' = [NoWorker EXCEPT !.at = "install_failed"]
    BY <1>0, <1>22 DEF InstallFails, ModalAgrees, Installing
  <2>2. failures' > 0
    BY <1>0, <1>22 DEF InstallFails, Failure, UpdaterTypeOK
  <2>3. worker' \in Workers /\ worker'.at = "install_failed" /\ "install_failed" \notin Installing
    BY <2>1, WorkerAt, <1>6
  <2>4. CASE UNCHANGED disk
    BY <1>2, <1>6, <2>1, <2>2, <2>4
  <2>5. CASE disk' = App("old")
    BY <1>0, <1>19, <2>1, <2>3, <2>5
    DEF UpdateInv, UpdaterTypeOK, PlanIsOrdered, DoneIsDone, ModalAgrees, FilesAreUsable
  <2>. QED
    BY <1>22, <2>4, <2>5 DEF InstallFails
<1>23. CASE Instances
  BY <1>1, <1>23 DEF Instances, ExitOld, Launch, Acquire, Bind, Probe, RemoveStale
<1>24. ASSUME NEW p \in Processes, EndProcess(p) PROVE UpdateInv'
  <2>1. CASE UNCHANGED worker
    BY <1>1, <1>24, <2>1 DEF EndProcess
  <2>2. CASE p = First /\ worker' = NoWorker
    <3>1. ~Open' /\ UNCHANGED <<host, disk, modal>>
      BY <1>0, <1>24, <2>2, UpdaterAssumption DEF EndProcess, Open, Running, UpdaterTypeOK, Guis
    <3>. QED
      BY <1>0, <1>2, <1>3, <1>6, <2>2, <3>1 DEF DoneIsDone
  <2>. QED
    BY <1>24, <2>1, <2>2 DEF EndProcess
<1>25. ASSUME NEW p \in Processes, Relaunch(p) PROVE UpdateInv'
  BY <1>1, <1>25 DEF Relaunch
<1>26. CASE UNCHANGED updaterVars
  BY <1>1, <1>26 DEF updaterVars
<1>. QED
  BY <1>8, <1>9, <1>10, <1>11, <1>12, <1>13, <1>14, <1>15, <1>16, <1>17, <1>18, <1>20, <1>21, <1>22,
     <1>23, <1>24, <1>25, <1>26 DEF UpdaterNext, Dialog, Work

\* An update leaves a usable installation at every step, whatever fails and when
\* the GUI ends, for any number of processes and failures (download_and_apply,
\* install_inline, apply_plan, bundle::replace).
THEOREM UpdateIsSafe == UpdaterSpec => []InstallStaysUsable
<1>1. UpdateInv => InstallStaysUsable
  <2>1. /\ disk.gui = disk["gui"] /\ disk.daemon = disk["daemon"]
    OBVIOUS
  <2>. QED
    BY <2>1 DEF UpdateInv, FilesAreUsable, DoneIsDone, InstallStaysUsable, Excused, Swapping, Patched
<1>. QED
  BY <1>1, UpdateInitInv, UpdateStepInv, PTL DEF UpdaterSpec
=============================================================================
