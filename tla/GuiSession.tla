----------------------------- MODULE GuiSession -----------------------------
(***************************************************************************)
(* The GUI beside its daemon: the event and command threads of             *)
(* synbad-gui/src/ipc_thread.rs, the subscriber's connection of            *)
(* synbad-ipc/src/server.rs, and the window's view of the daemon with its  *)
(* config edit buffer (synbad-gui/src/app).                                *)
(*                                                                         *)
(* The daemon is reduced to what the GUI mirrors: the config, the state of *)
(* the Core, the trusted peers and the pairing sessions that wait for the  *)
(* user.  ListPeers and GetAudioStatus mirror a set the way                *)
(* ListTrustedPeers does; log lines, device lists, sync chips and messages *)
(* are left out.                                                           *)
(***************************************************************************)
EXTENDS Naturals, Sequences

CONSTANTS
    Peers,
    UserEdits,   \* what the user may type into the buffer
    RemoteEdits, \* what a sync merge or an editor may leave in the daemon
    None,
    EventsCap,   \* bound on events not yet read: 1024 in the bus, then the socket
    UpdatesCap,  \* bound on the update channel, unbounded in the code
    CommandsCap, \* bound on the command channel, unbounded in the code
    MaxBooting,  \* bound on daemons that start at the same time
    MaxClicks, MaxChanges, MaxFaults

\* The user's part of a config, its audio section, and the screens in its layout.
Configs == [edit : UserEdits \cup RemoteEdits \cup {"default", "saved"},
            audio : BOOLEAN, screens : SUBSET Peers]
States == {"running", "stopped"}

ASSUME GuiAssumption ==
    /\ {EventsCap, UpdatesCap, CommandsCap} \subseteq Nat \ {0}
    /\ {MaxBooting, MaxClicks, MaxChanges, MaxFaults} \subseteq Nat
    /\ None \notin Configs

VARIABLES
    up,        \* a daemon owns the socket
    booting,   \* synbadd processes started and not yet bound
    config, state, trusted, proposals,   \* the daemon's
    sub,       \* the subscribed connection, and the one that fetches snapshots
    thread,    \* where event_loop is
    updates,   \* update_tx .. update_rx
    commands,  \* cmd_tx .. cmd_rx
    reply,     \* what command_loop is about to send to the window
    view,      \* SynbadApp
    wanted,    \* IpcHandle.daemon_wanted
    window,    \* open, draining its updates, closing or gone
    stale,     \* history: why the view may be out of date
    clicks, changes, faults

daemon == <<up, booting, config, state, trusted, proposals>>
threads == <<sub, thread, reply>>
bounds == <<clicks, changes, faults>>
vars == <<daemon, threads, updates, commands, view, wanted, window, stale, bounds>>

Default == [edit |-> "default", audio |-> FALSE, screens |-> {}]
NewView == [connected |-> FALSE, config |-> Default, dirty |-> FALSE, pending |-> None,
            state |-> "stopped", trusted |-> {}, dialogs |-> {}, listed |-> FALSE,
            based |-> FALSE, reconcile |-> TRUE]

Alive == window # "gone"
Open == window \in {"open", "draining"}
Clicking == window = "open" /\ clicks < MaxClicks /\ clicks' = clicks + 1
Faulty == faults < MaxFaults /\ faults' = faults + 1

-----------------------------------------------------------------------------
(* The subscriber's connection. *)

Closed == [open |-> FALSE, snapshot |-> FALSE, queue |-> <<>>]

\* Mutant of Broadcast: a subscriber that lags misses the event and goes on.
LaggingSubscriberGoesOn(ev) ==
    sub' = IF sub.open /\ Len(sub.queue) < EventsCap
           THEN [sub EXCEPT !.queue = Append(@, ev)] ELSE sub

\* event_bus.send: one that lags too far behind is cut off after whatever its
\* connection task had already written.
Broadcast(ev) ==
    \/ /\ sub.open /\ Len(sub.queue) < EventsCap
       /\ sub' = [sub EXCEPT !.queue = Append(@, ev)]
    \/ /\ sub.open /\ Len(sub.queue) = EventsCap
       /\ \E k \in 0..EventsCap :
            sub' = [sub EXCEPT !.queue = SubSeq(@, 1, k), !.open = FALSE]
    \/ /\ ~sub.open
       /\ sub' = sub

\* The daemon process ends: what was written can still be read.
Hangup ==
    \E k \in 0..Len(sub.queue) :
        sub' = [open |-> FALSE, snapshot |-> FALSE, queue |-> SubSeq(sub.queue, 1, k)]

-----------------------------------------------------------------------------
(* The daemon, as far as the GUI can tell, while there is a window to watch it. *)

Change == Open /\ up /\ changes < MaxChanges /\ changes' = changes + 1
DaemonOnly == UNCHANGED <<booting, thread, reply, updates, commands, view, wanted, window,
                           stale, clicks, faults>>

\* Mutant of MergeRemote: nobody is told.
MergeSilently(e) ==
    /\ Change /\ config.edit # e
    /\ config' = [config EXCEPT !.edit = e]
    /\ UNCHANGED <<up, state, trusted, proposals, sub>> /\ DaemonOnly

\* A sync merge, or the config file edited in an editor.
MergeRemote(e) ==
    /\ Change /\ config.edit # e
    /\ config' = [config EXCEPT !.edit = e]
    /\ Broadcast([kind |-> "config"])
    /\ UNCHANGED <<up, state, trusted, proposals>> /\ DaemonOnly

CoreChanges(s) ==
    /\ Change /\ state # s
    /\ state' = s
    /\ Broadcast([kind |-> "state", state |-> s])
    /\ UNCHANGED <<up, config, trusted, proposals>> /\ DaemonOnly

Propose(p) ==
    /\ Change /\ p \notin proposals
    /\ proposals' = proposals \cup {p}
    /\ Broadcast([kind |-> "proposed", peer |-> p])
    /\ UNCHANGED <<up, config, state, trusted>> /\ DaemonOnly

\* The user may have answered from another window.
PairingCompletes(p) ==
    /\ Open /\ up /\ p \in proposals
    /\ proposals' = proposals \ {p}
    /\ trusted' = trusted \cup {p}
    /\ Broadcast([kind |-> "completed", peer |-> p])
    /\ UNCHANGED <<up, config, state, changes>> /\ DaemonOnly

PairingFails(p) ==
    /\ Open /\ up /\ p \in proposals
    /\ proposals' = proposals \ {p}
    /\ Broadcast([kind |-> "failed", peer |-> p])
    /\ UNCHANGED <<up, config, state, trusted, changes>> /\ DaemonOnly

\* Listener::bind: the lock lets one process have the socket; another exits.
Boot ==
    /\ booting > 0
    /\ booting' = booting - 1
    /\ up' = TRUE
    /\ UNCHANGED <<config, state, trusted, proposals, threads, updates, commands, view,
                   wanted, window, stale, bounds>>

BootFails ==
    /\ booting > 0 /\ Faulty
    /\ booting' = booting - 1
    /\ UNCHANGED <<up, config, state, trusted, proposals, threads, updates, commands, view,
                   wanted, window, stale, clicks, changes>>

DaemonEnds ==
    /\ up' = FALSE
    /\ state' = "stopped"
    /\ proposals' = {}
    /\ Hangup
    /\ UNCHANGED <<booting, config, trusted, thread, reply>>

Crash ==
    /\ Open /\ up /\ Faulty
    /\ DaemonEnds
    /\ UNCHANGED <<updates, commands, view, wanted, window, stale, clicks, changes>>

-----------------------------------------------------------------------------
(* event_loop. *)

\* A notice that repeats the last one changes nothing in the window, and a window
\* that closes reads no more.
Push(u) ==
    IF ~Open \/ (updates # <<>> /\ u = updates[Len(updates)]) THEN UNCHANGED updates
    ELSE Len(updates) < UpdatesCap /\ updates' = Append(updates, u)

Offline == [kind |-> "disconnected"]
Launching == [kind |-> "launching"]
EventThread == Alive /\ UNCHANGED <<up, config, state, trusted, proposals, reply, commands,
                                    view, wanted, window, clicks, changes>>

\* The server subscribes the connection before it acknowledges.
Subscribe ==
    /\ thread = "connect" /\ up
    /\ thread' = "config"
    /\ sub' = [open |-> TRUE, snapshot |-> FALSE, queue |-> <<>>]
    /\ EventThread /\ UNCHANGED <<booting, updates, stale, faults>>

\* Mutant of ConnectFails: a daemon that is gone is waited for, never started.
WaitOnly(spawned) ==
    /\ thread = "connect" /\ ~up
    /\ ~spawned
    /\ Push(Offline)
    /\ booting' = booting
    /\ EventThread /\ UNCHANGED <<sub, thread, stale, faults>>

\* Nothing listens: report it and, when the user wants a daemon and the
\* throttle has run out, start one.
ConnectFails(spawned) ==
    /\ thread = "connect" /\ ~up
    /\ IF spawned
       THEN /\ wanted /\ booting < MaxBooting
            /\ booting' = booting + 1
            /\ Push(Launching)
       ELSE booting' = booting /\ Push(Offline)
    /\ EventThread /\ UNCHANGED <<sub, thread, stale, faults>>

\* bootstrap, on a connection of its own.
FetchConfig ==
    /\ thread = "config" /\ up
    /\ thread' = "status"
    /\ sub' = [sub EXCEPT !.snapshot = TRUE]
    /\ Push([kind |-> "config", config |-> config])
    /\ EventThread /\ UNCHANGED <<booting, stale, faults>>

FetchStatus ==
    /\ thread = "status" /\ sub.snapshot
    /\ thread' = "trusted"
    /\ Push([kind |-> "status", state |-> state])
    /\ EventThread /\ UNCHANGED <<booting, sub, stale, faults>>

FetchTrusted ==
    /\ thread = "trusted" /\ sub.snapshot
    /\ thread' = "ready"
    /\ Push([kind |-> "trusted", peers |-> trusted])
    /\ EventThread /\ UNCHANGED <<booting, sub, stale, faults>>

Announce ==
    /\ thread = "ready"
    /\ thread' = "stream"
    /\ Push([kind |-> "connected"])
    /\ EventThread /\ UNCHANGED <<booting, sub, stale, faults>>

SetupFails ==
    /\ thread \in {"config", "status", "trusted"}
    /\ \/ (IF thread = "config" THEN ~up ELSE ~sub.snapshot) /\ UNCHANGED faults
       \/ Faulty
    /\ thread' = "connect"
    /\ sub' = Closed
    /\ Push(Offline)
    /\ EventThread /\ UNCHANGED <<booting, stale>>

ReadEvent ==
    /\ thread = "stream" /\ sub.queue # <<>>
    /\ sub' = [sub EXCEPT !.queue = Tail(@)]
    /\ Push(IF Head(sub.queue).kind = "config" THEN [kind |-> "config", config |-> config]
            ELSE Head(sub.queue))
    /\ Head(sub.queue).kind = "config" => up
    /\ EventThread /\ UNCHANGED <<booting, thread, stale, faults>>

\* refetch_config returns None and the event is dropped.
RefetchFails ==
    /\ thread = "stream" /\ sub.queue # <<>> /\ Head(sub.queue).kind = "config"
    /\ sub' = [sub EXCEPT !.queue = Tail(@)]
    /\ IF up THEN Faulty /\ stale' = stale \cup {"config"} ELSE UNCHANGED <<faults, stale>>
    /\ EventThread /\ UNCHANGED <<booting, thread, updates>>

StreamEnds ==
    /\ thread = "stream" /\ sub.queue = <<>> /\ ~sub.open
    /\ thread' = "connect"
    /\ sub' = Closed
    /\ Push(Offline)
    /\ EventThread /\ UNCHANGED <<booting, stale, faults>>

-----------------------------------------------------------------------------
(* command_loop. *)

CommandThread == Alive /\ UNCHANGED <<booting, thread, view, wanted, window, clicks,
                                      changes>>

\* set_config: validate, save, apply; update_audio_config calls it with the audio
\* section replaced.  The thread drops a refusal: Ok(_) => {}.
RunSetConfig(c) ==
    /\ \/ config' = c /\ Broadcast([kind |-> "config"]) /\ UNCHANGED <<stale, faults>>
       \/ Faulty /\ stale' = stale \cup {"config"} /\ UNCHANGED <<config, sub>>
    /\ UNCHANGED <<state, trusted, reply>>

RunCore(s) ==
    /\ IF state = s THEN UNCHANGED <<state, sub>>
       ELSE state' = s /\ Broadcast([kind |-> "state", state |-> s])
    /\ UNCHANGED <<config, trusted, reply, stale, faults>>

RunRevoke(p) ==
    /\ IF p \in trusted
       THEN trusted' = trusted \ {p} /\ Broadcast([kind |-> "revoked", peer |-> p])
       ELSE UNCHANGED <<trusted, sub>>
    /\ UNCHANGED <<config, state, reply, stale, faults>>

RunRefresh ==
    /\ reply' = [kind |-> "status", state |-> state]
    /\ UNCHANGED <<config, state, trusted, sub, stale, faults>>

\* A connection of its own for every command; the daemon answers it.
Dispatch ==
    /\ commands # <<>> /\ reply = None /\ up
    /\ commands' = Tail(commands)
    /\ LET c == Head(commands) IN
         \/ c.kind = "set_config" /\ RunSetConfig(c.config)
         \/ c.kind = "set_audio" /\ RunSetConfig([config EXCEPT !.audio = c.audio])
         \/ c.kind = "core" /\ RunCore(c.state)
         \/ c.kind = "revoke" /\ RunRevoke(c.peer)
         \/ c.kind = "refresh" /\ RunRefresh
    /\ CommandThread /\ UNCHANGED <<up, proposals, updates>>

\* Five seconds without a daemon, or the request fails: the command is dropped.
DispatchFails ==
    /\ commands # <<>> /\ reply = None
    /\ IF up THEN Faulty ELSE UNCHANGED faults
    /\ commands' = Tail(commands)
    /\ stale' = IF Head(commands).kind \in {"set_config", "set_audio"}
                THEN stale \cup {"config"} ELSE stale
    /\ CommandThread /\ UNCHANGED <<up, config, state, trusted, proposals, sub, reply, updates>>

\* The answer may be older than events the other thread has already passed on.
PushReply ==
    /\ reply # None
    /\ Push(reply)
    /\ reply' = None
    /\ stale' = IF reply.state # state THEN stale \cup {"state"} ELSE stale
    /\ CommandThread /\ UNCHANGED <<up, config, state, trusted, proposals, sub, commands, faults>>

-----------------------------------------------------------------------------
(* The window. *)

ApplyConfig(v, c) ==
    IF v.dirty THEN [v EXCEPT !.pending = c]
    ELSE [v EXCEPT !.config = c, !.pending = None, !.based = TRUE]

\* The discovered peers are dropped, the trusted ones are kept.
GoOffline(v) == [v EXCEPT !.connected = FALSE, !.dialogs = {}, !.listed = FALSE]

\* One arm of drain_ipc.
ApplyUpdate(v, u) ==
    CASE u.kind = "connected" -> [v EXCEPT !.connected = TRUE]
      [] u.kind = "disconnected" -> GoOffline(v)
      [] u.kind = "launching" -> [v EXCEPT !.connected = FALSE]
      [] u.kind = "config" -> ApplyConfig(v, u.config)
      [] u.kind \in {"status", "state"} -> [v EXCEPT !.state = u.state]
      [] u.kind = "trusted" -> [v EXCEPT !.trusted = u.peers, !.listed = TRUE]
      [] u.kind = "revoked" -> [v EXCEPT !.trusted = @ \ {u.peer}]
      [] u.kind = "proposed" -> [v EXCEPT !.dialogs = @ \cup {u.peer}]
      [] u.kind = "failed" -> [v EXCEPT !.dialogs = @ \ {u.peer}]
      [] u.kind = "completed" -> [v EXCEPT !.dialogs = @ \ {u.peer}, !.trusted = @ \cup {u.peer},
                                           !.reconcile = TRUE]

\* Mutant of MayReconcile: an unanswered banner does not hold it back.
IgnoreBanner(v) == v.connected

MayReconcile(v) == v.connected /\ v.pending = None

\* Every trusted peer has its place in the layout.  The local monitors are
\* mirrored into the machine's own screen in the same way.
Structured(v) == [v.config EXCEPT !.screens = @ \cup v.trusted]

\* What no longer differs is no longer out of date.
Refreshed(s, v, cs) ==
    {k \in s : CASE k = "config" -> v.dirty \/ v.config # config \/ cs # <<>>
                 [] k = "state" -> v.state # state}

SetConfig(c, click, b) == [kind |-> "set_config", config |-> c, click |-> click, based |-> b]

\* SynbadApp::update begins with drain_ipc, while the threads go on.
Drain ==
    /\ Open /\ updates # <<>>
    /\ window' = "draining"
    /\ view' = ApplyUpdate(view, Head(updates))
    /\ updates' = Tail(updates)
    /\ UNCHANGED <<daemon, threads, commands, wanted, stale, bounds>>

\* Nothing is left to drain: right after a pairing, or when five seconds are over,
\* reconcile and push what changed; then the widgets.
Frame(due) ==
    /\ Open /\ updates = <<>>
    /\ view.reconcile => due
    /\ due => Len(commands) < CommandsCap
    /\ window' = "open"
    /\ LET v == IF due THEN [view EXCEPT !.reconcile = FALSE] ELSE view
           push == due /\ MayReconcile(v) /\ Structured(v) # v.config
       IN /\ view' = IF push THEN [v EXCEPT !.config = Structured(v), !.dirty = FALSE] ELSE v
          /\ commands' = IF push THEN Append(commands, SetConfig(Structured(v), FALSE, v.based))
                         ELSE commands
          /\ stale' = Refreshed(stale, view', commands')
    /\ UNCHANGED <<daemon, threads, updates, wanted, bounds>>

Click == Clicking /\ UNCHANGED <<daemon, threads, updates, window, changes, faults>>
Send(cmd) == Len(commands) < CommandsCap /\ commands' = Append(commands, cmd)

\* Any widget of the settings and layout tabs, also without a daemon.
Edit(e) ==
    /\ window = "open" /\ view.config.edit # e
    /\ view' = [view EXCEPT !.config.edit = e, !.dirty = TRUE]
    /\ UNCHANGED <<daemon, threads, updates, commands, wanted, window, stale, bounds>>

\* The audio tab, also without a daemon: sent at once, and `dirty` stays as it is.
EditAudio(a) ==
    /\ view.config.audio # a
    /\ view' = [view EXCEPT !.config.audio = a]
    /\ Send([kind |-> "set_audio", audio |-> a])
    /\ Click /\ UNCHANGED <<wanted, stale>>

ToggleAutostart(e) ==
    /\ view.config.edit # e
    /\ view' = [view EXCEPT !.config.edit = e, !.dirty = TRUE]
    /\ wanted' = ~wanted
    /\ Click /\ UNCHANGED <<commands, stale>>

Apply ==
    /\ view.connected /\ view.dirty
    /\ Send(SetConfig(view.config, TRUE, view.based))
    /\ view' = [view EXCEPT !.dirty = FALSE, !.pending = None, !.based = TRUE]
    /\ Click /\ UNCHANGED <<wanted, stale>>

\* Without a pending report the buffer keeps the edits and only the status is
\* asked for.
Revert ==
    /\ view.dirty \/ view.pending # None
    /\ IF view.pending # None
       THEN /\ view' = [view EXCEPT !.dirty = FALSE, !.pending = None, !.based = TRUE,
                                    !.config = view.pending]
            /\ UNCHANGED <<commands, stale>>
       ELSE /\ view' = [view EXCEPT !.dirty = FALSE]
            /\ Send([kind |-> "refresh"])
            /\ stale' = stale \cup {"config"}
    /\ Click /\ UNCHANGED wanted

Start ==
    /\ wanted' = TRUE
    /\ Send([kind |-> "core", state |-> "running"])
    /\ Click /\ UNCHANGED <<view, stale>>

Stop ==
    /\ view.connected
    /\ Send([kind |-> "core", state |-> "stopped"])
    /\ Click /\ UNCHANGED <<view, wanted, stale>>

\* A restart ends where a start does; the states in between are the Core's own.
Restart ==
    /\ view.connected
    /\ Send([kind |-> "core", state |-> "running"])
    /\ Click /\ UNCHANGED <<view, wanted, stale>>

\* connect_as_client_to, from the row of a trusted peer that is discovered, which
\* the snapshots show before the window is connected: the buffer with the new role
\* and address goes out, unsaved edits and all, and the Core is started.
UseAsServer(e) ==
    /\ view.listed /\ view.trusted # {} /\ view.config.edit # e
    /\ LET c == [view.config EXCEPT !.edit = e] IN
         /\ Len(commands) < CommandsCap
         /\ commands' = commands \o <<SetConfig(c, TRUE, view.based),
                                      [kind |-> "core", state |-> "running"]>>
         /\ view' = [view EXCEPT !.config = c, !.dirty = FALSE, !.pending = None,
                                 !.based = TRUE]
    /\ Click /\ UNCHANGED <<wanted, stale>>

RevokeTrust(p) ==
    /\ p \in view.trusted
    /\ Send([kind |-> "revoke", peer |-> p])
    /\ Click /\ UNCHANGED <<view, wanted, stale>>

\* The dialog closes on the click; the session goes on in the daemon.
Decide(p) ==
    /\ p \in view.dialogs
    /\ view' = [view EXCEPT !.dialogs = @ \ {p}]
    /\ Click /\ UNCHANGED <<commands, wanted, stale>>

\* handle_close on a real exit: Shutdown, if a daemon answers.  No frame is drawn
\* any more, so what the window holds no longer matters.
Quit ==
    /\ Open /\ updates = <<>>
    /\ window' = "closing"
    /\ IF up THEN DaemonEnds ELSE UNCHANGED <<daemon, threads>>
    /\ updates' = <<>> /\ commands' = <<>> /\ view' = NewView /\ stale' = {}
    /\ UNCHANGED <<wanted, bounds>>

Exit ==
    /\ window = "closing"
    /\ window' = "gone"
    /\ UNCHANGED <<daemon, threads, updates, commands, view, wanted, stale, bounds>>

-----------------------------------------------------------------------------
Init ==
    /\ up \in BOOLEAN /\ booting = 0
    /\ config = [edit |-> "saved", audio |-> FALSE, screens |-> {}]
    /\ state = "stopped" /\ trusted = Peers /\ proposals = {}
    /\ sub = Closed /\ thread = "connect" /\ reply = None
    /\ updates = <<>> /\ commands = <<>>
    /\ view = NewView
    /\ wanted \in BOOLEAN /\ window = "open" /\ stale = {}
    /\ clicks = 0 /\ changes = 0 /\ faults = 0

EventLoop ==
    \/ Subscribe \/ FetchConfig \/ FetchStatus \/ FetchTrusted \/ Announce \/ SetupFails
    \/ ReadEvent \/ RefetchFails \/ StreamEnds

Next ==
    \/ \E e \in RemoteEdits : MergeRemote(e)
    \/ \E s \in States : CoreChanges(s)
    \/ \E p \in Peers : Propose(p) \/ PairingCompletes(p) \/ PairingFails(p)
    \/ Boot \/ BootFails \/ Crash
    \/ \E spawned \in BOOLEAN : ConnectFails(spawned)
    \/ EventLoop
    \/ Dispatch \/ DispatchFails \/ PushReply
    \/ Drain \/ \E due \in BOOLEAN : Frame(due)
    \/ \E e \in UserEdits : Edit(e) \/ ToggleAutostart(e) \/ UseAsServer(e)
    \/ \E a \in BOOLEAN : EditAudio(a)
    \/ Apply \/ Revert \/ Start \/ Stop \/ Restart
    \/ \E p \in Peers : RevokeTrust(p) \/ Decide(p)
    \/ Quit \/ Exit

Spec == Init /\ [][Next]_vars

\* The threads, the window's frames and a starting daemon all run on.
FairSpec ==
    /\ Spec
    /\ WF_vars(EventLoop) /\ SF_vars(ConnectFails(TRUE))
    /\ WF_vars(Dispatch \/ DispatchFails) /\ WF_vars(PushReply)
    /\ WF_vars(Drain \/ \E due \in BOOLEAN : Frame(due)) /\ WF_vars(Boot)

-----------------------------------------------------------------------------
(* Properties. *)

\* Nothing is on its way to the window or from it.
Settled ==
    /\ Open /\ thread = "stream" /\ sub.open /\ sub.queue = <<>>
    /\ updates = <<>> /\ commands = <<>> /\ reply = None

\* Once nothing is on its way, the window shows the daemon's Core state and
\* trusted peers and no dialog of a dead session, whatever was lost to lag, a
\* crash or a failed bootstrap; only a status answer that was overtaken by
\* newer events can leave an old state on the screen (server.rs closes a
\* lagging subscriber so that it fetches complete snapshots).
SettledViewIsTrue ==
    Settled =>
        /\ view.connected
        /\ view.trusted = trusted
        /\ view.dialogs \subseteq proposals
        /\ view.state = state \/ "state" \in stale

\* Once nothing is on its way, a buffer without unsaved edits is the daemon's
\* config, and a banner offers the daemon's config, unless a refetch failed, a
\* SetConfig was refused or lost, or Revert had nothing to load.
SettledConfigIsTrue ==
    Settled /\ "config" \notin stale =>
        /\ ~view.dirty => view.config = config
        /\ view.pending # None => view.pending = config

\* What reconcile pushes on its own is never a layout built on the defaults the
\* window starts with: it waits for the daemon's config to be in the buffer.
NoBlindPush ==
    \A i \in DOMAIN commands :
        commands[i].kind = "set_config" /\ ~commands[i].click => commands[i].based

\* A window that stays open and wants a daemon ends up connected to one,
\* through crashes of the daemon and failed starts.
Reconnects ==
    <>[](view.connected \/ ~wanted \/ ~Open)

\* Clean means the daemon's config: app/mod.rs says dirty tracks whether the
\* buffer diverges from what the daemon last reported.
DirtyTracksDivergence ==
    Settled /\ ~view.dirty => view.config = config

\* A real exit takes the daemon down: app/mod.rs, handle_close.
NoDaemonLingers ==
    window = "gone" /\ booting = 0 => ~up

=============================================================================
