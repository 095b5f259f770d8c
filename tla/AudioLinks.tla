----------------------------- MODULE AudioLinks -----------------------------
(***************************************************************************)
(* The audio links of one machine: the supervisor that decides whom to     *)
(* dial (synbadd/src/supervisor), the dial and accept tasks                *)
(* (synbadd/src/audio.rs), the bridge task that owns one session per peer  *)
(* (synbad-audio/src/bridge.rs) and the driver task of each session        *)
(* (synbad-audio/src/session.rs).  They talk through bounded channels: the *)
(* supervisor never waits for the bridge, so a full channel loses what it  *)
(* sends, and the bridge learns of revoked trust only by looking.  Dials,  *)
(* hand-offs and the bridge's handlers await between what they check and   *)
(* what they do: each wait ends a step.                                    *)
(***************************************************************************)
EXTENDS Naturals, Sequences, Functions

CONSTANTS
    Peers,
    CommandsCap,  \* capacity of the command channel: 64 in the code
    EventsCap,    \* capacity of the event channel: 256 in the code
    MaxEdits,     \* bound on changes of config, trust, run state and visibility
    MaxFaults,    \* bound on failed dials, sessions and binds
    None

ASSUME AudioAssumption ==
    /\ CommandsCap \in Nat /\ CommandsCap >= 1
    /\ EventsCap \in Nat /\ EventsCap >= 1
    /\ MaxEdits \in Nat /\ MaxFaults \in Nat

VARIABLES
    dialled,                                   \* the peers whose machine id sorts after ours
    desired_running, config,                   \* the supervisor's run state and audio config
    peers, audible, trusted,                   \* visible peers, those with an audio port, trust store
    up, port_changed,                          \* the supervisor holds a bridge, a pending port edit
    listening, accepted,                       \* listener task, its hand-offs past the trust check
    audio_live, audio_inflight, audio_backoff, \* the supervisor's bookkeeping
    dials, vetted, outcomes,                   \* dial tasks, those past the trust check, audio_dial_done
    finished,                                  \* the bridge task is over
    commands, events,                          \* the bridge's channels
    bridge_config, sessions,                   \* the bridge's state
    closing, starting, outbox,                 \* what the handler the bridge is in has still to do
    ghosts,                                    \* history: peers an aborted driver still reported
    edits, faults

intent == <<dialled, desired_running, config, peers, audible, trusted, port_changed>>
listener == <<listening, accepted>>
book == <<audio_live, audio_inflight, audio_backoff>>
dialling == <<dials, vetted, outcomes>>
work == <<closing, starting, outbox>>
bridge == <<finished, bridge_config, sessions, ghosts, work, commands, events>>
vars == <<intent, up, listener, book, dialling, bridge, edits, faults>>

\* AudioConfig: the master switch, and per peer which directions are routed.
Routes == {"off", "send", "both"}
Configs == [enabled : BOOLEAN, route : [Peers -> Routes]]
PeerAudioActive(cfg, p) == cfg.enabled /\ cfg.route[p] # "off"

\* A driver negotiates, is connected, has lost ICE, waits to report its error, or ended.
Phases == {"negotiating", "connected", "broken", "failed", "ended"}
ASSUME NoneAssumption == None \notin Phases

Signal(p) == [kind |-> "signal", peer |-> p]
ClosePeer(p) == [kind |-> "close", peer |-> p]
Reconfigure(cfg) == [kind |-> "reconfigure", config |-> cfg]
PeerStatus(p, ok) == [kind |-> "status", peer |-> p, ok |-> ok]
AudioError(p) == [kind |-> "error", peer |-> p]
SessionClosed(p) == [kind |-> "closed", peer |-> p]

\* try_send: lost when the channel is full.
TrySend(queue, cap, m) == IF Len(queue) < cap THEN Append(queue, m) ELSE queue

\* The supervisor tells the bridge, if there is one to hear it.
Tell(c) == IF up /\ ~finished THEN TrySend(commands, CommandsCap, c) ELSE commands

Fault == faults < MaxFaults /\ faults' = faults + 1
Edit == edits < MaxEdits /\ edits' = edits + 1

-----------------------------------------------------------------------------
\* dial_audio_one: its gates, but for the trust mutex.
DialAudioOne(p, heard, live, inflight, backoff, cfg) ==
    /\ p \in heard /\ PeerAudioActive(cfg, p) /\ p \in dialled
    /\ p \notin live /\ p \notin inflight /\ backoff[p] # "waiting"
    /\ p \in trusted

\* reconcile_audio_sessions over the visible peers that advertise an audio port, with
\* the bookkeeping as the handler left it; `on` says whether the dial dependencies
\* exist, `busy` for which peers the trust mutex was taken.
ReconcileAudioSessions(on, busy, heard, cfg, live, inflight, backoff, running) ==
    LET start == {p \in Peers \ busy : on /\ DialAudioOne(p, heard, live, inflight, backoff, cfg)}
    IN /\ audio_live' = live
       /\ audio_backoff' = backoff
       /\ audio_inflight' = inflight \cup start
       /\ dials' = [p \in Peers |-> running[p] + IF p \in start THEN 1 ELSE 0]

NoDials == [p \in Peers |-> 0]
NoBackoff == [p \in Peers |-> "none"]

\* A bridge without sessions, whose channels are empty but for `first`.
FreshBridge(first) ==
    /\ finished' = FALSE
    /\ sessions' = [p \in Peers |-> None] /\ ghosts' = {}
    /\ closing' = {} /\ starting' = None /\ outbox' = <<>>
    /\ commands' = first /\ events' = <<>>
    /\ vetted' = NoDials /\ outcomes' = <<>> /\ accepted' = {}

\* ensure_audio_subsystem: a new bridge on `cfg`, and `first`, what the handler that
\* called it then sends it; the listener may fail to bind.
EnsureAudioSubsystem(busy, cfg, first) ==
    /\ up' = TRUE
    /\ \/ listening' = TRUE /\ UNCHANGED faults
       \/ listening' = FALSE /\ Fault
    /\ bridge_config' = cfg
    /\ FreshBridge(first)
    /\ ReconcileAudioSessions(TRUE, busy, audible, cfg, {}, {}, NoBackoff, NoDials)

\* Mutant of TeardownAudioSubsystem: the bookkeeping survives.
TeardownKeepsBook ==
    /\ up' = FALSE /\ listening' = FALSE
    /\ FreshBridge(<<>>)
    /\ dials' = NoDials
    /\ UNCHANGED <<book, bridge_config, faults>>

\* teardown_audio_subsystem: dial tasks and listener are aborted and awaited, the
\* bridge drains or is aborted, its channels go, and the bookkeeping is cleared.
TeardownAudioSubsystem ==
    /\ up' = FALSE /\ listening' = FALSE
    /\ FreshBridge(<<>>)
    /\ dials' = NoDials
    /\ audio_live' = {} /\ audio_inflight' = {} /\ audio_backoff' = NoBackoff
    /\ UNCHANGED <<bridge_config, faults>>

\* reconcile_audio_subsystem.
ReconcileAudioSubsystem(busy, want, cfg, first) ==
    \/ want /\ ~up /\ EnsureAudioSubsystem(busy, cfg, first)
    \/ ~want /\ up /\ TeardownAudioSubsystem
    \/ /\ want = up
       /\ UNCHANGED <<up, listener, book, dialling, bridge, faults>>

-----------------------------------------------------------------------------
\* Start and Stop: the run state, then the audio subsystem.
SetRunning(busy, b) ==
    /\ desired_running # b /\ Edit
    /\ desired_running' = b
    /\ ReconcileAudioSubsystem(busy, b /\ config.enabled, config, <<>>)
    /\ UNCHANGED <<dialled, config, peers, audible, trusted, port_changed>>

\* update_audio_config when the master switch flips.
ToggleAudio(busy) ==
    LET cfg == [config EXCEPT !.enabled = ~@]
    IN /\ Edit
       /\ config' = cfg
       /\ ReconcileAudioSubsystem(busy, desired_running /\ cfg.enabled, cfg, <<Reconfigure(cfg)>>)
       /\ UNCHANGED <<dialled, desired_running, peers, audible, trusted, port_changed>>

\* update_audio_config, the switch left alone: Reconfigure, evict the demoted peers,
\* reconcile the sessions.
UpdateAudioConfig(busy, cfg) ==
    LET demoted == {q \in peers : PeerAudioActive(config, q) /\ ~PeerAudioActive(cfg, q)}
    IN /\ config' = cfg
       /\ commands' = Tell(Reconfigure(cfg))
       /\ ReconcileAudioSessions(up, busy, audible, cfg, audio_live \ demoted, audio_inflight,
              [q \in Peers |-> IF q \in demoted THEN "none" ELSE audio_backoff[q]], dials)
       /\ UNCHANGED <<dialled, desired_running, peers, audible, trusted, up, listener, vetted, outcomes,
                      finished, bridge_config, sessions, ghosts, work, events, faults>>

\* A route changes.
RouteAudio(busy, p, r) ==
    /\ config.route[p] # r /\ Edit
    /\ UpdateAudioConfig(busy, [config EXCEPT !.route[p] = r])
    /\ UNCHANGED port_changed

\* The signal port is edited: the next tick replaces the subsystem.
ChangePort(busy) ==
    /\ ~port_changed /\ Edit
    /\ port_changed' = TRUE
    /\ UpdateAudioConfig(busy, config)

\* Request::RevokeTrust: best effort towards the bridge.
RevokeTrust(p) ==
    /\ p \in trusted /\ Edit
    /\ trusted' = trusted \ {p}
    /\ commands' = Tell(ClosePeer(p))
    /\ UNCHANGED <<dialled, desired_running, config, peers, audible, port_changed, up, listener, book,
                   dialling, finished, bridge_config, sessions, ghosts, work, events, faults>>

\* A pairing completes.
Pair(p) ==
    /\ p \notin trusted /\ Edit
    /\ trusted' = trusted \cup {p}
    /\ UNCHANGED <<dialled, desired_running, config, peers, audible, port_changed, up, listener, book,
                   dialling, bridge, faults>>

\* handle_discovery: Found, of a new peer or of one whose record changed; `port` says
\* whether it advertises an audio port.
Found(busy, p, port) ==
    /\ Edit
    /\ peers' = peers \cup {p}
    /\ audible' = IF port THEN audible \cup {p} ELSE audible \ {p}
    /\ ReconcileAudioSessions(up, busy, audible', config, audio_live, audio_inflight, audio_backoff,
                              dials)
    /\ UNCHANGED <<dialled, desired_running, config, trusted, port_changed, up, listener, vetted,
                   outcomes, bridge, faults>>

\* handle_discovery: Lost.
Lost(p) ==
    /\ p \in peers /\ Edit
    /\ peers' = peers \ {p} /\ audible' = audible \ {p}
    /\ audio_live' = audio_live \ {p}
    /\ audio_backoff' = [audio_backoff EXCEPT ![p] = "none"]
    /\ commands' = Tell(ClosePeer(p))
    /\ UNCHANGED <<dialled, desired_running, config, trusted, port_changed, up, listener, audio_inflight,
                   dialling, finished, bridge_config, sessions, ghosts, work, events, faults>>

-----------------------------------------------------------------------------
\* Mutant of HandleAudioEvent: the end of a session is not noticed.
ClosedIsIgnored(ev) ==
    CASE ev.kind = "status" /\ ev.ok ->
            /\ audio_live' = audio_live \cup {ev.peer}
            /\ audio_backoff' = [audio_backoff EXCEPT ![ev.peer] = "none"]
            /\ UNCHANGED audio_inflight
      [] OTHER -> UNCHANGED book

\* The cases of handle_audio_event.
HandleAudioEvent(ev) ==
    \/ /\ ev.kind = "status" /\ ev.ok
       /\ audio_live' = audio_live \cup {ev.peer}
       /\ audio_backoff' = [audio_backoff EXCEPT ![ev.peer] = "none"]
       /\ UNCHANGED audio_inflight
    \/ /\ ev.kind = "error"
       /\ audio_live' = audio_live \ {ev.peer}
       /\ audio_inflight' = audio_inflight \ {ev.peer}
       /\ audio_backoff' = [audio_backoff EXCEPT ![ev.peer] = "waiting"]
    \/ /\ \/ ev.kind = "closed"
          \/ ev.kind = "status" /\ ~ev.ok
       /\ audio_live' = audio_live \ {ev.peer}
       /\ UNCHANGED <<audio_inflight, audio_backoff>>

TakeAudioEvent ==
    /\ events # <<>>
    /\ HandleAudioEvent(Head(events))
    /\ events' = Tail(events)
    /\ UNCHANGED <<intent, up, listener, dialling, finished, bridge_config, sessions, ghosts, work,
                   commands, edits, faults>>

\* handle_audio_dial_outcome.
HandleAudioDialOutcome ==
    /\ outcomes # <<>>
    /\ LET o == Head(outcomes)
       IN /\ audio_inflight' = audio_inflight \ {o.peer}
          /\ audio_backoff' = [audio_backoff EXCEPT ![o.peer] = IF o.ok THEN "none" ELSE "waiting"]
    /\ outcomes' = Tail(outcomes)
    /\ UNCHANGED <<intent, up, listener, audio_live, dials, vetted, bridge, edits, faults>>

\* AudioBackoff: next_attempt passes.
BackoffElapses(p) ==
    /\ audio_backoff[p] = "waiting"
    /\ audio_backoff' = [audio_backoff EXCEPT ![p] = "due"]
    /\ UNCHANGED <<intent, up, listener, audio_live, audio_inflight, dialling, bridge, edits, faults>>

\* Mutant of ReconfigureBridge: a config the bridge missed stays missed.
LeaveBridgeAlone == commands

\* reconcile_network_services hands the config over again, best effort.
ReconfigureBridge == Tell(Reconfigure(config))

\* The audio_reconcile tick.  reconcile_network_services replaces the subsystem
\* after a port edit or when its task is over, else brings it to the wanted state,
\* hands the config to the bridge again and retries the listener; then the sessions
\* are reconciled.
Tick(busy) ==
    LET want == desired_running /\ config.enabled
        replace == port_changed \/ finished
    IN /\ port_changed' = FALSE
       /\ UNCHANGED <<dialled, desired_running, config, peers, audible, trusted, edits>>
       /\ \/ ~want /\ (up \/ replace) /\ TeardownAudioSubsystem
          \/ want /\ (~up \/ replace) /\ EnsureAudioSubsystem(busy, config, <<Reconfigure(config)>>)
          \/ /\ want /\ up /\ ~replace
             /\ commands' = ReconfigureBridge
             /\ \/ listening' = TRUE /\ UNCHANGED faults
                \/ ~listening /\ UNCHANGED listening /\ Fault
             /\ ReconcileAudioSessions(TRUE, busy, audible, config, audio_live, audio_inflight,
                                       audio_backoff, dials)
             /\ UNCHANGED <<up, accepted, vetted, outcomes, finished, bridge_config, sessions, ghosts,
                            work, events>>

\* The listener task dies, and its hand-offs with it; the tick starts another.
ListenerDies ==
    /\ listening /\ Fault
    /\ listening' = FALSE /\ accepted' = {}
    /\ UNCHANGED <<intent, up, book, dialling, bridge, edits>>

\* The bridge task dies: its sessions are dropped and its commands lost.
BridgeDies ==
    /\ up /\ ~finished /\ Fault
    /\ finished' = TRUE
    /\ sessions' = [p \in Peers |-> None]
    /\ closing' = {} /\ starting' = None /\ outbox' = <<>>
    /\ commands' = <<>>
    /\ UNCHANGED <<intent, up, listener, book, dialling, bridge_config, ghosts, events, edits>>

-----------------------------------------------------------------------------
Outcome(p, ok) == [peer |-> p, ok |-> ok]

\* Mutant of DialEnds: a dial that failed tells nobody.
ReportSuccessOnly(p, ok) ==
    /\ dials[p] > 0
    /\ dials' = [dials EXCEPT ![p] = @ - 1]
    /\ outcomes' = IF ok THEN Append(outcomes, Outcome(p, ok)) ELSE outcomes

\* The end of spawn_outbound's task: the supervisor is told, whatever happened.
DialEnds(p, ok) ==
    /\ dials[p] > 0
    /\ dials' = [dials EXCEPT ![p] = @ - 1]
    /\ outcomes' = Append(outcomes, Outcome(p, ok))

\* run_outbound: the peer is in the trust store; now connect and shake hands.
DialVetted(p) ==
    /\ vetted[p] < dials[p] /\ p \in trusted
    /\ vetted' = [vetted EXCEPT ![p] = @ + 1]
    /\ UNCHANGED <<intent, up, listener, book, dials, outcomes, bridge, edits, faults>>

\* Seconds later: connected, shaken hands, and handed to the bridge.
DialSucceeds(p) ==
    /\ vetted[p] > 0 /\ vetted' = [vetted EXCEPT ![p] = @ - 1]
    /\ ~finished /\ Len(commands) < CommandsCap
    /\ DialEnds(p, TRUE)
    /\ commands' = Append(commands, Signal(p))
    /\ UNCHANGED <<intent, up, listener, book, finished, bridge_config, sessions, ghosts, work, events,
                   edits, faults>>

\* Not trusted any more; or refused, timed out, or the hand-off timed out or met a
\* bridge that is over.
DialFails(p) ==
    /\ DialEnds(p, FALSE)
    /\ \/ vetted[p] < dials[p] /\ p \notin trusted /\ UNCHANGED <<vetted, faults>>
       \/ /\ vetted[p] > 0 /\ vetted' = [vetted EXCEPT ![p] = @ - 1]
          /\ IF finished THEN UNCHANGED faults ELSE Fault
    /\ UNCHANGED <<intent, up, listener, book, bridge, edits>>

\* handshake_and_handoff: a peer dials us, shakes hands and is still trusted.  While a
\* connection of its is under way it does so again only when its own end failed; one
\* such hand-off per peer is modelled at a time.
InboundAccepted(p) ==
    /\ listening /\ p \in trusted \ dialled /\ p \notin accepted
    /\ IF sessions[p] = None /\ starting # p /\ Signal(p) \notin Range(commands)
       THEN UNCHANGED faults ELSE Fault
    /\ accepted' = accepted \cup {p}
    /\ UNCHANGED <<intent, up, listening, book, dialling, bridge, edits>>

\* Its stream is handed to the bridge once there is room.
InboundHandoff(p) ==
    /\ p \in accepted /\ accepted' = accepted \ {p}
    /\ ~finished /\ Len(commands) < CommandsCap
    /\ commands' = Append(commands, Signal(p))
    /\ UNCHANGED <<intent, up, listening, book, dialling, finished, bridge_config, sessions, ghosts,
                   work, events, edits, faults>>

\* The hand-off timed out, or met a bridge that is over.
InboundFails(p) ==
    /\ p \in accepted /\ accepted' = accepted \ {p}
    /\ IF finished THEN UNCHANGED faults ELSE Fault
    /\ UNCHANGED <<intent, up, listening, book, dialling, bridge, edits>>

-----------------------------------------------------------------------------
Held == {p \in Peers : sessions[p] # None}
FaultIf(b) == IF b THEN Fault ELSE UNCHANGED faults

\* The bridge runs and the handler it is in, if any, waits for nothing.
Ready == up /\ ~finished /\ outbox = <<>>
Idle == Ready /\ closing = {} /\ starting = None

\* IncomingSignal: refused, or it is going to replace the session there is.
IncomingSignal(p) ==
    \/ /\ p \notin trusted \/ ~PeerAudioActive(bridge_config, p)
       /\ UNCHANGED <<closing, starting>>
    \/ /\ p \in trusted /\ PeerAudioActive(bridge_config, p)
       /\ closing' = {p} \cap Held /\ starting' = p

\* The sessions a Reconfigure closes: whose routing it changes in any direction.
ClosedByReconfigure(cfg) ==
    {p \in Held : \/ cfg.enabled # bridge_config.enabled
                  \/ cfg.route[p] # bridge_config.route[p]}

\* What the bridge does with the command at the head of its channel.
RunCommand(cmd) ==
    \/ /\ cmd.kind = "signal"
       /\ IncomingSignal(cmd.peer)
       /\ UNCHANGED bridge_config
    \/ /\ cmd.kind = "close"
       /\ closing' = {cmd.peer} \cap Held
       /\ UNCHANGED <<starting, bridge_config>>
    \/ /\ cmd.kind = "reconfigure"
       /\ bridge_config' = cmd.config
       /\ closing' = ClosedByReconfigure(cmd.config)
       /\ UNCHANGED starting

TakeCommand ==
    /\ Idle /\ commands # <<>>
    /\ RunCommand(Head(commands))
    /\ commands' = Tail(commands)
    /\ UNCHANGED <<intent, up, listener, book, dialling, finished, sessions, ghosts, outbox, events,
                   edits, faults>>

\* Mutant of Doomed: trust is left to the revocation's ClosePeer.
FinishedOnly == {p \in Held : sessions[p] = "ended"}

\* The reap tick: sessions whose driver finished or whose peer lost its trust.
Doomed == {p \in Held : sessions[p] = "ended" \/ p \notin trusted}
Reap ==
    /\ Idle /\ Doomed # {}
    /\ closing' = Doomed
    /\ UNCHANGED <<intent, up, listener, book, dialling, finished, bridge_config, sessions, ghosts,
                   starting, outbox, commands, events, edits, faults>>

\* AudioSession::close and its Drop.  The driver is aborted, not awaited: one that
\* is being polled may report a status after the bridge has said SessionClosed.
CloseNext(p) ==
    /\ Ready /\ p \in closing
    /\ closing' = closing \ {p}
    /\ sessions' = [sessions EXCEPT ![p] = None]
    /\ \/ outbox' = <<SessionClosed(p)>> /\ UNCHANGED <<ghosts, faults>>
       \/ /\ sessions[p] \in {"negotiating", "connected", "broken"} /\ Fault
          /\ outbox' = <<SessionClosed(p), PeerStatus(p, TRUE)>>
          /\ ghosts' = ghosts \cup {p}
    /\ UNCHANGED <<intent, up, listener, book, dialling, finished, bridge_config, starting, commands,
                   events, edits>>

\* AudioSession::start, once the old session is closed: a device is missing, the
\* session starts, or it cannot.
StartSession(p) ==
    /\ Ready /\ closing = {} /\ starting = p
    /\ \/ /\ outbox' = <<AudioError(p)>> /\ Fault
          /\ UNCHANGED <<starting, sessions>>
       \/ /\ sessions' = [sessions EXCEPT ![p] = "negotiating"]
          /\ outbox' = <<PeerStatus(p, TRUE)>> /\ starting' = None
          /\ UNCHANGED faults
       \/ /\ outbox' = <<AudioError(p)>> /\ starting' = None /\ Fault
          /\ UNCHANGED sessions
    /\ UNCHANGED <<intent, up, listener, book, dialling, finished, bridge_config, ghosts, closing,
                   commands, events, edits>>

\* The bridge puts the next of its messages on the event channel, once there is room.
Deliver ==
    /\ up /\ ~finished /\ outbox # <<>> /\ Len(events) < EventsCap
    /\ events' = Append(events, Head(outbox))
    /\ outbox' = Tail(outbox)
    /\ UNCHANGED <<intent, up, listener, book, dialling, finished, bridge_config, sessions, ghosts,
                   closing, starting, commands, edits, faults>>

-----------------------------------------------------------------------------
Driver(p, phase) ==
    /\ sessions' = [sessions EXCEPT ![p] = phase]
    /\ UNCHANGED <<intent, up, listener, book, dialling, finished, bridge_config, ghosts, work, commands,
                   edits>>

\* SDP exchanged and ICE connected, media flows: the status changes.
Connects(p) ==
    /\ sessions[p] \in {"negotiating", "broken"}
    /\ events' = TrySend(events, EventsCap, PeerStatus(p, TRUE))
    /\ Driver(p, "connected") /\ UNCHANGED faults

\* ICE disconnected: report it and arm the 5 s deadline.
Disconnects(p) ==
    /\ sessions[p] = "connected" /\ Fault
    /\ events' = TrySend(events, EventsCap, PeerStatus(p, FALSE))
    /\ Driver(p, "broken")

\* A deadline passed or the media connection failed: run_driver returns an error.
DriverFails(p) ==
    /\ sessions[p] \in {"negotiating", "broken", "connected"}
    /\ Fault
    /\ Driver(p, "failed") /\ UNCHANGED events

\* driver_task reports the error, waiting for room, and ends.
ReportError(p) ==
    /\ sessions[p] = "failed"
    /\ Len(events) < EventsCap
    /\ events' = Append(events, AudioError(p))
    /\ Driver(p, "ended") /\ UNCHANGED faults

\* The peer closed the signalling stream: the driver ends without a word.
PeerCloses(p) ==
    /\ sessions[p] \in {"negotiating", "connected", "broken"} /\ Fault
    /\ Driver(p, "ended") /\ UNCHANGED events

DriverStep(p) == Connects(p) \/ Disconnects(p) \/ DriverFails(p) \/ ReportError(p) \/ PeerCloses(p)

-----------------------------------------------------------------------------
Init ==
    /\ dialled \in SUBSET Peers
    /\ desired_running = TRUE
    /\ config = [enabled |-> TRUE, route |-> [p \in Peers |-> "both"]]
    /\ peers = {} /\ audible = {} /\ trusted = Peers
    /\ up = TRUE /\ listening = TRUE /\ accepted = {} /\ port_changed = FALSE
    /\ audio_live = {} /\ audio_inflight = {} /\ audio_backoff = NoBackoff
    /\ dials = NoDials /\ vetted = NoDials /\ outcomes = <<>>
    /\ finished = FALSE
    /\ commands = <<>> /\ events = <<>>
    /\ bridge_config = config
    /\ sessions = [p \in Peers |-> None] /\ ghosts = {}
    /\ closing = {} /\ starting = None /\ outbox = <<>>
    /\ edits = 0 /\ faults = 0

UserStep ==
    \/ \E busy \in SUBSET Peers :
        \/ \E b \in BOOLEAN : SetRunning(busy, b)
        \/ ToggleAudio(busy) \/ ChangePort(busy)
        \/ \E p \in Peers, r \in Routes : RouteAudio(busy, p, r)
        \/ \E p \in Peers, port \in BOOLEAN : Found(busy, p, port)
    \/ \E p \in Peers : RevokeTrust(p) \/ Pair(p) \/ Lost(p)

BridgeStep ==
    \/ TakeCommand \/ Reap \/ Deliver
    \/ \E p \in Peers : CloseNext(p) \/ StartSession(p)

DialStep(p) == DialVetted(p) \/ DialSucceeds(p) \/ DialFails(p)

InboundStep(p) == InboundAccepted(p) \/ InboundHandoff(p) \/ InboundFails(p)

Next ==
    \/ UserStep
    \/ TakeAudioEvent \/ HandleAudioDialOutcome \/ ListenerDies \/ BridgeDies
    \/ \E busy \in SUBSET Peers : Tick(busy)
    \/ BridgeStep
    \/ \E p \in Peers : BackoffElapses(p) \/ DialStep(p) \/ InboundStep(p) \/ DriverStep(p)

Spec == Init /\ [][Next]_vars

\* The supervisor and the bridge serve their channels and timers, tasks run, and
\* a peer that is there can be reached again.  A hand-off that waits for room in
\* the command channel gets its turn: the channel serves its waiters in order.  A
\* negotiation is faster than the ticks that could replace its session, and a tick,
\* one in five seconds, finds room in the command channel and the trust mutex,
\* which nobody holds across a wait, free.
Fairness ==
    /\ WF_vars(TakeAudioEvent) /\ WF_vars(HandleAudioDialOutcome)
    /\ SF_vars(Tick({}) /\ Len(commands) < CommandsCap)
    /\ WF_vars(BridgeStep) /\ WF_vars(Reap)
    /\ \A p \in Peers : SF_vars(Connects(p)) /\ WF_vars(ReportError(p))
    /\ \A p \in Peers : WF_vars(BackoffElapses(p)) /\ SF_vars(DialStep(p))
FairSpec == Spec /\ Fairness

-----------------------------------------------------------------------------
\* A peer marked as being dialled has a dial task, or the outcome of one is on its
\* way: otherwise it would never be dialled again (dial_audio_one,
\* handle_audio_dial_outcome, teardown_audio_subsystem).
InflightIsReal ==
    \A p \in audio_inflight : dials[p] > 0 \/ \E o \in Range(outcomes) : o.peer = p

\* A peer the supervisor believes live has a session in the bridge, or an event
\* that says otherwise is on its way: otherwise nobody would dial it again
\* (handle_audio_event against the bridge's glare, reap and close).  Excepted is
\* a peer whose aborted driver had the last word, and a bridge whose task is over.
LiveIsBacked ==
    \A p \in audio_live \ ghosts :
        \/ finished \/ sessions[p] # None
        \/ \E ev \in Range(events) \cup Range(outbox) : ev.peer = p /\ (ev.kind = "status" => ~ev.ok)

\* A peer whose trust stays revoked ends without a session and gets no other, even
\* when the revocation's ClosePeer met a full channel, or a dial, a hand-off or a
\* start that had passed its trust check was under way (run_outbound,
\* handshake_and_handoff, IncomingSignal, the reap tick).
RevokedIsSilenced ==
    \A p \in Peers : <>[](p \notin trusted) => <>[](sessions[p] = None)

\* An edit of the routing reaches the bridge, even when its Reconfigure met a full
\* channel (reconcile_network_services hands it over again).
BridgeFollowsConfig == <>[](up => bridge_config = config)

Wanted(p) ==
    /\ desired_running /\ PeerAudioActive(config, p)
    /\ p \in dialled /\ p \in audible /\ p \in trusted

\* Once a trusted, routed peer that we have to dial and that advertises an audio port
\* stays so, its session comes up again and again, whatever failed, was replaced or
\* raced before (reconcile_audio_sessions), unless an aborted driver had the last word.
AudioComesUp ==
    \A p \in Peers : <>[](Wanted(p) /\ p \notin ghosts) => []<>(sessions[p] = "connected")

\* supervisor/mod.rs, at SessionClosed: the reconcile loop redials shortly if the
\* peer is still trusted and visible.
ClosedIsRedialled ==
    \A p \in Peers : <>[]Wanted(p) => []<>(sessions[p] = "connected")
=============================================================================
