------------------------------ MODULE Pairing ------------------------------
(***************************************************************************)
(* Pairing two machines: the session tasks of synbadd/src/pairing.rs over  *)
(* an anonymous encrypted connection, the supervisor's table of sessions   *)
(* that wait for the user, and the trust store with its file.              *)
(*                                                                         *)
(* A session has two ends, keyed by their role; each end is a task of its  *)
(* machine.  An address learned by discovery may be answered by another    *)
(* machine, the dialling one included.                                     *)
(***************************************************************************)
EXTENDS CipherStream, FiniteSets

CONSTANTS
    Nodes,
    Rank,      \* the order of the machines' public keys
    Sessions,  \* connections that may be attempted
    Discovers, \* whom discovery shows to each machine
    Answers,   \* who may answer at a machine's advertised address
    Faults,    \* which of AllFaults can happen
    Slots,     \* bound on pairing tasks: 64 in the code
    None

AllFaults == {"restart", "io", "timeout", "save", "late_save", "listener"}

ASSUME PairingAssumption ==
    /\ Rank \in [Nodes -> Nat]
    /\ \A m, n \in Nodes : Rank[m] = Rank[n] => m = n
    /\ Discovers \in [Nodes -> SUBSET Nodes]
    /\ Answers \in [Nodes -> SUBSET Nodes]
    /\ Faults \subseteq AllFaults
    /\ Slots \in Nat
    /\ None \notin Nodes

Roles == {"initiator", "responder"}
Other(r) == IF r = "initiator" THEN "responder" ELSE "initiator"

\* Who dialled, who answered, whom discovery had promised.
Calls == [initiator : Nodes, responder : Nodes \cup {None}, expected : Nodes]

Hellos == [kind : {"hello"}, id : Nodes, nonce : Sessions \X Roles]

\* Why a session fails.
Reasons == {"connect", "io", "timeout", "frame", "message", "peer", "declined",
            "peer_declined", "signature", "store"}

ASSUME NoneAssumption == None \notin Calls \cup Hellos \cup Reasons

VARIABLES
    call,             \* who dialled whom, and who answered
    end,              \* the task at each end of a session
    stream,           \* what travels towards each end
    pairing_confirm,  \* Supervisor.pairing_confirm
    verdict,          \* what the user's click put into the oneshot channel
    trust,            \* TrustedPeerStore.peers
    trust_file,       \* trusted-peers.json
    accepted          \* history: ends whose user accepted

net == <<call, stream>>
store == <<trust, trust_file>>
vars == <<net, end, pairing_confirm, verdict, store, accepted>>

Running == {"connecting", "queued", "hello1", "hello2", "hello", "proposed", "early",
            "awaiting", "verify"}
Over == {"completed", "failed", "gone"}

NodeOf(s, r) == call[s][r]

\* The PairHello an end sends; its nonce is fresh.
Hello(s, r) == [kind |-> "hello", id |-> NodeOf(s, r), nonce |-> <<s, r>>]
Idle == [pc |-> "idle", why |-> None, peer |-> None, confirm |-> None]

\* Mutant of CanonicalTranscript: our Hello first, whoever we are.
OwnHelloFirst(ours, theirs) == <<ours, theirs>>

\* canonical_transcript: the same on both sides.  sas_code is injective on it.
CanonicalTranscript(ours, theirs) ==
    IF Rank[ours.id] <= Rank[theirs.id] THEN <<ours, theirs>> ELSE <<theirs, ours>>

Transcript(s, r) == CanonicalTranscript(Hello(s, r), end[s][r].peer)

\* sign_transcript, verify_signature.
Signature(id, transcript) == [by |-> id, over |-> transcript]
Confirm(yes, sig) == [kind |-> "confirm", accepted |-> yes, sig |-> sig]

-----------------------------------------------------------------------------
Active(s, r) == end[s][r].pc \in Running
Tasks(n) == {e \in Sessions \X Roles : Active(e[1], e[2]) /\ NodeOf(e[1], e[2]) = n}

\* Mutant of GcPairingTasks: entries of finished sessions stay.
KeepFinishedTasks(n, also) ==
    pairing_confirm' = [pairing_confirm EXCEPT ![n] = @ \cup also]

\* gc_pairing_tasks: forget the channels nobody listens to.  `also` are entries
\* inserted in the same handler.
GcPairingTasks(n, also) ==
    pairing_confirm' = [pairing_confirm EXCEPT ![n] =
        {e \in @ : end'[e[1]][e[2]].pc \in Running} \cup also]

Move(s, r, pc) == end' = [end EXCEPT ![s][r].pc = pc]
Fail(s, r, why) == end' = [end EXCEPT ![s][r].pc = "failed", ![s][r].why = why]

\* Request::StartPairing.
StartPairing(s, n, m) ==
    /\ call[s] = None /\ m \in Discovers[n]
    /\ Cardinality(Tasks(n)) < Slots
    /\ call' = [call EXCEPT ![s] = [initiator |-> n, responder |-> None, expected |-> m]]
    /\ Move(s, "initiator", "connecting")
    /\ GcPairingTasks(n, {<<s, "initiator">>})
    /\ UNCHANGED <<stream, verdict, store, accepted>>

\* connect_peer reaches p; the listener of p takes the connection and queues the
\* session, and the initiator sends the first handshake message.
Connect(s, p) ==
    /\ end[s]["initiator"].pc = "connecting"
    /\ p \in Answers[call[s].expected]
    /\ Cardinality({e \in Tasks(p) : e[2] = "responder"}) < Slots
    /\ call' = [call EXCEPT ![s].responder = p]
    /\ end' = [end EXCEPT ![s]["initiator"].pc = "hello2", ![s]["responder"].pc = "queued"]
    /\ UNCHANGED <<stream, pairing_confirm, verdict, store, accepted>>

ConnectFails(s) ==
    /\ end[s]["initiator"].pc = "connecting"
    /\ "io" \in Faults
    /\ Fail(s, "initiator", "connect")
    /\ UNCHANGED <<net, pairing_confirm, verdict, store, accepted>>

\* handle_incoming_pairing: only now may the task run.
HandleIncomingPairing(s) ==
    /\ end[s]["responder"].pc = "queued"
    /\ Move(s, "responder", "hello1")
    /\ GcPairingTasks(NodeOf(s, "responder"), {<<s, "responder">>})
    /\ UNCHANGED <<net, verdict, store, accepted>>

\* reconcile_network_services replaces the listener; queued sessions go with it.
ReplaceListener(n) ==
    /\ "listener" \in Faults
    /\ \E s \in Sessions : end[s]["responder"].pc = "queued" /\ NodeOf(s, "responder") = n
    /\ end' = [s \in Sessions |->
            IF end[s]["responder"].pc = "queued" /\ NodeOf(s, "responder") = n
            THEN [end[s] EXCEPT !["responder"].pc = "gone"] ELSE end[s]]
    /\ UNCHANGED <<net, pairing_confirm, verdict, store, accepted>>

-----------------------------------------------------------------------------
SendTo(s, r, d, m) == stream' = [stream EXCEPT ![s] = [d EXCEPT ![r] = Send(@, m)]]

\* accept: the responder answers the handshake and sends its Hello.
AcceptHandshake(s) ==
    /\ end[s]["responder"].pc = "hello1"
    /\ Move(s, "responder", "hello")
    /\ SendTo(s, "initiator", stream[s], Hello(s, "responder"))
    /\ UNCHANGED <<call, pairing_confirm, verdict, store, accepted>>

\* initiate: the responder's half of the handshake is there.
FinishHandshake(s) ==
    /\ end[s]["initiator"].pc = "hello2"
    /\ stream[s]["initiator"].send_counter > 0
    /\ Move(s, "initiator", "hello")
    /\ SendTo(s, "responder", stream[s], Hello(s, "initiator"))
    /\ UNCHANGED <<call, pairing_confirm, verdict, store, accepted>>

\* recv_msg: `d` is the stream towards the end.
RecvMsg(s, r) ==
    /\ CanRecv(stream[s][r])
    /\ stream' = [stream EXCEPT ![s][r] = Recv(@)]
    /\ UNCHANGED <<call, pairing_confirm, verdict, store, accepted>>

\* The Hello arrives: check whom we reached, then propose the pairing.
ReceiveHello(s, r) ==
    LET hello == Received(stream[s][r])
    IN /\ end[s][r].pc = "hello"
       /\ RecvMsg(s, r)
       /\ \/ /\ ~Opens(stream[s][r])
             /\ Fail(s, r, "frame")
          \/ /\ Opens(stream[s][r]) /\ hello.kind # "hello"
             /\ Fail(s, r, "message")
          \/ /\ Opens(stream[s][r]) /\ hello.kind = "hello"
             /\ \/ r = "initiator" /\ hello.id # call[s].expected
                \/ hello.id = NodeOf(s, r)
             /\ Fail(s, r, "peer")
          \/ /\ Opens(stream[s][r]) /\ hello.kind = "hello"
             /\ r = "initiator" => hello.id = call[s].expected
             /\ hello.id # NodeOf(s, r)
             /\ end' = [end EXCEPT ![s][r].pc = "proposed", ![s][r].peer = hello]

\* The select! at the proposal polls recv, which gets part of a frame.
ReceivePart(s, r) ==
    /\ end[s][r].pc = "proposed"
    /\ CanReadHeader(stream[s][r])
    /\ stream' = [stream EXCEPT ![s][r] = ReadHeader(@)]
    /\ UNCHANGED <<call, end, pairing_confirm, verdict, store, accepted>>

\* A Confirm, before our user's verdict ("proposed") or after it ("awaiting").
ReceiveConfirm(s, r) ==
    LET confirm == Received(stream[s][r])
    IN /\ end[s][r].pc \in {"proposed", "awaiting"}
       /\ RecvMsg(s, r)
       /\ \/ /\ ~Opens(stream[s][r])
             /\ Fail(s, r, "frame")
          \/ /\ Opens(stream[s][r]) /\ confirm.kind # "confirm"
             /\ Fail(s, r, "message")
          \/ /\ Opens(stream[s][r]) /\ confirm.kind = "confirm" /\ ~confirm.accepted
             /\ Fail(s, r, "peer_declined")
          \/ /\ Opens(stream[s][r]) /\ confirm.kind = "confirm" /\ confirm.accepted
             /\ end' = [end EXCEPT ![s][r].confirm = confirm,
                            ![s][r].pc = IF @ = "proposed" THEN "early" ELSE "verify"]

\* Request::ConfirmPairing, from the dialog a proposal opened.
ConfirmPairing(n, s, r, yes) ==
    /\ <<s, r>> \in pairing_confirm[n]
    /\ end[s][r].peer # None
    /\ pairing_confirm' = [pairing_confirm EXCEPT ![n] = @ \ {<<s, r>>}]
    /\ verdict' = [verdict EXCEPT ![s][r] = IF yes THEN "accept" ELSE "decline"]
    /\ accepted' = IF yes THEN accepted \cup {<<s, r>>} ELSE accepted
    /\ UNCHANGED <<net, end, store>>

\* Mutant of TakeVerdict: a decline is only sent, the session goes on.
DeclineGoesOn(s, r) ==
    /\ end[s][r].pc \in {"proposed", "early"}
    /\ verdict[s][r] # "none"
    /\ end' = [end EXCEPT ![s][r].pc = IF @ = "early" THEN "verify" ELSE "awaiting"]
    /\ SendTo(s, Other(r), stream[s], Confirm(TRUE, Signature(NodeOf(s, r), Transcript(s, r))))
    /\ UNCHANGED <<call, pairing_confirm, verdict, store, accepted>>

\* The verdict wins the select!; the read it was racing is dropped.  A connection
\* that broke, or whose other end is gone, may refuse the Confirm, whatever it says.
TakeVerdict(s, r) ==
    LET d == [stream[s] EXCEPT ![r] = CancelRead(@)]
    IN /\ end[s][r].pc \in {"proposed", "early"}
       /\ \/ /\ verdict[s][r] = "accept"
             /\ end' = [end EXCEPT ![s][r].pc = IF @ = "early" THEN "verify" ELSE "awaiting"]
             /\ SendTo(s, Other(r), d, Confirm(TRUE, Signature(NodeOf(s, r), Transcript(s, r))))
          \/ /\ verdict[s][r] = "decline"
             /\ Fail(s, r, "declined")
             /\ SendTo(s, Other(r), d, Confirm(FALSE, None))
          \/ /\ verdict[s][r] # "none"
             /\ "io" \in Faults \/ end[s][Other(r)].pc \in Over
             /\ Fail(s, r, "io")
             /\ UNCHANGED stream
       /\ UNCHANGED <<call, pairing_confirm, verdict, store, accepted>>

-----------------------------------------------------------------------------
\* TrustedPeerStore::save, then the memory: `late` is an error after the rename.
Save(n, peers) ==
    /\ trust' = [trust EXCEPT ![n] = peers]
    /\ trust_file' = [trust_file EXCEPT ![n] = peers]
SaveFails(n, peers) ==
    /\ \/ /\ "save" \in Faults
          /\ UNCHANGED trust_file
       \/ /\ "late_save" \in Faults
          /\ trust_file' = [trust_file EXCEPT ![n] = peers]
    /\ UNCHANGED trust

\* verify_signature, upsert, PairingCompleted.
Persist(s, r) ==
    LET n == NodeOf(s, r)
        peer == end[s][r].peer.id
    IN /\ end[s][r].pc = "verify"
       /\ \/ /\ end[s][r].confirm.sig # Signature(peer, Transcript(s, r))
             /\ Fail(s, r, "signature")
             /\ UNCHANGED store
          \/ /\ end[s][r].confirm.sig = Signature(peer, Transcript(s, r))
             /\ Save(n, trust[n] \cup {peer})
             /\ Move(s, r, "completed")
          \/ /\ end[s][r].confirm.sig = Signature(peer, Transcript(s, r))
             /\ SaveFails(n, trust[n] \cup {peer})
             /\ Fail(s, r, "store")
       /\ UNCHANGED <<net, pairing_confirm, verdict, accepted>>

\* Request::RevokeTrust.
RevokeTrust(n, m) ==
    /\ m \in trust[n]
    /\ Save(n, trust[n] \ {m}) \/ SaveFails(n, trust[n] \ {m})
    /\ UNCHANGED <<net, end, pairing_confirm, verdict, accepted>>

-----------------------------------------------------------------------------
\* SESSION_TIMEOUT and the shorter ones of the handshake, Hello and sends.  A
\* queued session has no timer yet, and connect_peer has its own.
SessionTimesOut(s, r) ==
    /\ end[s][r].pc \in Running \ {"connecting", "queued"}
    /\ "timeout" \in Faults
    /\ Fail(s, r, "timeout")
    /\ UNCHANGED <<net, pairing_confirm, verdict, store, accepted>>

\* The other end is gone and everything it sent was read, or the connection broke.
StreamEnds(s, r) ==
    /\ end[s][r].pc \in {"hello1", "hello2", "hello", "proposed", "awaiting"}
    /\ \/ "io" \in Faults
       \/ end[s][Other(r)].pc \in Over /\ ~CanRecv(stream[s][r])
    /\ Fail(s, r, "io")
    /\ UNCHANGED <<net, pairing_confirm, verdict, store, accepted>>

\* gc_pairing_tasks on the periodic tick.
Tick(n) ==
    /\ \E e \in pairing_confirm[n] : ~Active(e[1], e[2])
    /\ UNCHANGED <<net, end, verdict, store, accepted>>
    /\ GcPairingTasks(n, {})

\* The daemon stops and starts again on its files.
Restart(n) ==
    /\ "restart" \in Faults
    /\ end' = [s \in Sessions |-> [r \in Roles |->
            IF Active(s, r) /\ NodeOf(s, r) = n THEN [end[s][r] EXCEPT !.pc = "gone"]
            ELSE end[s][r]]]
    /\ pairing_confirm' = [pairing_confirm EXCEPT ![n] = {}]
    /\ trust' = [trust EXCEPT ![n] = trust_file[n]]
    /\ UNCHANGED <<net, verdict, trust_file, accepted>>

-----------------------------------------------------------------------------
Init ==
    /\ call = [s \in Sessions |-> None]
    /\ end = [s \in Sessions |-> [r \in Roles |-> Idle]]
    /\ stream = [s \in Sessions |-> [r \in Roles |-> FreshStream]]
    /\ pairing_confirm = [n \in Nodes |-> {}]
    /\ verdict = [s \in Sessions |-> [r \in Roles |-> "none"]]
    /\ trust = [n \in Nodes |-> {}]
    /\ trust_file = [n \in Nodes |-> {}]
    /\ accepted = {}

EndStep(s, r) ==
    \/ ReceiveHello(s, r) \/ ReceivePart(s, r) \/ ReceiveConfirm(s, r)
    \/ TakeVerdict(s, r) \/ Persist(s, r)
    \/ SessionTimesOut(s, r) \/ StreamEnds(s, r)

Connecting(s) ==
    \/ ConnectFails(s) \/ HandleIncomingPairing(s)
    \/ AcceptHandshake(s) \/ FinishHandshake(s)

Next ==
    \/ \E s \in Sessions, n, m \in Nodes : StartPairing(s, n, m)
    \/ \E s \in Sessions, p \in Nodes : Connect(s, p)
    \/ \E s \in Sessions : Connecting(s)
    \/ \E s \in Sessions, r \in Roles : EndStep(s, r)
    \/ \E n \in Nodes, s \in Sessions, r \in Roles, yes \in BOOLEAN : ConfirmPairing(n, s, r, yes)
    \/ \E n, m \in Nodes : RevokeTrust(n, m)
    \/ \E n \in Nodes : ReplaceListener(n) \/ Tick(n) \/ Restart(n)

Spec == Init /\ [][Next]_vars

\* Tasks run, the timers fire, the supervisor serves its queue and ticks.
Fairness ==
    /\ \A s \in Sessions :
        /\ WF_vars(Connecting(s) \/ \E p \in Nodes : Connect(s, p))
        /\ \A r \in Roles : WF_vars(EndStep(s, r))
    /\ \A n \in Nodes : WF_vars(Tick(n))
FairSpec == Spec /\ Fairness

-----------------------------------------------------------------------------
Signatures == [by : Nodes, over : Hellos \X Hellos]
Confirms == [kind : {"confirm"}, accepted : BOOLEAN, sig : Signatures \cup {None}]
Pieces == [part : {"header", "body"}, nonce : Nat, msg : Hellos \cup Confirms]
Streams == [wire : Seq(Pieces), send_counter : Nat, recv_counter : Nat, header_read : BOOLEAN]
Ends == [pc : Running \cup Over \cup {"idle"}, why : Reasons \cup {None},
         peer : Hellos \cup {None}, confirm : Confirms \cup {None}]

\* The users at both ends of one connection between n and m said yes.
BothAccepted(n, m) ==
    \E s \in Sessions, r \in Roles :
        /\ {<<s, r>>, <<s, Other(r)>>} \subseteq accepted
        /\ call[s] # None /\ NodeOf(s, r) = n /\ NodeOf(s, Other(r)) = m

\* A machine trusts another, in memory or on disk, only after the users of both
\* accepted in one and the same session between the two, whatever was cancelled,
\* lost or restarted on the way (run_session_inner, TrustedPeerStore).
TrustNeedsBothUsers ==
    \A n, m \in Nodes : m \in trust[n] \cup trust_file[n] => BothAccepted(n, m) /\ n # m

\* The ends of a session show their users the same code, and no two sessions
\* show the same one (canonical_transcript, sas_code).
CodesAgree ==
    \A s, t \in Sessions, q, r \in Roles :
        end[s][q].peer # None /\ end[t][r].peer # None
            => (Transcript(s, q) = Transcript(t, r) <=> s = t)

\* A session fails for what really happened: never because a read dropped by the
\* select! lost bytes of a frame, a message came in the wrong place or a good
\* signature was refused; and it reports a decline only when a user declined.
FailuresAreReal ==
    \A s \in Sessions, r \in Roles :
        /\ end[s][r].why \notin {"frame", "message", "signature"}
        /\ end[s][r].why = "declined" => verdict[s][r] = "decline"
        /\ end[s][r].why = "peer_declined" => verdict[s][Other(r)] = "decline"

\* Nobody waits for a Confirm that was already consumed or lost: while an end
\* awaits it, a peer that has sent it left it on the wire (the early Confirm and
\* the cancelled read of run_session_inner's select!).
NoVainWait ==
    \A s \in Sessions, r \in Roles :
        end[s][r].pc = "awaiting" /\ end[s][Other(r)].pc \in {"awaiting", "verify", "completed"}
            => CanRecv(stream[s][r])

\* Every session ends and its entry leaves the supervisor's table, even when a
\* user never answers and the other machine vanishes (SESSION_TIMEOUT,
\* gc_pairing_tasks).
SessionsEnd ==
    \A s \in Sessions, r \in Roles :
        [](Active(s, r) => <>(~Active(s, r) /\ \A n \in Nodes : <<s, r>> \notin pairing_confirm[n]))
=============================================================================
