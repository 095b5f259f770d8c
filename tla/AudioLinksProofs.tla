-------------------------- MODULE AudioLinksProofs --------------------------
(* The supervisor's books on audio peers are true, for any number of peers and *)
(* any capacity of the channels: a peer marked as dialled is being dialled, and *)
(* one marked as live has a session, or a message that says otherwise waits.    *)
EXTENDS AudioLinks, SequenceTheorems, TLAPS

-----------------------------------------------------------------------------
(* Types.                                                                    *)

Outcomes == [peer : Peers, ok : BOOLEAN]
Commands == [kind : {"signal", "close"}, peer : Peers] \cup [kind : {"reconfigure"}, config : Configs]
Events == [kind : {"status"}, peer : Peers, ok : BOOLEAN] \cup [kind : {"error", "closed"}, peer : Peers]

AudioType ==
    /\ config \in Configs
    /\ audio_live \subseteq Peers /\ audio_inflight \subseteq Peers
    /\ dials \in [Peers -> Nat]
    /\ outcomes \in Seq(Outcomes)
    /\ commands \in Seq(Commands)
    /\ events \in Seq(Events) /\ outbox \in Seq(Events)
    /\ sessions \in [Peers -> Phases \cup {None}]

-----------------------------------------------------------------------------
(* What the events say of a peer.                                            *)

SaysUp(e, p) == e.peer = p /\ e.kind = "status" /\ e.ok
SaysDown(e, p) == e.peer = p /\ (e.kind = "status" => ~e.ok)

\* No message of q raises p.
Silent(q, p) == \A i \in 1 .. Len(q) : ~SaysUp(q[i], p)

\* Some message of q takes p down.
Told(q, p) == \E i \in 1 .. Len(q) : SaysDown(q[i], p)

\* Whatever raises p in q is taken back later in q.
Refuted(q, p) ==
    \A i \in 1 .. Len(q) : SaysUp(q[i], p) => \E j \in 1 .. Len(q) : j > i /\ SaysDown(q[j], p)

\* What may be believed of a peer without a session: an event that raises it is taken
\* back later, in the channel or by what the bridge is about to say, which does not
\* raise it; and so is the belief itself.
MayBelieve(p) ==
    /\ Silent(outbox, p)
    /\ Refuted(events, p) \/ Told(outbox, p)
    /\ p \in audio_live => Told(events, p) \/ Told(outbox, p)

Backed ==
    ~finished => \A p \in Peers \ ghosts : sessions[p] = None => MayBelieve(p)

AudioInv == AudioType /\ InflightIsReal /\ Backed

\* No message, one, or two.
LEMMA Few ==
    ASSUME NEW e \in Events, NEW f \in Events, NEW p
    PROVE  /\ <<>> \in Seq(Events) /\ <<e>> \in Seq(Events) /\ <<e, f>> \in Seq(Events)
           /\ Silent(<<>>, p) /\ ~Told(<<>>, p) /\ Refuted(<<>>, p)
           /\ ~SaysUp(e, p) => Silent(<<e>>, p)
           /\ SaysDown(e, p) => Told(<<e>>, p)
           /\ ~SaysUp(e, p) /\ ~SaysUp(f, p) => Silent(<<e, f>>, p)
<1>1. <<e>> \in Seq(Events) /\ Len(<<e>>) = 1 /\ <<e>>[1] = e
  OBVIOUS
<1>2. <<>> \in Seq(Events) /\ Len(<<>>) = 0
  OBVIOUS
<1>3. <<e, f>> \in Seq(Events) /\ Len(<<e, f>>) = 2 /\ <<e, f>>[1] = e /\ <<e, f>>[2] = f
  OBVIOUS
<1>4. /\ \A i \in 1 .. 1 : i = 1
      /\ \A i \in 1 .. 2 : i = 1 \/ i = 2
      /\ 1 \in 1 .. 1 /\ 1 .. 0 = {}
  OBVIOUS
<1>5. Silent(<<>>, p) /\ ~Told(<<>>, p) /\ Refuted(<<>>, p)
  BY <1>2, <1>4 DEF Silent, Told, Refuted
<1>6. ~SaysUp(e, p) => Silent(<<e>>, p)
  BY <1>1, <1>4, Zenon DEF Silent
<1>7. SaysDown(e, p) => Told(<<e>>, p)
  BY <1>1, <1>4, Zenon DEF Told
<1>8. ~SaysUp(e, p) /\ ~SaysUp(f, p) => Silent(<<e, f>>, p)
  BY <1>3, <1>4, Zenon DEF Silent
<1>. QED
  BY <1>1, <1>2, <1>3, <1>5, <1>6, <1>7, <1>8

LEMMA AppendFacts ==
    ASSUME NEW q \in Seq(Events), NEW e \in Events, NEW p, ~SaysUp(e, p)
    PROVE  /\ Append(q, e) \in Seq(Events)
           /\ Refuted(q, p) \/ SaysDown(e, p) => Refuted(Append(q, e), p)
           /\ Told(q, p) \/ SaysDown(e, p) => Told(Append(q, e), p)
<1> DEFINE w == Append(q, e)
           n == Len(q)
<1>1. /\ w \in Seq(Events) /\ Len(w) = n + 1 /\ n \in Nat
      /\ \A i \in 1 .. n : w[i] = q[i]
      /\ w[n + 1] = e
  BY AppendProperties, LenProperties
<1> HIDE DEF w, n
<1>2. /\ \A i \in 1 .. n : i \in 1 .. Len(w)
      /\ n + 1 \in 1 .. Len(w)
      /\ \A i \in 1 .. Len(w) : i \in 1 .. n \/ i = n + 1
      /\ \A i \in 1 .. n : n + 1 > i
  BY <1>1
<1>3. Told(q, p) => Told(w, p)
  BY <1>1, <1>2, Zenon DEF Told, n
<1>4. SaysDown(e, p) => Told(w, p)
  BY <1>1, <1>2, Zenon DEF Told
<1>5. \A i \in 1 .. Len(w) : SaysUp(w[i], p) => i \in 1 .. n /\ SaysUp(q[i], p)
  BY <1>1, <1>2, Zenon
<1>6. SaysDown(e, p) => Refuted(w, p)
  BY <1>1, <1>2, <1>5, Zenon DEF Refuted
<1>7. Refuted(q, p) => Refuted(w, p)
  <2> SUFFICES ASSUME Refuted(q, p), NEW i \in 1 .. Len(w), SaysUp(w[i], p)
               PROVE  \E j \in 1 .. Len(w) : j > i /\ SaysDown(w[j], p)
    BY DEF Refuted
  <2>1. i \in 1 .. n /\ SaysUp(q[i], p)
    BY <1>5
  <2>2. PICK j \in 1 .. n : j > i /\ SaysDown(q[j], p)
    BY <2>1 DEF Refuted, n
  <2>. QED
    BY <1>1, <1>2, <2>2
<1>. QED
  BY <1>1, <1>3, <1>4, <1>6, <1>7 DEF w

LEMMA TailFacts ==
    ASSUME NEW q \in Seq(Events), q # <<>>, NEW p
    PROVE  /\ Head(q) \in Events /\ Tail(q) \in Seq(Events)
           /\ Refuted(q, p) => Refuted(Tail(q), p)
           /\ Refuted(q, p) /\ SaysUp(Head(q), p) => Told(Tail(q), p)
           /\ Told(q, p) /\ ~SaysDown(Head(q), p) => Told(Tail(q), p)
           /\ Silent(q, p) => ~SaysUp(Head(q), p) /\ Silent(Tail(q), p)
<1> DEFINE w == Tail(q)
<1>1. /\ Len(q) \in Nat /\ Len(q) >= 1 /\ w \in Seq(Events) /\ Len(w) = Len(q) - 1
      /\ \A i \in 1 .. Len(w) : w[i] = q[i + 1]
      /\ Head(q) = q[1] /\ q[1] \in Events
  BY HeadTailProperties, EmptySeq, LenProperties, ElementOfSeq
<1> HIDE DEF w
<1>2. ASSUME NEW j \in 1 .. Len(q), j > 1
      PROVE  j - 1 \in 1 .. Len(w) /\ w[j - 1] = q[j]
  BY <1>1, <1>2
<1>3. ASSUME Refuted(q, p), SaysUp(q[1], p)
      PROVE  Told(w, p)
  <2>1. PICK j \in 1 .. Len(q) : j > 1 /\ SaysDown(q[j], p)
    BY <1>1, <1>3 DEF Refuted
  <2>. QED
    BY <1>2, <2>1 DEF Told
<1>4. ASSUME Told(q, p), ~SaysDown(q[1], p)
      PROVE  Told(w, p)
  <2>1. PICK j \in 1 .. Len(q) : SaysDown(q[j], p)
    BY <1>4 DEF Told
  <2>2. j > 1
    BY <1>1, <1>4, <2>1
  <2>. QED
    BY <1>2, <2>1, <2>2 DEF Told
<1>5. ASSUME Refuted(q, p)
      PROVE  Refuted(w, p)
  <2> SUFFICES ASSUME NEW i \in 1 .. Len(w), SaysUp(w[i], p)
               PROVE  \E j \in 1 .. Len(w) : j > i /\ SaysDown(w[j], p)
    BY DEF Refuted
  <2>1. i + 1 \in 1 .. Len(q) /\ SaysUp(q[i + 1], p)
    BY <1>1
  <2>2. PICK j \in 1 .. Len(q) : j > i + 1 /\ SaysDown(q[j], p)
    BY <1>5, <2>1 DEF Refuted
  <2>3. j > 1 /\ j - 1 > i
    BY <1>1, <2>2
  <2>4. j - 1 \in 1 .. Len(w) /\ w[j - 1] = q[j]
    BY <1>2, <2>3
  <2>. QED
    BY <2>2, <2>3, <2>4
<1>6. Silent(q, p) => ~SaysUp(q[1], p) /\ Silent(w, p)
  <2>1. 1 \in 1 .. Len(q) /\ \A i \in 1 .. Len(w) : i + 1 \in 1 .. Len(q)
    BY <1>1
  <2>. QED
    BY <1>1, <2>1, Zenon DEF Silent
<1>. QED
  BY <1>1, <1>3, <1>4, <1>5, <1>6 DEF w

-----------------------------------------------------------------------------
(* Steps of the bridge and its drivers.                                      *)

LEMMA EventFacts ==
    \A p \in Peers :
        /\ SessionClosed(p) \in Events /\ AudioError(p) \in Events
        /\ \A b \in BOOLEAN : PeerStatus(p, b) \in Events /\ PeerStatus(p, b).peer = p
        /\ SaysDown(SessionClosed(p), p) /\ SaysDown(AudioError(p), p)
        /\ \A q : ~SaysUp(SessionClosed(p), q) /\ ~SaysUp(AudioError(p), q)
        /\ AudioError(p).peer = p
  BY DEF SessionClosed, AudioError, PeerStatus, Events, SaysUp, SaysDown

\* The bridge or a driver acts: it is enough to look at who has no session after it.
LEMMA BridgeActs ==
    ASSUME AudioInv, ghosts \subseteq ghosts', commands' \in Seq(Commands),
           UNCHANGED <<config, audio_live, audio_inflight, dials, outcomes, finished>>,
           events' \in Seq(Events), outbox' \in Seq(Events),
           sessions' \in [Peers -> Phases \cup {None}],
           \A p \in Peers \ ghosts' : ~finished /\ sessions'[p] = None => MayBelieve(p)'
    PROVE  AudioInv'
<1>1. AudioType'
  BY DEF AudioInv, AudioType
<1>2. InflightIsReal'
  BY DEF AudioInv, InflightIsReal
<1>3. Backed'
  BY DEF Backed
<1>. QED
  BY <1>1, <1>2, <1>3 DEF AudioInv

\* It says and closes nothing.
LEMMA BridgePlans ==
    ASSUME AudioInv, UNCHANGED <<sessions, ghosts, events, outbox>>, commands' \in Seq(Commands),
           UNCHANGED <<config, audio_live, audio_inflight, dials, outcomes, finished>>
    PROVE  AudioInv'
<1>1. AudioType /\ \A p \in Peers \ ghosts : ~finished /\ sessions[p] = None => MayBelieve(p)
  BY DEF AudioInv, Backed
<1>2. \A p \in Peers : MayBelieve(p) => MayBelieve(p)'
  BY DEF MayBelieve
<1>. QED
  BY <1>1, <1>2, BridgeActs DEF AudioType

\* It closes the session of p, or starts one, with nothing left to say from before.
LEMMA BridgeSays ==
    ASSUME AudioInv, NEW p \in Peers, outbox = <<>>, ghosts \subseteq ghosts',
           UNCHANGED <<config, audio_live, audio_inflight, dials, outcomes, finished, events, commands>>,
           outbox' \in Seq(Events), sessions' \in [Peers -> Phases \cup {None}],
           \A q \in Peers \ {p} : sessions'[q] = sessions[q] /\ Silent(outbox', q),
           p \notin ghosts' /\ sessions'[p] = None => Silent(outbox', p) /\ Told(outbox', p)
    PROVE  AudioInv'
<1>1. AudioType /\ commands' \in Seq(Commands) /\ events' \in Seq(Events)
  BY DEF AudioInv, AudioType
<1>2. ASSUME NEW q \in Peers \ ghosts', ~finished, sessions'[q] = None
      PROVE  MayBelieve(q)'
  <2>1. CASE q = p
    BY <1>2, <2>1 DEF MayBelieve
  <2>2. CASE q # p
    <3>1. MayBelieve(q)
      BY <1>2, <2>2 DEF AudioInv, Backed
    <3>2. ~Told(<<>>, q)
      <4>1. Len(<<>>) = 0 /\ 1 .. 0 = {}
        BY EmptySeq
      <4>. QED
        BY <4>1 DEF Told
    <3>3. Refuted(events, q) /\ (q \in audio_live => Told(events, q))
      BY <3>1, <3>2 DEF MayBelieve
    <3>. QED
      BY <1>2, <2>2, <3>3 DEF MayBelieve
  <2>. QED
    BY <2>1, <2>2
<1>. QED
  BY <1>1, <1>2, BridgeActs

LEMMA CloseFacts ==
    ASSUME AudioInv, NEW p \in Peers, CloseNext(p)
    PROVE  AudioInv'
<1> DEFINE c == SessionClosed(p)
           u == PeerStatus(p, TRUE)
<1>1. /\ outbox = <<>> /\ sessions' = [sessions EXCEPT ![p] = None] /\ ghosts \subseteq ghosts'
      /\ UNCHANGED <<config, audio_live, audio_inflight, dials, outcomes, finished, events, commands>>
      /\ outbox' = <<c>> \/ (outbox' = <<c, u>> /\ p \in ghosts')
  BY DEF CloseNext, Ready, intent, book, dialling
<1>2. sessions \in [Peers -> Phases \cup {None}]
  BY DEF AudioInv, AudioType
<1>3. /\ c \in Events /\ u \in Events /\ SaysDown(c, p)
      /\ \A q : ~SaysUp(c, q)
      /\ \A q : q # p => ~SaysUp(u, q)
  BY EventFacts DEF SaysUp
<1> HIDE DEF c, u
<1>4. outbox' \in Seq(Events) /\ \A q \in Peers \ {p} : Silent(outbox', q)
  BY <1>1, <1>3, Few
<1>5. p \notin ghosts' => Silent(outbox', p) /\ Told(outbox', p)
  BY <1>1, <1>3, Few
<1>6. sessions' \in [Peers -> Phases \cup {None}] /\ \A q \in Peers \ {p} : sessions'[q] = sessions[q]
  BY <1>1, <1>2
<1>. QED
  BY <1>1, <1>4, <1>5, <1>6, BridgeSays

LEMMA StartFacts ==
    ASSUME AudioInv, NEW p \in Peers, StartSession(p)
    PROVE  AudioInv'
<1> DEFINE e == AudioError(p)
           u == PeerStatus(p, TRUE)
<1>1. /\ outbox = <<>> /\ ghosts' = ghosts
      /\ UNCHANGED <<config, audio_live, audio_inflight, dials, outcomes, finished, events, commands>>
      /\ \/ outbox' = <<e>> /\ sessions' = sessions
         \/ outbox' = <<u>> /\ sessions' = [sessions EXCEPT ![p] = "negotiating"]
  BY DEF StartSession, Ready, intent, book, dialling
<1>2. sessions \in [Peers -> Phases \cup {None}] /\ "negotiating" \in Phases
  BY DEF AudioInv, AudioType, Phases
<1>3. /\ e \in Events /\ u \in Events /\ SaysDown(e, p)
      /\ \A q : ~SaysUp(e, q)
      /\ \A q : q # p => ~SaysUp(u, q)
  BY EventFacts DEF SaysUp
<1> HIDE DEF e, u
<1>4. outbox' \in Seq(Events) /\ \A q \in Peers \ {p} : Silent(outbox', q)
  BY <1>1, <1>3, Few
<1>5. sessions'[p] = None => Silent(outbox', p) /\ Told(outbox', p)
  BY <1>1, <1>2, <1>3, Few, NoneAssumption
<1>6. sessions' \in [Peers -> Phases \cup {None}] /\ \A q \in Peers \ {p} : sessions'[q] = sessions[q]
  BY <1>1, <1>2
<1>. QED
  BY <1>1, <1>4, <1>5, <1>6, BridgeSays

LEMMA DeliverFacts ==
    ASSUME AudioInv, Deliver
    PROVE  AudioInv'
<1> DEFINE e == Head(outbox)
<1>1. /\ AudioType /\ events \in Seq(Events) /\ outbox \in Seq(Events) /\ outbox # <<>>
      /\ events' = Append(events, e) /\ outbox' = Tail(outbox)
      /\ UNCHANGED <<config, audio_live, audio_inflight, dials, outcomes, finished, sessions, ghosts,
                     commands>>
  BY DEF AudioInv, AudioType, Deliver, intent, book, dialling
<1>2. e \in Events /\ outbox' \in Seq(Events) /\ events' \in Seq(Events)
  BY <1>1, HeadTailProperties, AppendProperties
<1> HIDE DEF e
<1>3. ASSUME NEW p \in Peers \ ghosts', ~finished, sessions'[p] = None
      PROVE  MayBelieve(p)'
  <2>1. MayBelieve(p)
    BY <1>1, <1>3 DEF AudioInv, Backed
  <2>2. /\ ~SaysUp(e, p) /\ Silent(outbox', p)
        /\ Told(outbox, p) => SaysDown(e, p) \/ Told(outbox', p)
    BY <1>1, <2>1, TailFacts DEF MayBelieve, e
  <2>3. /\ Refuted(events, p) \/ SaysDown(e, p) => Refuted(events', p)
        /\ Told(events, p) \/ SaysDown(e, p) => Told(events', p)
    BY <1>1, <1>2, <2>2, AppendFacts
  <2>. QED
    BY <1>1, <2>1, <2>2, <2>3 DEF MayBelieve
<1>. QED
  BY <1>1, <1>2, <1>3, BridgeActs DEF AudioType

\* A driver moves on; it may report that it is up, or not, and keeps its session.
LEMMA DriverFacts ==
    ASSUME AudioInv, NEW p \in Peers, NEW phase \in Phases, Driver(p, phase),
           NEW e \in Events, e.peer = p, events' = events \/ events' = Append(events, e)
    PROVE  AudioInv'
<1>1. /\ sessions \in [Peers -> Phases \cup {None}] /\ commands \in Seq(Commands)
      /\ events \in Seq(Events) /\ outbox \in Seq(Events)
  BY DEF AudioInv, AudioType
<1>2. /\ sessions' = [sessions EXCEPT ![p] = phase]
      /\ UNCHANGED <<config, audio_live, audio_inflight, dials, outcomes, finished, ghosts, outbox, commands>>
  BY DEF Driver, intent, book, dialling, work
<1>3. sessions' \in [Peers -> Phases \cup {None}] /\ events' \in Seq(Events)
  <2>1. sessions' \in [Peers -> Phases \cup {None}]
    BY <1>1, <1>2
  <2>2. Append(events, e) \in Seq(Events)
    BY <1>1, AppendProperties
  <2>. QED
    BY <1>1, <2>1, <2>2
<1>4. ASSUME NEW q \in Peers \ ghosts', ~finished, sessions'[q] = None
      PROVE  MayBelieve(q)'
  <2>1. q # p /\ sessions[q] = None
    BY <1>1, <1>2, <1>4, NoneAssumption
  <2>2. MayBelieve(q)
    BY <1>2, <1>4, <2>1 DEF AudioInv, Backed
  <2>3. ~SaysUp(e, q)
    BY <2>1 DEF SaysUp
  <2>4. (Refuted(events, q) => Refuted(events', q)) /\ (Told(events, q) => Told(events', q))
    BY <1>1, <2>3, AppendFacts
  <2>. QED
    BY <1>2, <2>2, <2>4 DEF MayBelieve
<1>. QED
  BY <1>1, <1>2, <1>3, <1>4, BridgeActs

LEMMA DriverStepFacts ==
    ASSUME AudioInv, NEW p \in Peers, DriverStep(p)
    PROVE  AudioInv'
<1> DEFINE u == PeerStatus(p, TRUE)
           d == PeerStatus(p, FALSE)
           e == AudioError(p)
<1>1. /\ u \in Events /\ d \in Events /\ e \in Events
      /\ u.peer = p /\ d.peer = p /\ e.peer = p
  BY EventFacts
<1>2. {"connected", "broken", "failed", "ended"} \subseteq Phases
  BY DEF Phases
<1>3. CASE Connects(p)
  BY <1>1, <1>2, <1>3, DriverFacts DEF Connects, TrySend
<1>4. CASE Disconnects(p)
  BY <1>1, <1>2, <1>4, DriverFacts DEF Disconnects, TrySend
<1>5. CASE DriverFails(p)
  BY <1>1, <1>2, <1>5, DriverFacts DEF DriverFails
<1>6. CASE ReportError(p)
  BY <1>1, <1>2, <1>6, DriverFacts DEF ReportError
<1>7. CASE PeerCloses(p)
  BY <1>1, <1>2, <1>7, DriverFacts DEF PeerCloses
<1>. QED
  BY <1>3, <1>4, <1>5, <1>6, <1>7 DEF DriverStep

LEMMA BridgeStepFacts ==
    ASSUME AudioInv, BridgeStep
    PROVE  AudioInv'
<1>1. AudioType /\ commands \in Seq(Commands)
  BY DEF AudioInv, AudioType
<1>2. CASE TakeCommand
  <2>1. commands' \in Seq(Commands)
    BY <1>1, <1>2, HeadTailProperties DEF TakeCommand
  <2>. QED
    BY <1>2, <2>1, BridgePlans DEF TakeCommand, intent, book, dialling
<1>3. CASE Reap
  BY <1>1, <1>3, BridgePlans DEF Reap, intent, book, dialling
<1>. QED
  BY <1>2, <1>3, DeliverFacts, CloseFacts, StartFacts DEF BridgeStep

\* The bridge dies: nothing is claimed until the tick replaces it.
LEMMA BridgeDeathFacts ==
    ASSUME AudioInv, BridgeDies
    PROVE  AudioInv'
<1>1. /\ finished' /\ sessions' = [p \in Peers |-> None] /\ outbox' = <<>> /\ commands' = <<>>
      /\ UNCHANGED <<config, audio_live, audio_inflight, dials, outcomes, events>>
  BY DEF BridgeDies, intent, book, dialling
<1>2. AudioType'
  BY <1>1, EmptySeq DEF AudioInv, AudioType
<1>3. InflightIsReal'
  BY <1>1 DEF AudioInv, InflightIsReal
<1>4. Backed'
  BY <1>1 DEF Backed
<1>. QED
  BY <1>2, <1>3, <1>4 DEF AudioInv

-----------------------------------------------------------------------------
(* Steps of the supervisor and of the dial tasks.                            *)

\* reconcile_audio_sessions: whoever it marks as dialled has a task.
LEMMA ReconcileFacts ==
    ASSUME NEW on, NEW busy, NEW heard, NEW cfg, NEW live \in SUBSET Peers,
           NEW inflight \in SUBSET Peers, NEW backoff, NEW running \in [Peers -> Nat],
           ReconcileAudioSessions(on, busy, heard, cfg, live, inflight, backoff, running)
    PROVE  /\ audio_live' = live
           /\ audio_inflight' \subseteq Peers /\ dials' \in [Peers -> Nat]
           /\ \A p \in Peers : running[p] > 0 => dials'[p] > 0
           /\ \A p \in audio_inflight' : p \in inflight \/ dials'[p] > 0
<1> DEFINE start == {p \in Peers \ busy : on /\ DialAudioOne(p, heard, live, inflight, backoff, cfg)}
<1>1. /\ audio_live' = live /\ audio_inflight' = inflight \cup start
      /\ dials' = [p \in Peers |-> running[p] + IF p \in start THEN 1 ELSE 0]
  BY DEF ReconcileAudioSessions
<1>2. start \subseteq Peers
  OBVIOUS
<1> HIDE DEF start
<1>3. \A p \in Peers : /\ running[p] + (IF p \in start THEN 1 ELSE 0) \in Nat
                       /\ running[p] > 0 \/ p \in start => running[p] + (IF p \in start THEN 1 ELSE 0) > 0
  OBVIOUS
<1>. QED
  BY <1>1, <1>2, <1>3

\* A step of the supervisor that leaves the bridge and what it said alone, and
\* believes no more than before.
LEMMA SupervisorActs ==
    ASSUME AudioInv, UNCHANGED <<sessions, ghosts, events, outbox, finished>>,
           config' \in Configs, commands' \in Seq(Commands),
           audio_live' \subseteq audio_live,
           audio_inflight' \subseteq Peers, dials' \in [Peers -> Nat], outcomes' \in Seq(Outcomes),
           InflightIsReal'
    PROVE  AudioInv'
<1>1. AudioType'
  BY DEF AudioInv, AudioType
<1>2. \A p \in Peers : MayBelieve(p) => MayBelieve(p)'
  BY DEF MayBelieve
<1>3. Backed'
  BY <1>2 DEF AudioInv, Backed
<1>. QED
  BY <1>1, <1>3 DEF AudioInv

\* The same, when it dials nobody.
LEMMA SupervisorRests ==
    ASSUME AudioInv, UNCHANGED <<sessions, ghosts, events, outbox, finished, dials, outcomes>>,
           config' \in Configs, commands' \in Seq(Commands),
           audio_live' \subseteq audio_live, audio_inflight' \subseteq audio_inflight
    PROVE  AudioInv'
<1>1. /\ audio_inflight' \subseteq Peers /\ dials' \in [Peers -> Nat] /\ outcomes' \in Seq(Outcomes)
      /\ InflightIsReal'
  BY DEF AudioInv, AudioType, InflightIsReal
<1>. QED
  BY <1>1, SupervisorActs

\* The same, when it reconciles the sessions.
LEMMA SupervisorDials ==
    ASSUME AudioInv, UNCHANGED <<sessions, ghosts, events, outbox, finished, outcomes>>,
           config' \in Configs, commands' \in Seq(Commands),
           NEW on, NEW busy, NEW heard, NEW cfg, NEW live \in SUBSET audio_live, NEW backoff,
           ReconcileAudioSessions(on, busy, heard, cfg, live, audio_inflight, backoff, dials)
    PROVE  AudioInv'
<1>1. /\ audio_live \subseteq Peers /\ audio_inflight \subseteq Peers /\ dials \in [Peers -> Nat]
      /\ outcomes \in Seq(Outcomes) /\ InflightIsReal
  BY DEF AudioInv, AudioType
<1>2. /\ audio_live' = live
      /\ audio_inflight' \subseteq Peers /\ dials' \in [Peers -> Nat]
      /\ \A p \in Peers : dials[p] > 0 => dials'[p] > 0
      /\ \A p \in audio_inflight' : p \in audio_inflight \/ dials'[p] > 0
  BY <1>1, ReconcileFacts
<1>3. InflightIsReal'
  BY <1>1, <1>2 DEF InflightIsReal
<1>. QED
  BY <1>1, <1>2, <1>3, SupervisorActs

\* The subsystem is gone or new.
LEMMA Afresh ==
    ASSUME NEW first \in Seq(Commands), FreshBridge(first), config' \in Configs, audio_live' = {},
           audio_inflight' \subseteq Peers, dials' \in [Peers -> Nat],
           \A p \in audio_inflight' : dials'[p] > 0
    PROVE  AudioInv'
<1>1. /\ sessions' = [p \in Peers |-> None] /\ events' = <<>> /\ outbox' = <<>> /\ outcomes' = <<>>
      /\ commands' = first
  BY DEF FreshBridge
<1>2. AudioType'
  BY <1>1, EmptySeq DEF AudioType
<1>3. InflightIsReal'
  BY DEF InflightIsReal
<1>4. ASSUME NEW p \in Peers
      PROVE  MayBelieve(p)'
  <2>1. Len(<<>>) = 0 /\ 1 .. 0 = {}
    BY EmptySeq
  <2>. QED
    BY <1>1, <2>1 DEF MayBelieve, Silent, Refuted
<1>5. Backed'
  BY <1>4 DEF Backed
<1>. QED
  BY <1>2, <1>3, <1>5 DEF AudioInv

LEMMA TeardownFacts ==
    ASSUME TeardownAudioSubsystem, config' \in Configs
    PROVE  AudioInv'
<1> DEFINE first == <<>>
<1>1. first \in Seq(Commands)
  BY EmptySeq
<1>2. FreshBridge(first) /\ audio_live' = {} /\ audio_inflight' = {} /\ dials' = NoDials
  BY DEF TeardownAudioSubsystem
<1>3. dials' \in [Peers -> Nat]
  BY <1>2 DEF NoDials
<1> HIDE DEF first
<1>. QED
  BY <1>1, <1>2, <1>3, Afresh

LEMMA EnsureFacts ==
    ASSUME config' \in Configs, NEW busy, NEW cfg, NEW first \in Seq(Commands),
           EnsureAudioSubsystem(busy, cfg, first)
    PROVE  AudioInv'
<1> DEFINE on == TRUE
           none == {}
<1>1. NoDials \in [Peers -> Nat]
  BY DEF NoDials
<1>2. /\ ReconcileAudioSessions(on, busy, audible, cfg, none, none, NoBackoff, NoDials)
      /\ FreshBridge(first)
  BY DEF EnsureAudioSubsystem
<1>3. none \in SUBSET Peers /\ none = {}
  OBVIOUS
<1> HIDE DEF on, none
<1>4. /\ audio_live' = {} /\ audio_inflight' \subseteq Peers /\ dials' \in [Peers -> Nat]
      /\ \A p \in audio_inflight' : dials'[p] > 0
  BY <1>1, <1>2, <1>3, ReconcileFacts
<1>. QED
  BY <1>2, <1>4, Afresh

\* reconcile_audio_subsystem.
LEMMA SubsystemFacts ==
    ASSUME AudioInv, NEW busy, NEW want, NEW cfg, NEW first \in Seq(Commands),
           ReconcileAudioSubsystem(busy, want, cfg, first), config' \in Configs
    PROVE  AudioInv'
<1>1. CASE EnsureAudioSubsystem(busy, cfg, first)
  BY <1>1, EnsureFacts
<1>2. CASE TeardownAudioSubsystem
  BY <1>2, TeardownFacts
<1>3. CASE UNCHANGED <<book, dialling, bridge>>
  <2>1. /\ UNCHANGED <<sessions, ghosts, events, outbox, finished, dials, outcomes, audio_live,
                       audio_inflight>>
        /\ commands' \in Seq(Commands)
    BY <1>3 DEF book, dialling, bridge, work, AudioInv, AudioType
  <2>. QED
    BY <2>1, SupervisorRests
<1>. QED
  BY <1>1, <1>2, <1>3 DEF ReconcileAudioSubsystem

LEMMA CommandTypes ==
    /\ \A p \in Peers : Signal(p) \in Commands /\ ClosePeer(p) \in Commands
    /\ \A cfg \in Configs : Reconfigure(cfg) \in Commands
  BY DEF Signal, ClosePeer, Reconfigure, Commands

\* try_send of a command.
LEMMA TellFacts ==
    ASSUME AudioInv, NEW c \in Commands
    PROVE  Tell(c) \in Seq(Commands) /\ Append(commands, c) \in Seq(Commands) /\ <<c>> \in Seq(Commands)
<1>1. commands \in Seq(Commands) /\ <<c>> \in Seq(Commands)
  BY DEF AudioInv, AudioType
<1>. QED
  BY <1>1, AppendProperties DEF Tell, TrySend

\* update_audio_config.
LEMMA UpdateFacts ==
    ASSUME AudioInv, NEW busy, NEW cfg \in Configs, UpdateAudioConfig(busy, cfg)
    PROVE  AudioInv'
<1> DEFINE demoted == {q \in peers : PeerAudioActive(config, q) /\ ~PeerAudioActive(cfg, q)}
           backoff == [q \in Peers |-> IF q \in demoted THEN "none" ELSE audio_backoff[q]]
           live == audio_live \ demoted
<1>1. /\ config' = cfg /\ UNCHANGED <<sessions, ghosts, events, outbox, finished, outcomes>>
      /\ commands' = Tell(Reconfigure(cfg))
      /\ ReconcileAudioSessions(up, busy, audible, cfg, live, audio_inflight, backoff, dials)
  BY DEF UpdateAudioConfig, work
<1>2. live \in SUBSET audio_live
  OBVIOUS
<1> HIDE DEF demoted, backoff, live
<1>3. commands' \in Seq(Commands)
  BY <1>1, CommandTypes, TellFacts
<1>. QED
  BY <1>1, <1>2, <1>3, SupervisorDials

LEMMA UserStepFacts ==
    ASSUME AudioInv, UserStep
    PROVE  AudioInv'
<1>1. config \in Configs /\ commands \in Seq(Commands)
  BY DEF AudioInv, AudioType
<1>2. ASSUME NEW busy, NEW b \in BOOLEAN, SetRunning(busy, b)
      PROVE  AudioInv'
  <2> DEFINE first == <<>>
             want == b /\ config.enabled
  <2>1. ReconcileAudioSubsystem(busy, want, config, first) /\ config' = config
    BY <1>2 DEF SetRunning
  <2>2. first \in Seq(Commands)
    BY EmptySeq
  <2> HIDE DEF first, want
  <2>. QED
    BY <1>1, <2>1, <2>2, SubsystemFacts
<1>3. ASSUME NEW busy, ToggleAudio(busy)
      PROVE  AudioInv'
  <2> DEFINE cfg == [config EXCEPT !.enabled = ~@]
             first == <<Reconfigure(cfg)>>
             want == desired_running /\ cfg.enabled
  <2>1. ReconcileAudioSubsystem(busy, want, cfg, first) /\ config' = cfg
    BY <1>3 DEF ToggleAudio
  <2>2. cfg \in Configs
    BY <1>1 DEF Configs
  <2> HIDE DEF cfg
  <2>3. first \in Seq(Commands)
    BY <2>2, CommandTypes, TellFacts
  <2> HIDE DEF first, want
  <2>. QED
    BY <2>1, <2>2, <2>3, SubsystemFacts
<1>4. ASSUME NEW busy, ChangePort(busy)
      PROVE  AudioInv'
  BY <1>1, <1>4, UpdateFacts DEF ChangePort
<1>5. ASSUME NEW busy, NEW p \in Peers, NEW r \in Routes, RouteAudio(busy, p, r)
      PROVE  AudioInv'
  <2> DEFINE cfg == [config EXCEPT !.route[p] = r]
  <2>1. UpdateAudioConfig(busy, cfg)
    BY <1>5 DEF RouteAudio
  <2>2. cfg \in Configs
    BY <1>1 DEF Configs
  <2> HIDE DEF cfg
  <2>. QED
    BY <2>1, <2>2, UpdateFacts
<1>6. ASSUME NEW p \in Peers, RevokeTrust(p)
      PROVE  AudioInv'
  <2>1. commands' \in Seq(Commands)
    BY <1>6, CommandTypes, TellFacts DEF RevokeTrust
  <2>. QED
    BY <1>1, <1>6, <2>1, SupervisorRests DEF RevokeTrust, book, dialling, work
<1>7. ASSUME NEW p \in Peers, Pair(p)
      PROVE  AudioInv'
  BY <1>1, <1>7, SupervisorRests DEF Pair, book, dialling, bridge, work
<1>8. ASSUME NEW busy, NEW p \in Peers, NEW port \in BOOLEAN, Found(busy, p, port)
      PROVE  AudioInv'
  <2>1. /\ UNCHANGED <<sessions, ghosts, events, outbox, finished, outcomes, config, commands>>
        /\ ReconcileAudioSessions(up, busy, audible', config, audio_live, audio_inflight, audio_backoff,
                                  dials)
    BY <1>8 DEF Found, bridge, work
  <2>. QED
    BY <1>1, <2>1, SupervisorDials
<1>9. ASSUME NEW p \in Peers, Lost(p)
      PROVE  AudioInv'
  <2>1. commands' \in Seq(Commands)
    BY <1>9, CommandTypes, TellFacts DEF Lost
  <2>2. /\ audio_live' \subseteq audio_live
        /\ UNCHANGED <<sessions, ghosts, events, outbox, finished, dials, outcomes, config, audio_inflight>>
    BY <1>9 DEF Lost, dialling, work
  <2>. QED
    BY <1>1, <2>1, <2>2, SupervisorRests
<1>. QED
  BY <1>2, <1>3, <1>4, <1>5, <1>6, <1>7, <1>8, <1>9 DEF UserStep

\* The supervisor reads what the bridge said.
LEMMA TakeEventFacts ==
    ASSUME AudioInv, TakeAudioEvent
    PROVE  AudioInv'
<1> DEFINE ev == Head(events)
<1>1. /\ AudioType /\ events \in Seq(Events) /\ events # <<>> /\ events' = Tail(events)
      /\ UNCHANGED <<config, dials, outcomes, sessions, ghosts, outbox, finished, commands>>
      /\ HandleAudioEvent(ev)
  BY DEF AudioInv, AudioType, TakeAudioEvent, intent, dialling, work
<1>2. ev \in Events /\ Tail(events) \in Seq(Events)
  BY <1>1, TailFacts
<1> HIDE DEF ev
<1>3. ev.peer \in Peers /\ audio_inflight' \subseteq audio_inflight
  BY <1>1, <1>2 DEF Events, HandleAudioEvent
<1>4. audio_live' \subseteq Peers
  BY <1>1, <1>3 DEF AudioType, HandleAudioEvent
<1>5. AudioType'
  BY <1>1, <1>2, <1>3, <1>4 DEF AudioType
<1>6. InflightIsReal'
  BY <1>1, <1>3 DEF AudioInv, InflightIsReal
<1>7. ASSUME NEW p \in Peers, p \in audio_live'
      PROVE  SaysUp(ev, p) \/ (p \in audio_live /\ ~SaysDown(ev, p))
  BY <1>1, <1>7 DEF HandleAudioEvent, SaysUp, SaysDown
<1>8. ASSUME NEW p \in Peers, MayBelieve(p)
      PROVE  MayBelieve(p)'
  <2>1. /\ Refuted(events, p) => Refuted(Tail(events), p)
        /\ Refuted(events, p) /\ SaysUp(ev, p) => Told(Tail(events), p)
        /\ Told(events, p) /\ ~SaysDown(ev, p) => Told(Tail(events), p)
    BY <1>1, TailFacts DEF ev
  <2>. QED
    BY <1>1, <1>7, <1>8, <2>1 DEF MayBelieve
<1>9. Backed'
  BY <1>1, <1>8 DEF AudioInv, Backed
<1>. QED
  BY <1>5, <1>6, <1>9 DEF AudioInv

\* The outcome of a dial is read: its peer is no longer marked, and those that
\* still are have their outcome further back.
LEMMA OutcomeFacts ==
    ASSUME AudioInv, HandleAudioDialOutcome
    PROVE  AudioInv'
<1> DEFINE o == Head(outcomes)
<1>1. /\ AudioType /\ outcomes \in Seq(Outcomes) /\ outcomes # <<>> /\ InflightIsReal
      /\ outcomes' = Tail(outcomes) /\ audio_inflight' = audio_inflight \ {o.peer}
      /\ UNCHANGED <<config, dials, audio_live, sessions, ghosts, events, outbox, finished, commands>>
  BY DEF AudioInv, AudioType, HandleAudioDialOutcome, intent, bridge, work
<1>2. /\ Tail(outcomes) \in Seq(Outcomes) /\ Len(Tail(outcomes)) = Len(outcomes) - 1
      /\ \A i \in 1 .. Len(Tail(outcomes)) : Tail(outcomes)[i] = outcomes[i + 1]
      /\ o = outcomes[1] /\ Len(outcomes) \in Nat
      /\ DOMAIN outcomes = 1 .. Len(outcomes) /\ DOMAIN Tail(outcomes) = 1 .. Len(Tail(outcomes))
  BY <1>1, HeadTailProperties, LenProperties
<1> HIDE DEF o
<1>3. InflightIsReal'
  <2> SUFFICES ASSUME NEW p \in audio_inflight, p # o.peer, ~(dials[p] > 0)
               PROVE  \E i \in DOMAIN Tail(outcomes) : Tail(outcomes)[i].peer = p
    BY <1>1 DEF InflightIsReal, Range
  <2>1. PICK i \in DOMAIN outcomes : outcomes[i].peer = p
    BY <1>1 DEF InflightIsReal, Range
  <2>2. i # 1
    BY <1>2, <2>1
  <2>3. i - 1 \in 1 .. Len(Tail(outcomes)) /\ Tail(outcomes)[i - 1] = outcomes[i]
    BY <1>2, <2>1, <2>2
  <2>. QED
    BY <1>2, <2>1, <2>3
<1>. QED
  BY <1>1, <1>2, <1>3, SupervisorActs DEF AudioType

\* A dial task ends: its outcome takes its place.
LEMMA DialEndFacts ==
    ASSUME AudioInv, NEW p \in Peers, NEW ok \in BOOLEAN, DialEnds(p, ok),
           commands' \in Seq(Commands),
           UNCHANGED <<config, audio_live, audio_inflight, sessions, ghosts, events, outbox, finished>>
    PROVE  AudioInv'
<1>1. /\ AudioType /\ dials \in [Peers -> Nat] /\ outcomes \in Seq(Outcomes) /\ InflightIsReal
      /\ audio_inflight \subseteq Peers
  BY DEF AudioInv, AudioType
<1>2. /\ dials[p] > 0 /\ dials' = [dials EXCEPT ![p] = @ - 1]
      /\ outcomes' = Append(outcomes, Outcome(p, ok))
  BY DEF DialEnds
<1>3. Outcome(p, ok) \in Outcomes /\ Outcome(p, ok).peer = p
  BY DEF Outcome, Outcomes
<1> DEFINE o == Outcome(p, ok)
<1>4. /\ outcomes' \in Seq(Outcomes) /\ Len(outcomes') = Len(outcomes) + 1 /\ Len(outcomes) \in Nat
      /\ DOMAIN outcomes = 1 .. Len(outcomes) /\ DOMAIN outcomes' = 1 .. Len(outcomes')
      /\ \A i \in 1 .. Len(outcomes) : outcomes'[i] = outcomes[i]
      /\ outcomes'[Len(outcomes) + 1] = o
  BY <1>1, <1>2, <1>3, AppendProperties, LenProperties
<1> HIDE DEF o
<1>5. dials' \in [Peers -> Nat] /\ \A q \in Peers \ {p} : dials'[q] = dials[q]
  BY <1>1, <1>2
<1>6. InflightIsReal'
  <2> SUFFICES ASSUME NEW q \in audio_inflight
               PROVE  dials'[q] > 0 \/ \E i \in DOMAIN outcomes' : outcomes'[i].peer = q
    BY DEF InflightIsReal, Range
  <2>1. CASE q = p
    <3>1. Len(outcomes) + 1 \in DOMAIN outcomes' /\ outcomes'[Len(outcomes) + 1].peer = p
      BY <1>3, <1>4 DEF o
    <3>. QED
      BY <2>1, <3>1
  <2>2. CASE q # p
    <3>1. dials[q] > 0 \/ \E i \in DOMAIN outcomes : outcomes[i].peer = q
      BY <1>1 DEF InflightIsReal, Range
    <3>2. CASE dials[q] > 0
      BY <1>1, <1>5, <2>2, <3>2
    <3>3. ASSUME NEW i \in DOMAIN outcomes, outcomes[i].peer = q
          PROVE  i \in DOMAIN outcomes' /\ outcomes'[i].peer = q
      BY <1>4, <3>3
    <3>. QED
      BY <3>1, <3>2, <3>3
  <2>. QED
    BY <2>1, <2>2
<1>. QED
  BY <1>1, <1>4, <1>5, <1>6, SupervisorActs DEF AudioType

\* The audio_reconcile tick.
LEMMA TickFacts ==
    ASSUME AudioInv, NEW busy, Tick(busy)
    PROVE  AudioInv'
<1>1. config' \in Configs /\ config' = config
  BY DEF AudioInv, AudioType, Tick
<1> DEFINE c == Reconfigure(config)
           first == <<c>>
<1>2. c \in Commands
  BY <1>1, CommandTypes
<1>3. Tell(c) \in Seq(Commands) /\ first \in Seq(Commands)
  BY <1>2, TellFacts
<1>4. CASE TeardownAudioSubsystem
  BY <1>1, <1>4, TeardownFacts
<1>5. CASE EnsureAudioSubsystem(busy, config, first)
  <2> HIDE DEF first
  <2>. QED
    BY <1>1, <1>3, <1>5, EnsureFacts
<1>6. CASE /\ commands' = ReconfigureBridge
           /\ ReconcileAudioSessions(TRUE, busy, audible, config, audio_live, audio_inflight,
                                     audio_backoff, dials)
           /\ UNCHANGED <<up, accepted, vetted, outcomes, finished, bridge_config, sessions, ghosts,
                          work, events>>
  <2> DEFINE on == TRUE
  <2>1. /\ ReconcileAudioSessions(on, busy, audible, config, audio_live, audio_inflight,
                                  audio_backoff, dials)
        /\ UNCHANGED <<sessions, ghosts, events, outbox, finished, outcomes>>
        /\ commands' \in Seq(Commands)
    BY <1>3, <1>6 DEF work, ReconfigureBridge
  <2> HIDE DEF on
  <2>. QED
    BY <1>1, <2>1, SupervisorDials
<1>. QED
  BY <1>4, <1>5, <1>6 DEF Tick

-----------------------------------------------------------------------------
(* The theorems.                                                             *)

LEMMA AudioInitInv == Init => AudioInv
<1> SUFFICES ASSUME Init
             PROVE  AudioInv
  OBVIOUS
<1>1. config \in Configs
  BY DEF Init, Configs, Routes
<1>2. AudioType
  BY <1>1, EmptySeq DEF Init, AudioType, NoDials
<1>3. InflightIsReal
  BY DEF Init, InflightIsReal
<1>4. Backed
  <2>1. Len(<<>>) = 0 /\ 1 .. 0 = {}
    BY EmptySeq
  <2>. QED
    BY <2>1 DEF Init, Backed, MayBelieve, Silent, Refuted
<1>. QED
  BY <1>2, <1>3, <1>4 DEF AudioInv

LEMMA AudioStepInv == AudioInv /\ [Next]_vars => AudioInv'
<1> SUFFICES ASSUME AudioInv, [Next]_vars
             PROVE  AudioInv'
  OBVIOUS
<1>1. config \in Configs /\ commands \in Seq(Commands)
  BY DEF AudioInv, AudioType
<1>2. CASE UNCHANGED vars
  BY <1>1, <1>2, SupervisorRests DEF vars, intent, book, dialling, bridge, work
<1>3. CASE ListenerDies
  BY <1>1, <1>3, SupervisorRests DEF ListenerDies, intent, book, dialling, bridge, work
<1>4. ASSUME NEW p \in Peers, BackoffElapses(p)
      PROVE  AudioInv'
  BY <1>1, <1>4, SupervisorRests DEF BackoffElapses, intent, dialling, bridge, work
<1>5. ASSUME NEW p \in Peers, DialStep(p)
      PROVE  AudioInv'
  <2>1. CASE DialVetted(p)
    BY <1>1, <2>1, SupervisorRests DEF DialVetted, intent, book, bridge, work
  <2>2. CASE DialSucceeds(p)
    <3>1. commands' \in Seq(Commands)
      BY <2>2, CommandTypes, TellFacts DEF DialSucceeds
    <3>2. /\ DialEnds(p, TRUE)
          /\ UNCHANGED <<config, audio_live, audio_inflight, sessions, ghosts, events, outbox, finished>>
      BY <2>2 DEF DialSucceeds, intent, book, work
    <3>. QED
      BY <3>1, <3>2, DialEndFacts
  <2>3. CASE DialFails(p)
    <3>1. /\ DialEnds(p, FALSE) /\ commands' \in Seq(Commands)
          /\ UNCHANGED <<config, audio_live, audio_inflight, sessions, ghosts, events, outbox, finished>>
      BY <1>1, <2>3 DEF DialFails, intent, book, bridge, work
    <3>. QED
      BY <3>1, DialEndFacts
  <2>. QED
    BY <1>5, <2>1, <2>2, <2>3 DEF DialStep
<1>6. ASSUME NEW p \in Peers, InboundStep(p)
      PROVE  AudioInv'
  <2>1. CASE InboundAccepted(p)
    BY <1>1, <2>1, SupervisorRests DEF InboundAccepted, intent, book, dialling, bridge, work
  <2>2. CASE InboundHandoff(p)
    <3>1. commands' \in Seq(Commands)
      BY <2>2, CommandTypes, TellFacts DEF InboundHandoff
    <3>. QED
      BY <1>1, <2>2, <3>1, SupervisorRests DEF InboundHandoff, intent, book, dialling, work
  <2>3. CASE InboundFails(p)
    BY <1>1, <2>3, SupervisorRests DEF InboundFails, intent, book, dialling, bridge, work
  <2>. QED
    BY <1>6, <2>1, <2>2, <2>3 DEF InboundStep
<1>. QED
  BY <1>2, <1>3, <1>4, <1>5, <1>6, UserStepFacts, TakeEventFacts, OutcomeFacts, TickFacts,
     BridgeStepFacts, BridgeDeathFacts, DriverStepFacts, Zenon DEF Next

\* A peer the supervisor marks as being dialled has a dial task or an outcome on
\* its way, for any number of peers, edits and faults: dial_audio_one, which
\* skips a marked peer, gets to it again.
THEOREM DialsAreReal == Spec => []InflightIsReal
<1>1. AudioInv => InflightIsReal
  BY DEF AudioInv
<1>. QED
  BY <1>1, AudioInitInv, AudioStepInv, PTL DEF Spec

\* A peer the supervisor believes live has a session in the bridge, or an event
\* that corrects the belief waits in the channel or is about to be sent, for any
\* number of peers, any capacities and every order in which drivers report, unless a
\* driver reported after it was aborted or the bridge task is over.
THEOREM BeliefsAreBacked == Spec => []LiveIsBacked
<1>1. AudioInv => LiveIsBacked
  <2> SUFFICES ASSUME AudioInv, NEW p \in audio_live \ ghosts, ~finished, sessions[p] = None
               PROVE  \E ev \in Range(events) \cup Range(outbox) :
                          ev.peer = p /\ (ev.kind = "status" => ~ev.ok)
    BY DEF LiveIsBacked
  <2>1. /\ events \in Seq(Events) /\ outbox \in Seq(Events)
        /\ Told(events, p) \/ Told(outbox, p)
    BY DEF AudioInv, AudioType, Backed, MayBelieve
  <2>2. ASSUME NEW q \in Seq(Events), Told(q, p)
        PROVE  \E ev \in Range(q) : SaysDown(ev, p)
    <3>1. PICK i \in 1 .. Len(q) : SaysDown(q[i], p)
      BY <2>2 DEF Told
    <3>2. q[i] \in Range(q)
      BY <3>1, LenProperties DEF Range
    <3>. QED
      BY <3>1, <3>2
  <2>3. PICK ev \in Range(events) \cup Range(outbox) : SaysDown(ev, p)
    BY <2>1, <2>2
  <2>. QED
    BY <2>3 DEF SaysDown
<1>. QED
  BY <1>1, AudioInitInv, AudioStepInv, PTL DEF Spec
=============================================================================
