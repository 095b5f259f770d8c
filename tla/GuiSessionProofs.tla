-------------------------- MODULE GuiSessionProofs --------------------------
(***************************************************************************)
(* What the window shows once nothing is on its way, and what it pushes on *)
(* its own, for every number of peers and every bound on the channels.     *)
(*                                                                         *)
(* Every part of the view has the same argument.  The events in the        *)
(* subscriber's queue and the updates on their way to the window are one   *)
(* stream of writes to that part of the view.  The last write in the       *)
(* stream is the truth; where there is none, the view already is.          *)
(***************************************************************************)
EXTENDS GuiSession, TLAPS

\* The type of the state.
Events == [kind : {"config"}] \cup [kind : {"state"}, state : States]
          \cup [kind : {"proposed", "failed", "completed", "revoked"}, peer : Peers]
Updates == [kind : {"connected", "disconnected", "launching"}]
           \cup [kind : {"config"}, config : Configs]
           \cup [kind : {"status", "state"}, state : States]
           \cup [kind : {"trusted"}, peers : SUBSET Peers]
           \cup [kind : {"proposed", "failed", "completed", "revoked"}, peer : Peers]
Commands == [kind : {"set_config"}, config : Configs, click : BOOLEAN, based : BOOLEAN]
            \cup [kind : {"set_audio"}, audio : BOOLEAN]
            \cup [kind : {"core"}, state : States] \cup [kind : {"revoke"}, peer : Peers]
            \cup [kind : {"refresh"}]
Replies == [kind : {"status"}, state : States]
Views == [connected : BOOLEAN, config : Configs, dirty : BOOLEAN,
          pending : Configs \cup {None}, state : States, trusted : SUBSET Peers,
          dialogs : SUBSET Peers, listed : BOOLEAN, based : BOOLEAN, reconcile : BOOLEAN]
Subs == [open : BOOLEAN, snapshot : BOOLEAN, queue : Seq(Events)]

TypeInv ==
    /\ config \in Configs /\ state \in States
    /\ trusted \in SUBSET Peers /\ proposals \in SUBSET Peers
    /\ sub \in Subs
    /\ thread \in {"connect", "config", "status", "trusted", "ready", "stream"}
    /\ updates \in Seq(Updates) /\ commands \in Seq(Commands)
    /\ reply \in Replies \cup {None}
    /\ view \in Views

-----------------------------------------------------------------------------
(* Streams of writes: W is the set of writes, G the set of the true ones. *)

Silent(s, W) == \A i \in DOMAIN s : s[i] \notin W
LastIn(s, W, G) ==
    \A i \in DOMAIN s :
        s[i] \in W /\ (\A j \in DOMAIN s : j > i => s[j] \notin W) => s[i] \in G

\* First t is read, then q.
Told(q, t, W, G) == LastIn(q, W, G) /\ (Silent(q, W) => LastIn(t, W, G))
Quiet(q, t, W) == Silent(q, W) /\ Silent(t, W)

NoKind(s, k) == \A i \in DOMAIN s : s[i].kind # k
ConfigFirst(s) ==
    \A i \in DOMAIN s : s[i].kind = "connected" =>
        \E j \in DOMAIN s : j < i /\ s[j].kind = "config"

\* What writes which part of the view, and which of the writes are true.
LinkWrites == {u \in Updates : u.kind \in {"connected", "disconnected", "launching"}}
LinkTruth == {u \in LinkWrites : u.kind = "connected"}
ConfigWrites == {u \in Updates : u.kind = "config"}
ConfigTruth(c) == {u \in ConfigWrites : u.config = c}
StateWrites == {u \in Updates : u.kind \in {"status", "state"}}
StateTruth(s) == {u \in StateWrites : u.state = s}
TrustWrites(p) ==
    {u \in Updates : \/ u.kind = "trusted"
                     \/ u.kind \in {"revoked", "completed"} /\ u.peer = p}
Trusts(u, p) == u.kind = "completed" \/ (u.kind = "trusted" /\ p \in u.peers)
TrustTruth(p, t) == {u \in TrustWrites(p) : Trusts(u, p) <=> p \in t}
DialogWrites(p) ==
    {u \in Updates : \/ u.kind = "disconnected"
                     \/ u.kind \in {"proposed", "failed", "completed"} /\ u.peer = p}
DialogTruth(p, live) == {u \in DialogWrites(p) : u.kind = "proposed" => p \in live}

-----------------------------------------------------------------------------
(* The invariant. *)

LinkInv ==
    /\ sub.open => up
    /\ Open /\ thread = "stream" =>
         /\ LastIn(updates, LinkWrites, LinkTruth)
         /\ Silent(updates, LinkWrites) => view.connected

\* Only the queue before the snapshot has been fetched.
StateInv ==
    sub.open =>
        /\ LastIn(sub.queue, StateWrites, StateTruth(state))
        /\ Open /\ thread \in {"trusted", "ready", "stream"} /\ "state" \notin stale =>
             /\ Told(sub.queue, updates, StateWrites, StateTruth(state))
             /\ Quiet(sub.queue, updates, StateWrites) => view.state = state

TrustInv(p) ==
    sub.open =>
        /\ LastIn(sub.queue, TrustWrites(p), TrustTruth(p, trusted))
        /\ Open /\ thread \in {"ready", "stream"} =>
             /\ Told(sub.queue, updates, TrustWrites(p), TrustTruth(p, trusted))
             /\ Quiet(sub.queue, updates, TrustWrites(p)) => (p \in view.trusted <=> p \in trusted)

\* A dialog has no snapshot: a lost connection closes all of them.
DialogInv(p) ==
    /\ Open /\ thread = "connect" =>
         /\ LastIn(updates, DialogWrites(p), DialogTruth(p, {}))
         /\ Silent(updates, DialogWrites(p)) => p \notin view.dialogs
    /\ Open /\ thread # "connect" /\ sub.open =>
         /\ Told(sub.queue, updates, DialogWrites(p), DialogTruth(p, proposals))
         /\ Quiet(sub.queue, updates, DialogWrites(p)) =>
              (p \in view.dialogs => p \in proposals)

\* The commands that write the daemon's config, and a channel without any.
Writers == {"set_config", "set_audio"}
NoWriter(s) == NoKind(s, "set_config") /\ NoKind(s, "set_audio")

\* Nothing but an update on its way can still change the buffer's config.
ConfigDue ==
    /\ Open /\ sub.open /\ thread \in {"status", "trusted", "ready", "stream"}
    /\ NoKind(sub.queue, "config") /\ NoWriter(commands)
    /\ "config" \notin stale

ConfigInv ==
    /\ view.pending # None => view.dirty
    /\ ConfigDue =>
         /\ LastIn(updates, ConfigWrites, ConfigTruth(config))
         /\ Silent(updates, ConfigWrites) =>
              /\ ~view.dirty => view.config = config
              /\ view.pending # None => view.pending = config

\* The daemon's config is in the buffer, or in the banner over it.
Seeded(v) == v.based \/ v.pending # None

SeedInv ==
    /\ NoBlindPush
    /\ Open /\ ~Seeded(view) =>
         /\ ~view.connected
         /\ ConfigFirst(updates)
         /\ thread \in {"status", "trusted", "ready"} => ~NoKind(updates, "config")

ViewInv ==
    /\ LinkInv /\ StateInv /\ ConfigInv /\ SeedInv
    /\ \A p \in Peers : TrustInv(p) /\ DialogInv(p)

-----------------------------------------------------------------------------
USE Zenon

(* Lemmas about streams. *)

\* The channel after a push: it ends in the update.
Pushed(s, t, u) ==
    \/ t = Append(s, u)
    \/ t = s /\ Len(s) > 0 /\ s[Len(s)] = u

\* An empty stream carries no write.
LEMMA EmptyStream ==
    ASSUME NEW W, NEW G
    PROVE  /\ LastIn(<<>>, W, G) /\ Silent(<<>>, W)
           /\ Told(<<>>, <<>>, W, G)
<1>1. DOMAIN <<>> = {}
  BY SMT
<1> QED
  BY <1>1 DEF LastIn, Silent, Told

\* A stream that grows ends in the new element.
LEMMA AppendStream ==
    ASSUME NEW S, NEW s \in Seq(S), NEW u \in S, NEW W, NEW G \in SUBSET W
    PROVE  /\ u \in G => LastIn(Append(s, u), W, G)
           /\ u \in W => ~Silent(Append(s, u), W)
           /\ u \notin W => /\ LastIn(s, W, G) => LastIn(Append(s, u), W, G)
                            /\ Silent(Append(s, u), W) <=> Silent(s, W)
<1> DEFINE t == Append(s, u)
<1>1. /\ Len(s) \in Nat /\ DOMAIN s = 1..Len(s) /\ DOMAIN t = 1..Len(s) + 1
      /\ t[Len(s) + 1] = u /\ \A i \in 1..Len(s) : t[i] = s[i]
  BY SMT
<1> HIDE DEF t
<1>2. u \in G => LastIn(t, W, G)
  BY <1>1, SMT DEF LastIn
<1>3. u \in W => ~Silent(t, W)
  BY <1>1, SMT DEF Silent
<1>4. u \notin W /\ LastIn(s, W, G) => LastIn(t, W, G)
  BY <1>1, SMT DEF LastIn
<1>5. u \notin W => (Silent(t, W) <=> Silent(s, W))
  BY <1>1, SMT DEF Silent
<1> QED
  BY <1>2, <1>3, <1>4, <1>5 DEF t

\* A stream that is read from keeps its last write.
LEMMA TailStream ==
    ASSUME NEW S, NEW s \in Seq(S), s # <<>>, NEW W, NEW G \in SUBSET W
    PROVE  /\ LastIn(s, W, G) => LastIn(Tail(s), W, G)
           /\ Silent(s, W) <=> Head(s) \notin W /\ Silent(Tail(s), W)
           /\ LastIn(s, W, G) /\ Silent(Tail(s), W) /\ Head(s) \in W => Head(s) \in G
<1> DEFINE t == Tail(s)
<1>1. /\ Len(s) \in Nat /\ Len(s) > 0 /\ DOMAIN s = 1..Len(s) /\ DOMAIN t = 1..Len(s) - 1
      /\ Head(s) = s[1] /\ \A i \in 1..Len(s) - 1 : t[i] = s[i + 1]
  BY SMT
<1> HIDE DEF t
<1>2. \A i \in DOMAIN t : i + 1 \in DOMAIN s /\ t[i] = s[i + 1]
  BY <1>1, SMT
<1>3. \A j \in DOMAIN s : j > 1 => j - 1 \in DOMAIN t /\ s[j] = t[j - 1]
  BY <1>1, SMT
<1>4. LastIn(s, W, G) => LastIn(t, W, G)
  <2> SUFFICES ASSUME LastIn(s, W, G), NEW i \in DOMAIN t, t[i] \in W,
                      \A j \in DOMAIN t : j > i => t[j] \notin W
               PROVE  t[i] \in G
    BY DEF LastIn
  <2>1. \A j \in DOMAIN s : j > i + 1 => s[j] \notin W
    BY <1>1, <1>3, SMT
  <2> QED
    BY <1>2, <2>1 DEF LastIn
<1>5. Silent(s, W) <=> s[1] \notin W /\ Silent(t, W)
  <2>1. 1 \in DOMAIN s /\ \A j \in DOMAIN s : j = 1 \/ j > 1
    BY <1>1, SMT
  <2>2. ASSUME Silent(s, W) PROVE s[1] \notin W /\ Silent(t, W)
    BY <1>2, <2>1, <2>2 DEF Silent
  <2>3. ASSUME s[1] \notin W, Silent(t, W) PROVE Silent(s, W)
    BY <1>3, <2>1, <2>3 DEF Silent
  <2> QED
    BY <2>2, <2>3
<1>6. LastIn(s, W, G) /\ Silent(t, W) /\ s[1] \in W => s[1] \in G
  BY <1>1, <1>3, SMT DEF Silent, LastIn
<1> QED
  BY <1>1, <1>4, <1>5, <1>6 DEF t

\* Push: an update that repeats the last one is not queued again.
LEMMA PushStream ==
    ASSUME NEW S, NEW s \in Seq(S), NEW t, NEW u \in S, Pushed(s, t, u),
           NEW W, NEW G \in SUBSET W
    PROVE  /\ u \in G => LastIn(t, W, G)
           /\ u \in W => ~Silent(t, W)
           /\ u \notin W => /\ LastIn(s, W, G) => LastIn(t, W, G)
                            /\ Silent(t, W) <=> Silent(s, W)
<1>1. CASE t = Append(s, u)
  BY <1>1, AppendStream
<1>2. CASE t = s /\ Len(s) > 0 /\ s[Len(s)] = u
  <2>1. Len(s) \in Nat /\ DOMAIN s = 1..Len(s) /\ Len(s) \in DOMAIN s
    BY <1>2, SMT
  <2>2. u \in G => LastIn(s, W, G)
    BY <1>2, <2>1, SMT DEF LastIn
  <2>3. u \in W => ~Silent(s, W)
    BY <1>2, <2>1 DEF Silent
  <2> QED
    BY <1>2, <2>2, <2>3
<1> QED
  BY <1>1, <1>2 DEF Pushed

\* Kinds of elements in a stream that grows or is read from.
LEMMA KindStream ==
    ASSUME NEW S, NEW s \in Seq(S), NEW k
    PROVE  /\ \A u \in S : NoKind(Append(s, u), k) <=> NoKind(s, k) /\ u.kind # k
           /\ s # <<>> => (NoKind(s, k) <=> Head(s).kind # k /\ NoKind(Tail(s), k))
<1>1. ASSUME NEW u \in S PROVE NoKind(Append(s, u), k) <=> NoKind(s, k) /\ u.kind # k
  <2> DEFINE t == Append(s, u)
  <2>1. /\ Len(s) \in Nat /\ DOMAIN s = 1..Len(s) /\ DOMAIN t = 1..Len(s) + 1
        /\ t[Len(s) + 1] = u /\ \A i \in 1..Len(s) : t[i] = s[i]
    BY SMT
  <2>2. /\ Len(s) + 1 \in DOMAIN t
        /\ \A i \in DOMAIN s : i \in DOMAIN t
        /\ \A i \in DOMAIN t : i = Len(s) + 1 \/ i \in DOMAIN s
    BY <2>1, SMT
  <2> HIDE DEF t
  <2> QED
    BY <2>1, <2>2 DEF NoKind, t
<1>2. ASSUME s # <<>> PROVE NoKind(s, k) <=> Head(s).kind # k /\ NoKind(Tail(s), k)
  <2> DEFINE t == Tail(s)
  <2>1. /\ 1 \in DOMAIN s /\ Head(s) = s[1]
        /\ \A i \in DOMAIN t : i + 1 \in DOMAIN s /\ t[i] = s[i + 1]
        /\ \A j \in DOMAIN s : j = 1 \/ (j - 1 \in DOMAIN t /\ s[j] = t[j - 1])
    BY <1>2, SMT
  <2> HIDE DEF t
  <2> QED
    BY <2>1 DEF NoKind, t
<1> QED
  BY <1>1, <1>2

\* The config stays ahead of the connection notice.
LEMMA ConfigFirstStream ==
    ASSUME NEW S, NEW s \in Seq(S), ConfigFirst(s)
    PROVE  /\ \A u \in S : \A t :
                Pushed(s, t, u) /\ (u.kind = "connected" => ~NoKind(s, "config")) =>
                  ConfigFirst(t)
           /\ s # <<>> /\ Head(s).kind # "config" =>
                Head(s).kind # "connected" /\ ConfigFirst(Tail(s))
<1>1. ASSUME NEW u \in S, u.kind = "connected" => ~NoKind(s, "config")
      PROVE  ConfigFirst(Append(s, u))
  <2> DEFINE t == Append(s, u)
  <2>1. /\ Len(s) \in Nat /\ DOMAIN s = 1..Len(s) /\ DOMAIN t = 1..Len(s) + 1
        /\ t[Len(s) + 1] = u /\ \A i \in 1..Len(s) : t[i] = s[i]
    BY SMT
  <2> HIDE DEF t
  <2>2. ASSUME NEW i \in DOMAIN t, t[i].kind = "connected"
        PROVE  \E j \in DOMAIN t : j < i /\ t[j].kind = "config"
    <3>1. CASE i = Len(s) + 1
      <4>1. PICK j \in DOMAIN s : s[j].kind = "config"
        BY <1>1, <2>1, <2>2, <3>1 DEF NoKind
      <4> QED
        BY <2>1, <3>1, <4>1, SMT
    <3>2. CASE i \in DOMAIN s
      <4>1. PICK j \in DOMAIN s : j < i /\ s[j].kind = "config"
        BY <2>1, <2>2, <3>2 DEF ConfigFirst
      <4> QED
        BY <2>1, <4>1, SMT
    <3> QED
      BY <2>1, <3>1, <3>2, SMT
  <2> QED
    BY <2>2 DEF ConfigFirst, t
<1>2. ASSUME s # <<>>, Head(s).kind # "config"
      PROVE  Head(s).kind # "connected" /\ ConfigFirst(Tail(s))
  <2> DEFINE t == Tail(s)
  <2>1. /\ 1 \in DOMAIN s /\ Head(s) = s[1]
        /\ \A i \in DOMAIN t : i + 1 \in DOMAIN s /\ t[i] = s[i + 1]
        /\ \A j \in DOMAIN s : j = 1 \/ (j - 1 \in DOMAIN t /\ s[j] = t[j - 1])
        /\ \A j \in DOMAIN s : ~(j < 1)
        /\ \A i \in DOMAIN t, j \in DOMAIN s : j < i + 1 => j - 1 < i
    BY <1>2, SMT
  <2> HIDE DEF t
  <2>2. s[1].kind # "connected"
    BY <2>1 DEF ConfigFirst
  <2>3. ASSUME NEW i \in DOMAIN t, t[i].kind = "connected"
        PROVE  \E j \in DOMAIN t : j < i /\ t[j].kind = "config"
    <3>1. PICK j \in DOMAIN s : j < i + 1 /\ s[j].kind = "config"
      BY <2>1, <2>3 DEF ConfigFirst
    <3>2. j # 1
      BY <1>2, <2>1, <3>1
    <3> QED
      BY <2>1, <3>1, <3>2
  <2> QED
    BY <2>1, <2>2, <2>3 DEF ConfigFirst, t
<1> QED
  BY <1>1, <1>2 DEF Pushed

\* An event moves from the queue to the window's channel.
LEMMA ReadStream ==
    ASSUME NEW S, NEW q \in Seq(S), q # <<>>, NEW R, NEW s \in Seq(R), NEW t,
           Head(q) \in R, Pushed(s, t, Head(q)),
           NEW W, NEW G \in SUBSET W, Told(q, s, W, G)
    PROVE  Told(Tail(q), t, W, G) /\ (Quiet(Tail(q), t, W) => Quiet(q, s, W))
<1>1. /\ LastIn(q, W, G) => LastIn(Tail(q), W, G)
      /\ Silent(q, W) <=> Head(q) \notin W /\ Silent(Tail(q), W)
      /\ LastIn(q, W, G) /\ Silent(Tail(q), W) /\ Head(q) \in W => Head(q) \in G
  BY TailStream
<1>2. /\ Head(q) \in G => LastIn(t, W, G)
      /\ Head(q) \in W => ~Silent(t, W)
      /\ Head(q) \notin W => /\ LastIn(s, W, G) => LastIn(t, W, G)
                             /\ Silent(t, W) <=> Silent(s, W)
  BY PushStream
<1> QED
  BY <1>1, <1>2 DEF Told, Quiet

\* An event that does not write leaves the queue.
LEMMA SkipStream ==
    ASSUME NEW S, NEW q \in Seq(S), q # <<>>, NEW s, NEW W, NEW G \in SUBSET W,
           Head(q) \notin W
    PROVE  /\ Told(q, s, W, G) => Told(Tail(q), s, W, G)
           /\ Quiet(Tail(q), s, W) => Quiet(q, s, W)
<1>1. /\ LastIn(q, W, G) => LastIn(Tail(q), W, G)
      /\ Silent(q, W) <=> Head(q) \notin W /\ Silent(Tail(q), W)
  BY TailStream
<1> QED
  BY <1>1 DEF Told, Quiet

\* The daemon tells its subscriber.
LEMMA TellStream ==
    ASSUME NEW S, NEW q \in Seq(S), NEW e \in S, NEW s, NEW W, NEW G \in SUBSET W
    PROVE  /\ e \in G => Told(Append(q, e), s, W, G) /\ ~Quiet(Append(q, e), s, W)
           /\ e \notin W => /\ LastIn(q, W, G) => LastIn(Append(q, e), W, G)
                            /\ Told(q, s, W, G) => Told(Append(q, e), s, W, G)
                            /\ Quiet(Append(q, e), s, W) => Quiet(q, s, W)
<1>1. /\ e \in G => LastIn(Append(q, e), W, G)
      /\ e \in W => ~Silent(Append(q, e), W)
      /\ e \notin W => /\ LastIn(q, W, G) => LastIn(Append(q, e), W, G)
                       /\ Silent(Append(q, e), W) <=> Silent(q, W)
  BY AppendStream
<1> QED
  BY <1>1 DEF Told, Quiet

\* A thread sends to the window, past what is in the queue.
LEMMA SendStream ==
    ASSUME NEW S, NEW s \in Seq(S), NEW t, NEW u \in S, Pushed(s, t, u), NEW q,
           NEW W, NEW G \in SUBSET W
    PROVE  /\ u \in G /\ LastIn(q, W, G) => Told(q, t, W, G) /\ ~Quiet(q, t, W)
           /\ u \notin W => /\ Told(q, s, W, G) => Told(q, t, W, G)
                            /\ Quiet(q, t, W) => Quiet(q, s, W)
<1>1. /\ u \in G => LastIn(t, W, G)
      /\ u \in W => ~Silent(t, W)
      /\ u \notin W => /\ LastIn(s, W, G) => LastIn(t, W, G)
                       /\ Silent(t, W) <=> Silent(s, W)
  BY PushStream
<1> QED
  BY <1>1 DEF Told, Quiet

\* The window applies an update.
LEMMA DrainStream ==
    ASSUME NEW S, NEW s \in Seq(S), s # <<>>, NEW q, NEW W, NEW G \in SUBSET W,
           Told(q, s, W, G)
    PROVE  /\ Told(q, Tail(s), W, G)
           /\ Quiet(q, Tail(s), W) => /\ Head(s) \in W => Head(s) \in G
                                      /\ Head(s) \notin W => Quiet(q, s, W)
<1>1. /\ LastIn(s, W, G) => LastIn(Tail(s), W, G)
      /\ Silent(s, W) <=> Head(s) \notin W /\ Silent(Tail(s), W)
      /\ LastIn(s, W, G) /\ Silent(Tail(s), W) /\ Head(s) \in W => Head(s) \in G
  BY TailStream
<1> QED
  BY <1>1 DEF Told, Quiet

-----------------------------------------------------------------------------
(* Lemmas about the messages and the view. *)

\* What an update carries.
LEMMA UpdateFacts ==
    ASSUME NEW u \in Updates
    PROVE  /\ u.kind = "config" => u.config \in Configs
           /\ u.kind \in {"status", "state"} => u.state \in States
           /\ u.kind = "trusted" => u.peers \in SUBSET Peers
           /\ u.kind \in {"proposed", "failed", "completed", "revoked"} => u.peer \in Peers
           /\ u.kind \in {"connected", "disconnected", "launching", "config", "status",
                          "state", "trusted", "proposed", "failed", "completed", "revoked"}
BY SMT DEF Updates

\* What an event carries; all but the config event are passed on as they are.
LEMMA EventFacts ==
    ASSUME NEW e \in Events
    PROVE  /\ e.kind # "config" => e \in Updates
           /\ e.kind \in {"config", "state", "proposed", "failed", "completed", "revoked"}
           /\ e.kind = "state" => e.state \in States
           /\ e.kind \in {"proposed", "failed", "completed", "revoked"} => e.peer \in Peers
BY SMT DEF Events, Updates

\* What a command carries.
LEMMA CommandFacts ==
    ASSUME NEW c \in Commands
    PROVE  /\ c.kind = "set_config" => c.config \in Configs
           /\ c.kind = "set_audio" => c.audio \in BOOLEAN
           /\ c.kind = "core" => c.state \in States
           /\ c.kind = "revoke" => c.peer \in Peers
BY SMT DEF Commands

\* The true writes are writes.
LEMMA TruthsAreWrites ==
    /\ LinkTruth \in SUBSET LinkWrites
    /\ \A c : ConfigTruth(c) \in SUBSET ConfigWrites
    /\ \A s : StateTruth(s) \in SUBSET StateWrites
    /\ \A p, t : TrustTruth(p, t) \in SUBSET TrustWrites(p)
    /\ \A p, t : DialogTruth(p, t) \in SUBSET DialogWrites(p)
BY DEF LinkTruth, ConfigTruth, StateTruth, TrustTruth, DialogTruth

\* Push, while the window is open and after.
LEMMA PushFacts ==
    ASSUME TypeInv, NEW u \in Updates, Push(u)
    PROVE  /\ updates' \in Seq(Updates)
           /\ Open => Pushed(updates, updates', u)
           /\ ~Open => updates' = updates
<1>1. updates \in Seq(Updates)
  BY DEF TypeInv
<1>2. CASE ~Open
  BY <1>1, <1>2 DEF Push
<1>3. CASE Open /\ updates # <<>> /\ u = updates[Len(updates)]
  <2>1. updates' = updates
    BY <1>3 DEF Push
  <2>2. Len(updates) > 0
    BY <1>1, <1>3, SMT
  <2> QED
    BY <1>1, <1>3, <2>1, <2>2 DEF Pushed
<1>4. CASE Open /\ updates' = Append(updates, u)
  <2>1. updates' \in Seq(Updates)
    BY <1>1, <1>4, SMT
  <2> QED
    BY <2>1, <1>4 DEF Pushed
<1> QED
  BY <1>2, <1>3, <1>4 DEF Push

\* Broadcast: a subscriber gets the event or loses its connection.
LEMMA BroadcastFacts ==
    ASSUME sub \in Subs, NEW ev \in Events, Broadcast(ev)
    PROVE  /\ sub' \in Subs
           /\ sub'.open => sub.open /\ sub'.queue = Append(sub.queue, ev)
<1>1. CASE sub.open /\ sub' = [sub EXCEPT !.queue = Append(@, ev)]
  <2>1. Append(sub.queue, ev) \in Seq(Events)
    BY SMT DEF Subs
  <2> QED
    BY <1>1, <2>1 DEF Subs
<1>2. CASE \E k \in 0..EventsCap :
              /\ Len(sub.queue) = EventsCap
              /\ sub' = [sub EXCEPT !.queue = SubSeq(@, 1, k), !.open = FALSE]
  <2>1. PICK k \in 0..EventsCap :
              /\ Len(sub.queue) = EventsCap
              /\ sub' = [sub EXCEPT !.queue = SubSeq(@, 1, k), !.open = FALSE]
    BY <1>2
  <2>2. sub.queue \in Seq(Events)
    BY SMT DEF Subs
  <2>3. SubSeq(sub.queue, 1, k) \in Seq(Events)
    BY <2>1, <2>2, SMT
  <2> QED
    BY <2>1, <2>3 DEF Subs
<1>3. CASE ~sub.open /\ sub' = sub
  BY <1>3
<1> QED
  BY <1>1, <1>2, <1>3 DEF Broadcast

\* Hangup closes the subscriber's connection.
LEMMA HangupFacts ==
    ASSUME sub \in Subs, Hangup
    PROVE  sub' \in Subs /\ ~sub'.open
<1>1. PICK k \in 0..Len(sub.queue) :
        sub' = [open |-> FALSE, snapshot |-> FALSE, queue |-> SubSeq(sub.queue, 1, k)]
  BY DEF Hangup
<1>2. sub.queue \in Seq(Events)
  BY SMT DEF Subs
<1>3. SubSeq(sub.queue, 1, k) \in Seq(Events)
  BY <1>1, <1>2, SMT
<1> QED
  BY <1>1, <1>3, SMT DEF Subs

\* One arm of drain_ipc writes its own part of the view and nothing else.
LEMMA ApplyFacts ==
    ASSUME NEW v \in Views, NEW u \in Updates, NEW w, w = ApplyUpdate(v, u)
    PROVE  /\ w \in Views
           /\ u \in LinkWrites => (w.connected <=> u.kind = "connected")
           /\ u \notin LinkWrites => w.connected = v.connected
           /\ u \in StateWrites => w.state = u.state
           /\ u \notin StateWrites => w.state = v.state
           /\ u.kind # "config" => /\ w.config = v.config /\ w.dirty = v.dirty
                                   /\ w.pending = v.pending /\ w.based = v.based
           /\ u.kind = "config" => w = ApplyConfig(v, u.config)
           /\ \A p : /\ u \in TrustWrites(p) => (p \in w.trusted <=> Trusts(u, p))
                     /\ u \notin TrustWrites(p) => (p \in w.trusted <=> p \in v.trusted)
                     /\ u \in DialogWrites(p) => (p \in w.dialogs <=> u.kind = "proposed")
                     /\ u \notin DialogWrites(p) => (p \in w.dialogs <=> p \in v.dialogs)
<1> DEFINE KeepConfig == /\ w.config = v.config /\ w.dirty = v.dirty
                         /\ w.pending = v.pending /\ w.based = v.based
<1>a. /\ u \in LinkWrites <=> u.kind \in {"connected", "disconnected", "launching"}
      /\ u \in StateWrites <=> u.kind \in {"status", "state"}
  BY DEF LinkWrites, StateWrites
<1>b. \A p : /\ u \in TrustWrites(p) <=>
                   u.kind = "trusted" \/ (u.kind \in {"revoked", "completed"} /\ u.peer = p)
             /\ u \in DialogWrites(p) <=>
                   \/ u.kind = "disconnected"
                   \/ u.kind \in {"proposed", "failed", "completed"} /\ u.peer = p
  BY DEF TrustWrites, DialogWrites
<1>1. CASE u.kind = "connected"
  <2>1. w = [v EXCEPT !.connected = TRUE]
    BY <1>1, SMT DEF ApplyUpdate
  <2>2. w \in Views
    BY <1>1, <2>1, UpdateFacts DEF Views
  <2>3. /\ w.connected = TRUE /\ w.state = v.state
        /\ w.trusted = v.trusted /\ w.dialogs = v.dialogs
    BY <2>1 DEF Views
  <2>4. KeepConfig
    BY <2>1 DEF Views
  <2> QED
    BY <1>a, <1>b, <1>1, <2>2, <2>3, <2>4 DEF Trusts
<1>2. CASE u.kind = "disconnected"
  <2>1. w = [v EXCEPT !.connected = FALSE, !.dialogs = {}, !.listed = FALSE]
    BY <1>2, SMT DEF ApplyUpdate, GoOffline
  <2>2. w \in Views
    BY <1>2, <2>1, UpdateFacts DEF Views
  <2>3. /\ w.connected = FALSE /\ w.state = v.state
        /\ w.trusted = v.trusted /\ w.dialogs = {}
    BY <2>1 DEF Views
  <2>4. KeepConfig
    BY <2>1 DEF Views
  <2> QED
    BY <1>a, <1>b, <1>2, <2>2, <2>3, <2>4 DEF Trusts
<1>3. CASE u.kind = "launching"
  <2>1. w = [v EXCEPT !.connected = FALSE]
    BY <1>3, SMT DEF ApplyUpdate
  <2>2. w \in Views
    BY <1>3, <2>1, UpdateFacts DEF Views
  <2>3. /\ w.connected = FALSE /\ w.state = v.state
        /\ w.trusted = v.trusted /\ w.dialogs = v.dialogs
    BY <2>1 DEF Views
  <2>4. KeepConfig
    BY <2>1 DEF Views
  <2> QED
    BY <1>a, <1>b, <1>3, <2>2, <2>3, <2>4 DEF Trusts
<1>4. CASE u.kind \in {"status", "state"}
  <2>1. w = [v EXCEPT !.state = u.state]
    BY <1>4, SMT DEF ApplyUpdate
  <2>2. w \in Views
    BY <1>4, <2>1, UpdateFacts DEF Views
  <2>3. /\ w.connected = v.connected /\ w.state = u.state
        /\ w.trusted = v.trusted /\ w.dialogs = v.dialogs
    BY <2>1 DEF Views
  <2>4. KeepConfig
    BY <2>1 DEF Views
  <2> QED
    BY <1>a, <1>b, <1>4, <2>2, <2>3, <2>4 DEF Trusts
<1>5. CASE u.kind = "trusted"
  <2>1. w = [v EXCEPT !.trusted = u.peers, !.listed = TRUE]
    BY <1>5, SMT DEF ApplyUpdate
  <2>2. w \in Views
    BY <1>5, <2>1, UpdateFacts DEF Views
  <2>3. /\ w.connected = v.connected /\ w.state = v.state
        /\ w.trusted = u.peers /\ w.dialogs = v.dialogs
    BY <2>1 DEF Views
  <2>4. KeepConfig
    BY <2>1 DEF Views
  <2> QED
    BY <1>a, <1>b, <1>5, <2>2, <2>3, <2>4 DEF Trusts
<1>6. CASE u.kind = "revoked"
  <2>1. w = [v EXCEPT !.trusted = @ \ {u.peer}]
    BY <1>6, SMT DEF ApplyUpdate
  <2>2. w \in Views
    BY <1>6, <2>1, UpdateFacts DEF Views
  <2>3. /\ w.connected = v.connected /\ w.state = v.state
        /\ w.trusted = v.trusted \ {u.peer} /\ w.dialogs = v.dialogs
    BY <2>1 DEF Views
  <2>4. KeepConfig
    BY <2>1 DEF Views
  <2> QED
    BY <1>a, <1>b, <1>6, <2>2, <2>3, <2>4 DEF Trusts
<1>7. CASE u.kind = "proposed"
  <2>1. w = [v EXCEPT !.dialogs = @ \cup {u.peer}]
    BY <1>7, SMT DEF ApplyUpdate
  <2>2. w \in Views
    <3>1. v.dialogs \cup {u.peer} \in SUBSET Peers
      BY <1>7, UpdateFacts DEF Views
    <3> QED
      BY <2>1, <3>1 DEF Views
  <2>3. /\ w.connected = v.connected /\ w.state = v.state
        /\ w.trusted = v.trusted /\ w.dialogs = v.dialogs \cup {u.peer}
    BY <2>1 DEF Views
  <2>4. KeepConfig
    BY <2>1 DEF Views
  <2> QED
    BY <1>a, <1>b, <1>7, <2>2, <2>3, <2>4 DEF Trusts
<1>8. CASE u.kind = "failed"
  <2>1. w = [v EXCEPT !.dialogs = @ \ {u.peer}]
    BY <1>8, SMT DEF ApplyUpdate
  <2>2. w \in Views
    BY <1>8, <2>1, UpdateFacts DEF Views
  <2>3. /\ w.connected = v.connected /\ w.state = v.state
        /\ w.trusted = v.trusted /\ w.dialogs = v.dialogs \ {u.peer}
    BY <2>1 DEF Views
  <2>4. KeepConfig
    BY <2>1 DEF Views
  <2> QED
    BY <1>a, <1>b, <1>8, <2>2, <2>3, <2>4 DEF Trusts
<1>9. CASE u.kind = "completed"
  <2>1. w = [v EXCEPT !.dialogs = @ \ {u.peer}, !.trusted = @ \cup {u.peer},
                      !.reconcile = TRUE]
    BY <1>9, SMT DEF ApplyUpdate
  <2>2. w \in Views
    <3>1. v.trusted \cup {u.peer} \in SUBSET Peers
      BY <1>9, UpdateFacts DEF Views
    <3> QED
      BY <2>1, <3>1 DEF Views
  <2>3. /\ w.connected = v.connected /\ w.state = v.state
        /\ w.trusted = v.trusted \cup {u.peer} /\ w.dialogs = v.dialogs \ {u.peer}
    BY <2>1 DEF Views
  <2>4. KeepConfig
    BY <2>1 DEF Views
  <2> QED
    BY <1>a, <1>b, <1>9, <2>2, <2>3, <2>4 DEF Trusts
<1>10. CASE u.kind = "config"
  <2>1. w = ApplyConfig(v, u.config)
    BY <1>10, SMT DEF ApplyUpdate
  <2>2. /\ w \in Views /\ w.connected = v.connected /\ w.state = v.state
        /\ w.trusted = v.trusted /\ w.dialogs = v.dialogs
    <3>1. CASE v.dirty
      <4>1. w = [v EXCEPT !.pending = u.config]
        BY <2>1, <3>1 DEF ApplyConfig
      <4> QED
        BY <1>10, <4>1, UpdateFacts DEF Views
    <3>2. CASE ~v.dirty
      <4>1. w = [v EXCEPT !.config = u.config, !.pending = None, !.based = TRUE]
        BY <2>1, <3>2 DEF ApplyConfig
      <4> QED
        BY <1>10, <4>1, UpdateFacts DEF Views
    <3> QED
      BY <3>1, <3>2
  <2> QED
    BY <1>a, <1>b, <1>10, <2>1, <2>2
<1> QED
  BY <1>1, <1>2, <1>3, <1>4, <1>5, <1>6, <1>7, <1>8, <1>9, <1>10, UpdateFacts

-----------------------------------------------------------------------------
(* The shapes of steps. *)

\* A click, a frame, a command without an effect: only the window's own part of
\* the view may change, and dialogs may close.
WindowStep ==
    /\ UNCHANGED <<config, state, trusted, proposals, sub, thread, updates>>
    /\ up => up'
    /\ Open' <=> Open
    /\ view' \in Views /\ view'.connected = view.connected /\ view'.state = view.state
    /\ view'.trusted = view.trusted /\ view'.dialogs \subseteq view.dialogs
    /\ commands' \in Seq(Commands) /\ reply' \in Replies \cup {None}
    /\ "state" \in stale /\ "state" \notin stale' => updates = <<>> /\ view'.state = state

\* The daemon changes and tells its subscriber.
DaemonStep(ev) ==
    /\ UNCHANGED <<up, thread, updates, view, reply, window>>
    /\ sub' \in Subs /\ (sub'.open => sub.open /\ sub'.queue = Append(sub.queue, ev))
    /\ config' \in Configs /\ state' \in States
    /\ trusted' \in SUBSET Peers /\ proposals' \in SUBSET Peers
    /\ commands' \in Seq(Commands)
    /\ stale \subseteq stale'
    /\ ev \in StateTruth(state') \/ (ev \notin StateWrites /\ state' = state)
    /\ \A p \in Peers :
         /\ \/ ev \in TrustTruth(p, trusted')
            \/ ev \notin TrustWrites(p) /\ (p \in trusted' <=> p \in trusted)
         /\ \/ ev \in DialogTruth(p, proposals')
            \/ ev \notin DialogWrites(p) /\ (p \in proposals' <=> p \in proposals)

\* Edits of the buffer are configs.
LEMMA EditFacts ==
    ASSUME NEW v \in Views
    PROVE  /\ \A e \in UserEdits : [v.config EXCEPT !.edit = e] \in Configs
           /\ \A a \in BOOLEAN : [v.config EXCEPT !.audio = a] \in Configs
<1>1. v.config \in Configs
  BY DEF Views
<1> QED
  BY <1>1 DEF Configs

\* Sent commands are commands.
LEMMA SendFacts ==
    ASSUME TypeInv, NEW c \in Commands, Send(c)
    PROVE  commands' \in Seq(Commands)
BY SMT DEF TypeInv, Send

\* A click leaves the daemon, the streams and what is shown of them alone.
LEMMA ClickSteps ==
    ASSUME TypeInv,
           \/ \E e \in UserEdits : Edit(e) \/ ToggleAutostart(e) \/ UseAsServer(e)
           \/ \E a \in BOOLEAN : EditAudio(a)
           \/ Apply \/ Revert \/ Start \/ Stop \/ Restart
           \/ \E p \in Peers : RevokeTrust(p) \/ Decide(p)
    PROVE  WindowStep /\ UNCHANGED <<up, reply, window>> /\ stale \subseteq stale'
<1> DEFINE Kept == /\ view' \in Views /\ view'.connected = view.connected
                   /\ view'.state = view.state /\ view'.trusted = view.trusted
                   /\ view'.dialogs \subseteq view.dialogs
           Calm == /\ UNCHANGED <<up, config, state, trusted, proposals, sub, thread, reply,
                                  updates, window>>
                   /\ stale \subseteq stale'
<1>a. /\ view \in Views /\ reply \in Replies \cup {None} /\ commands \in Seq(Commands)
      /\ view.config \in Configs
  BY DEF TypeInv, Views
<1>b. SUFFICES Kept /\ Calm /\ commands' \in Seq(Commands)
  BY <1>a DEF WindowStep, Open
<1>c. ASSUME UNCHANGED view PROVE Kept
  BY <1>a, <1>c
<1>d. \A c \in Configs, k, b \in BOOLEAN : SetConfig(c, k, b) \in Commands
  BY DEF SetConfig, Commands
<1>e. \A s \in States : [kind |-> "core", state |-> s] \in Commands
  BY DEF Commands
<1>1. ASSUME NEW e \in UserEdits, Edit(e) PROVE Kept /\ Calm /\ commands' \in Seq(Commands)
  <2>1. view' = [view EXCEPT !.config = [view.config EXCEPT !.edit = e], !.dirty = TRUE]
    BY <1>1, <1>a DEF Edit, Views
  <2>2. Kept
    BY <1>a, <2>1, EditFacts DEF Views
  <2> QED
    BY <1>a, <1>1, <2>2 DEF Edit, daemon, threads
<1>2. ASSUME NEW e \in UserEdits, ToggleAutostart(e)
      PROVE  Kept /\ Calm /\ commands' \in Seq(Commands)
  <2>1. view' = [view EXCEPT !.config = [view.config EXCEPT !.edit = e], !.dirty = TRUE]
    BY <1>2, <1>a DEF ToggleAutostart, Views
  <2>2. Kept
    BY <1>a, <2>1, EditFacts DEF Views
  <2> QED
    BY <1>a, <1>2, <2>2 DEF ToggleAutostart, Click, daemon, threads
<1>3. ASSUME NEW e \in UserEdits, UseAsServer(e)
      PROVE  Kept /\ Calm /\ commands' \in Seq(Commands)
  <2> DEFINE c == [view.config EXCEPT !.edit = e]
  <2>1. /\ view' = [view EXCEPT !.config = c, !.dirty = FALSE, !.pending = None,
                                !.based = TRUE]
        /\ commands' = commands \o <<SetConfig(c, TRUE, view.based),
                                     [kind |-> "core", state |-> "running"]>>
    BY <1>3 DEF UseAsServer
  <2>2. c \in Configs
    BY <1>a, EditFacts
  <2> HIDE DEF c
  <2>3. Kept
    BY <1>a, <2>1, <2>2 DEF Views
  <2>4. SetConfig(c, TRUE, view.based) \in Commands
    BY <1>a, <1>d, <2>2 DEF Views
  <2>5. [kind |-> "core", state |-> "running"] \in Commands
    BY <1>e DEF States
  <2>6. \A x, y \in Commands : commands \o <<x, y>> \in Seq(Commands)
    BY <1>a, SMT
  <2>7. commands' \in Seq(Commands)
    BY <2>1, <2>4, <2>5, <2>6
  <2> QED
    BY <1>3, <2>3, <2>7 DEF UseAsServer, Click, daemon, threads
<1>4. ASSUME Apply PROVE Kept /\ Calm /\ commands' \in Seq(Commands)
  <2>1. view' = [view EXCEPT !.dirty = FALSE, !.pending = None, !.based = TRUE]
    BY <1>4 DEF Apply
  <2>2. Kept
    BY <1>a, <2>1 DEF Views
  <2>3. SetConfig(view.config, TRUE, view.based) \in Commands
    BY <1>a, <1>d DEF Views
  <2>4. commands' \in Seq(Commands)
    BY <1>4, <2>3, SendFacts DEF Apply
  <2> QED
    BY <1>4, <2>2, <2>4 DEF Apply, Click, daemon, threads
<1>5. ASSUME Revert PROVE Kept /\ Calm /\ commands' \in Seq(Commands)
  <2>1. CASE view.pending # None
    <3>1. view' = [view EXCEPT !.dirty = FALSE, !.pending = None, !.based = TRUE,
                               !.config = view.pending]
      BY <1>5, <2>1 DEF Revert
    <3>2. view.pending \in Configs
      BY <1>a, <2>1 DEF Views
    <3>3. Kept
      BY <1>a, <3>1, <3>2 DEF Views
    <3> QED
      BY <1>a, <1>5, <2>1, <3>3 DEF Revert, Click, daemon, threads
  <2>2. CASE view.pending = None
    <3>1. view' = [view EXCEPT !.dirty = FALSE]
      BY <1>5, <2>2 DEF Revert
    <3>2. Kept
      BY <1>a, <3>1 DEF Views
    <3>3. [kind |-> "refresh"] \in Commands
      BY SMT DEF Commands
    <3>4. commands' \in Seq(Commands)
      BY <1>5, <2>2, <3>3, SendFacts DEF Revert
    <3> QED
      BY <1>5, <2>2, <3>2, <3>4 DEF Revert, Click, daemon, threads
  <2> QED
    BY <2>1, <2>2
<1>6. ASSUME Start \/ Stop \/ Restart PROVE Kept /\ Calm /\ commands' \in Seq(Commands)
  <2>1. PICK s \in States : Send([kind |-> "core", state |-> s])
    BY <1>6 DEF Start, Stop, Restart, States
  <2>2. commands' \in Seq(Commands)
    BY <1>e, <2>1, SendFacts
  <2> QED
    BY <1>c, <1>6, <2>2 DEF Start, Stop, Restart, Click, daemon, threads
<1>7. ASSUME NEW p \in Peers, RevokeTrust(p) PROVE Kept /\ Calm /\ commands' \in Seq(Commands)
  <2>1. [kind |-> "revoke", peer |-> p] \in Commands
    BY DEF Commands
  <2>2. commands' \in Seq(Commands)
    BY <1>7, <2>1, SendFacts DEF RevokeTrust
  <2> QED
    BY <1>c, <1>7, <2>2 DEF RevokeTrust, Click, daemon, threads
<1>8. ASSUME NEW p \in Peers, Decide(p) PROVE Kept /\ Calm /\ commands' \in Seq(Commands)
  <2>1. view' = [view EXCEPT !.dialogs = @ \ {p}]
    BY <1>8 DEF Decide
  <2>2. Kept
    BY <1>a, <2>1 DEF Views
  <2> QED
    BY <1>a, <1>8, <2>2 DEF Decide, Click, daemon, threads
<1>9. ASSUME NEW a \in BOOLEAN, EditAudio(a) PROVE Kept /\ Calm /\ commands' \in Seq(Commands)
  <2>1. view' = [view EXCEPT !.config = [view.config EXCEPT !.audio = a]]
    BY <1>9, <1>a DEF EditAudio, Views
  <2>2. Kept
    BY <1>a, <2>1, EditFacts DEF Views
  <2>3. [kind |-> "set_audio", audio |-> a] \in Commands
    BY DEF Commands
  <2>4. commands' \in Seq(Commands)
    BY <1>9, <2>3, SendFacts DEF EditAudio
  <2> QED
    BY <1>9, <2>2, <2>4 DEF EditAudio, Click, daemon, threads
<1> QED
  BY <1>1, <1>2, <1>3, <1>4, <1>5, <1>6, <1>7, <1>8, <1>9

\* A frame pushes at most one layout, with the banner down.
LEMMA FrameSteps ==
    ASSUME TypeInv, NEW due \in BOOLEAN, Frame(due)
    PROVE  /\ WindowStep /\ UNCHANGED <<up, reply>> /\ updates = <<>>
           /\ view'.pending = view.pending /\ view'.based = view.based
           /\ \/ /\ view'.config = view.config /\ view'.dirty = view.dirty
                 /\ commands' = commands
              \/ /\ view.connected /\ view.pending = None /\ view'.dirty = FALSE
                 /\ commands' = Append(commands, SetConfig(view'.config, FALSE, view.based))
           /\ "config" \in stale /\ "config" \notin stale' =>
                ~view'.dirty /\ view'.config = config
<1> DEFINE v == IF due THEN [view EXCEPT !.reconcile = FALSE] ELSE view
           push == due /\ MayReconcile(v) /\ Structured(v) # v.config
<1>1. /\ view' = IF push THEN [v EXCEPT !.config = Structured(v), !.dirty = FALSE] ELSE v
      /\ commands' = IF push THEN Append(commands, SetConfig(Structured(v), FALSE, v.based))
                     ELSE commands
      /\ stale' = Refreshed(stale, view', commands')
      /\ Open /\ updates = <<>> /\ window' = "open"
      /\ UNCHANGED <<up, config, state, trusted, proposals, sub, thread, reply, updates>>
  BY DEF Frame, daemon, threads
<1>2. view \in Views /\ commands \in Seq(Commands) /\ reply \in Replies \cup {None}
  BY DEF TypeInv
<1>3. /\ v \in Views /\ v.connected = view.connected /\ v.state = view.state
      /\ v.trusted = view.trusted /\ v.dialogs = view.dialogs /\ v.config = view.config
      /\ v.dirty = view.dirty /\ v.pending = view.pending /\ v.based = view.based
  <2>1. CASE due
    BY <1>2, <2>1 DEF Views
  <2>2. CASE ~due
    BY <1>2, <2>2
  <2> QED
    BY <2>1, <2>2
<1>4. Structured(v) \in Configs
  <2>1. v.config \in Configs /\ v.trusted \in SUBSET Peers
    BY <1>3 DEF Views
  <2>2. v.config.screens \cup v.trusted \in SUBSET Peers
    BY <2>1 DEF Configs
  <2> QED
    BY <2>1, <2>2 DEF Structured, Configs
<1>5. /\ "state" \in stale /\ "state" \notin stale' => view'.state = state
      /\ "config" \in stale /\ "config" \notin stale' => ~view'.dirty /\ view'.config = config
  <2>1. stale' = {k \in stale :
                    CASE k = "config" -> view'.dirty \/ view'.config # config \/ commands' # <<>>
                      [] k = "state" -> view'.state # state}
    BY <1>1 DEF Refreshed
  <2> QED
    BY <2>1, SMT
<1>6. Open'
  BY <1>1 DEF Open
<1>7. CASE push
  <2> HIDE DEF v
  <2>1. /\ view' = [v EXCEPT !.config = Structured(v), !.dirty = FALSE]
        /\ commands' = Append(commands, SetConfig(Structured(v), FALSE, v.based))
        /\ MayReconcile(v)
    BY <1>1, <1>7
  <2>2. /\ view' \in Views /\ view'.connected = v.connected /\ view'.state = v.state
        /\ view'.trusted = v.trusted /\ view'.dialogs = v.dialogs
        /\ view'.pending = v.pending /\ view'.based = v.based
        /\ view'.config = Structured(v) /\ view'.dirty = FALSE
    BY <1>3, <1>4, <2>1 DEF Views
  <2>3. SetConfig(Structured(v), FALSE, v.based) \in Commands
    <3>1. v.based \in BOOLEAN
      BY <1>3 DEF Views
    <3> QED
      BY <1>4, <3>1 DEF SetConfig, Commands
  <2>4. \A c \in Commands : Append(commands, c) \in Seq(Commands)
    BY <1>2, SMT
  <2>5. commands' \in Seq(Commands)
    BY <2>1, <2>3, <2>4
  <2>6. view.connected /\ view.pending = None
    BY <1>3, <2>1 DEF MayReconcile
  <2> QED
    BY <1>1, <1>2, <1>3, <1>5, <1>6, <2>1, <2>2, <2>5, <2>6 DEF WindowStep
<1>8. CASE ~push
  <2> HIDE DEF v
  <2>1. view' = v /\ commands' = commands
    BY <1>1, <1>8
  <2> QED
    BY <1>1, <1>2, <1>3, <1>5, <1>6, <2>1 DEF WindowStep
<1> QED
  BY <1>7, <1>8

\* Steps that reach neither the streams nor the view.
LEMMA QuietSteps ==
    ASSUME TypeInv, Boot \/ BootFails \/ Exit \/ DispatchFails
    PROVE  /\ WindowStep /\ UNCHANGED <<view, reply>>
           /\ stale \subseteq stale'
           /\ commands' = commands \/ DispatchFails
<1>1. view \in Views /\ commands \in Seq(Commands) /\ reply \in Replies \cup {None}
  BY DEF TypeInv
<1>2. CASE Boot
  BY <1>1, <1>2 DEF Boot, WindowStep, Open, threads
<1>3. CASE BootFails
  BY <1>1, <1>3 DEF BootFails, WindowStep, Open, threads
<1>4. CASE Exit
  BY <1>1, <1>4 DEF Exit, WindowStep, Open, daemon, threads
<1>5. CASE DispatchFails
  <2>1. commands # <<>> /\ commands' = Tail(commands)
    BY <1>5 DEF DispatchFails
  <2>2. commands' \in Seq(Commands)
    BY <1>1, <2>1, SMT
  <2>3. stale \subseteq stale'
    BY <1>5 DEF DispatchFails
  <2> QED
    BY <1>1, <1>5, <2>2, <2>3 DEF DispatchFails, CommandThread, WindowStep, Open
<1> QED
  BY <1>2, <1>3, <1>4, <1>5

\* Which events write which part of the view.
LEMMA EventWrites ==
    ASSUME NEW ev \in Events
    PROVE  /\ ev.kind # "state" => ev \notin StateWrites
           /\ ev.kind = "state" => ev \in StateTruth(ev.state)
           /\ \A p : /\ ev.kind \in {"config", "state", "proposed", "failed"} =>
                          ev \notin TrustWrites(p)
                     /\ ev.kind \in {"completed", "revoked"} /\ ev.peer # p =>
                          ev \notin TrustWrites(p)
                     /\ \A t : /\ ev.kind = "completed" /\ ev.peer = p /\ p \in t =>
                                    ev \in TrustTruth(p, t)
                               /\ ev.kind = "revoked" /\ ev.peer = p /\ p \notin t =>
                                    ev \in TrustTruth(p, t)
                     /\ ev.kind \in {"config", "state", "revoked"} =>
                          ev \notin DialogWrites(p)
                     /\ ev.kind \in {"proposed", "failed", "completed"} /\ ev.peer # p =>
                          ev \notin DialogWrites(p)
                     /\ \A t : /\ ev.kind \in {"failed", "completed"} /\ ev.peer = p =>
                                    ev \in DialogTruth(p, t)
                               /\ ev.kind = "proposed" /\ ev.peer = p /\ p \in t =>
                                    ev \in DialogTruth(p, t)
<1>1. ev.kind # "config" => ev \in Updates
  BY EventFacts
<1>2. /\ ev.kind # "state" => ev \notin StateWrites
      /\ ev.kind = "state" => ev \in StateTruth(ev.state)
  BY <1>1, EventFacts DEF StateWrites, StateTruth
<1>3. \A p : /\ ev.kind \in {"config", "state", "proposed", "failed"} =>
                  ev \notin TrustWrites(p)
             /\ ev.kind \in {"completed", "revoked"} /\ ev.peer # p => ev \notin TrustWrites(p)
  BY DEF TrustWrites
<1>4. \A p, t : /\ ev.kind = "completed" /\ ev.peer = p /\ p \in t => ev \in TrustTruth(p, t)
                /\ ev.kind = "revoked" /\ ev.peer = p /\ p \notin t => ev \in TrustTruth(p, t)
  BY <1>1 DEF TrustWrites, TrustTruth, Trusts
<1>5. \A p : /\ ev.kind \in {"config", "state", "revoked"} => ev \notin DialogWrites(p)
             /\ ev.kind \in {"proposed", "failed", "completed"} /\ ev.peer # p =>
                  ev \notin DialogWrites(p)
  BY DEF DialogWrites
<1>6. \A p, t : /\ ev.kind \in {"failed", "completed"} /\ ev.peer = p => ev \in DialogTruth(p, t)
                /\ ev.kind = "proposed" /\ ev.peer = p /\ p \in t => ev \in DialogTruth(p, t)
  BY <1>1 DEF DialogWrites, DialogTruth
<1> QED
  BY <1>2, <1>3, <1>4, <1>5, <1>6

\* Every change of the daemon is told with an event.
LEMMA DaemonSteps ==
    ASSUME TypeInv,
           \/ \E e \in RemoteEdits : MergeRemote(e)
           \/ \E s \in States : CoreChanges(s)
           \/ \E p \in Peers : Propose(p) \/ PairingCompletes(p) \/ PairingFails(p)
    PROVE  /\ UNCHANGED <<commands, stale>>
           /\ \E ev \in Events : DaemonStep(ev) /\ (ev.kind # "config" => config' = config)
<1>a. /\ commands \in Seq(Commands) /\ sub \in Subs /\ config \in Configs /\ state \in States
      /\ trusted \in SUBSET Peers /\ proposals \in SUBSET Peers
  BY DEF TypeInv
<1>1. ASSUME NEW e \in RemoteEdits, MergeRemote(e)
      PROVE  /\ UNCHANGED <<commands, stale>>
             /\ \E ev \in Events : DaemonStep(ev) /\ (ev.kind # "config" => config' = config)
  <2> DEFINE ev == [kind |-> "config"]
  <2>1. ev \in Events /\ ev.kind = "config"
    BY DEF Events
  <2> HIDE DEF ev
  <2>2. Broadcast(ev)
    BY <1>1 DEF MergeRemote, ev
  <2>3. sub' \in Subs /\ (sub'.open => sub.open /\ sub'.queue = Append(sub.queue, ev))
    BY <1>a, <2>1, <2>2, BroadcastFacts
  <2>4. config' \in Configs
    BY <1>a, <1>1 DEF MergeRemote, Configs
  <2>5. /\ ev \notin StateWrites
        /\ \A p \in Peers : ev \notin TrustWrites(p) /\ ev \notin DialogWrites(p)
    BY <2>1, EventWrites
  <2>6. DaemonStep(ev)
    BY <1>a, <1>1, <2>3, <2>4, <2>5 DEF DaemonStep, MergeRemote, DaemonOnly
  <2> QED
    BY <1>1, <2>1, <2>6 DEF MergeRemote, DaemonOnly
<1>2. ASSUME NEW s \in States, CoreChanges(s)
      PROVE  /\ UNCHANGED <<commands, stale>>
             /\ \E ev \in Events : DaemonStep(ev) /\ (ev.kind # "config" => config' = config)
  <2> DEFINE ev == [kind |-> "state", state |-> s]
  <2>1. ev \in Events /\ ev.kind = "state" /\ ev.state = s
    BY DEF Events
  <2> HIDE DEF ev
  <2>2. Broadcast(ev)
    BY <1>2 DEF CoreChanges, ev
  <2>3. sub' \in Subs /\ (sub'.open => sub.open /\ sub'.queue = Append(sub.queue, ev))
    BY <1>a, <2>1, <2>2, BroadcastFacts
  <2>4. /\ ev \in StateTruth(s)
        /\ \A p \in Peers : ev \notin TrustWrites(p) /\ ev \notin DialogWrites(p)
    BY <2>1, EventWrites
  <2>5. DaemonStep(ev)
    BY <1>a, <1>2, <2>3, <2>4 DEF DaemonStep, CoreChanges, DaemonOnly
  <2> QED
    BY <1>2, <2>1, <2>5 DEF CoreChanges, DaemonOnly
<1>3. ASSUME NEW p \in Peers, Propose(p)
      PROVE  /\ UNCHANGED <<commands, stale>>
             /\ \E ev \in Events : DaemonStep(ev) /\ (ev.kind # "config" => config' = config)
  <2> DEFINE ev == [kind |-> "proposed", peer |-> p]
  <2>1. ev \in Events /\ ev.kind = "proposed" /\ ev.peer = p
    BY DEF Events
  <2> HIDE DEF ev
  <2>2. Broadcast(ev)
    BY <1>3 DEF Propose, ev
  <2>3. sub' \in Subs /\ (sub'.open => sub.open /\ sub'.queue = Append(sub.queue, ev))
    BY <1>a, <2>1, <2>2, BroadcastFacts
  <2>4. proposals' = proposals \cup {p}
    BY <1>3 DEF Propose
  <2>5. /\ ev \notin StateWrites
        /\ \A r \in Peers : /\ ev \notin TrustWrites(r)
                            /\ \/ ev \in DialogTruth(r, proposals')
                               \/ ev \notin DialogWrites(r) /\ (r \in proposals' <=> r \in proposals)
    BY <2>1, <2>4, EventWrites
  <2>6. DaemonStep(ev)
    BY <1>a, <1>3, <2>3, <2>4, <2>5 DEF DaemonStep, Propose, DaemonOnly
  <2> QED
    BY <1>3, <2>1, <2>6 DEF Propose, DaemonOnly
<1>4. ASSUME NEW p \in Peers, PairingCompletes(p)
      PROVE  /\ UNCHANGED <<commands, stale>>
             /\ \E ev \in Events : DaemonStep(ev) /\ (ev.kind # "config" => config' = config)
  <2> DEFINE ev == [kind |-> "completed", peer |-> p]
  <2>1. ev \in Events /\ ev.kind = "completed" /\ ev.peer = p
    BY DEF Events
  <2> HIDE DEF ev
  <2>2. Broadcast(ev)
    BY <1>4 DEF PairingCompletes, ev
  <2>3. sub' \in Subs /\ (sub'.open => sub.open /\ sub'.queue = Append(sub.queue, ev))
    BY <1>a, <2>1, <2>2, BroadcastFacts
  <2>4. proposals' = proposals \ {p} /\ trusted' = trusted \cup {p}
    BY <1>4 DEF PairingCompletes
  <2>5. /\ ev \notin StateWrites
        /\ \A r \in Peers : \/ ev \in DialogTruth(r, proposals')
                            \/ ev \notin DialogWrites(r) /\ (r \in proposals' <=> r \in proposals)
    BY <2>1, <2>4, EventWrites
  <2>6. \A r \in Peers : \/ ev \in TrustTruth(r, trusted')
                         \/ ev \notin TrustWrites(r) /\ (r \in trusted' <=> r \in trusted)
    BY <2>1, <2>4, EventWrites
  <2>7. DaemonStep(ev)
    BY <1>a, <1>4, <2>3, <2>4, <2>5, <2>6 DEF DaemonStep, PairingCompletes, DaemonOnly
  <2> QED
    BY <1>4, <2>1, <2>7 DEF PairingCompletes, DaemonOnly
<1>5. ASSUME NEW p \in Peers, PairingFails(p)
      PROVE  /\ UNCHANGED <<commands, stale>>
             /\ \E ev \in Events : DaemonStep(ev) /\ (ev.kind # "config" => config' = config)
  <2> DEFINE ev == [kind |-> "failed", peer |-> p]
  <2>1. ev \in Events /\ ev.kind = "failed" /\ ev.peer = p
    BY DEF Events
  <2> HIDE DEF ev
  <2>2. Broadcast(ev)
    BY <1>5 DEF PairingFails, ev
  <2>3. sub' \in Subs /\ (sub'.open => sub.open /\ sub'.queue = Append(sub.queue, ev))
    BY <1>a, <2>1, <2>2, BroadcastFacts
  <2>4. proposals' = proposals \ {p}
    BY <1>5 DEF PairingFails
  <2>5. /\ ev \notin StateWrites
        /\ \A r \in Peers : /\ ev \notin TrustWrites(r)
                            /\ \/ ev \in DialogTruth(r, proposals')
                               \/ ev \notin DialogWrites(r) /\ (r \in proposals' <=> r \in proposals)
    BY <2>1, <2>4, EventWrites
  <2>6. DaemonStep(ev)
    BY <1>a, <1>5, <2>3, <2>4, <2>5 DEF DaemonStep, PairingFails, DaemonOnly
  <2> QED
    BY <1>5, <2>1, <2>6 DEF PairingFails, DaemonOnly
<1> QED
  BY <1>1, <1>2, <1>3, <1>4, <1>5

\* A dispatched command changes the daemon, which tells it, or leaves it alone.
LEMMA DispatchSteps ==
    ASSUME TypeInv, Dispatch
    PROVE  /\ commands # <<>> /\ commands' = Tail(commands) /\ UNCHANGED view
           /\ \/ /\ WindowStep /\ stale \subseteq stale'
                 /\ Head(commands).kind \in Writers => "config" \in stale'
              \/ \E ev \in Events :
                   /\ DaemonStep(ev)
                   /\ ev.kind # "config" =>
                        config' = config /\ Head(commands).kind \notin Writers
<1> DEFINE c == Head(commands)
           Plain == /\ WindowStep /\ stale \subseteq stale'
                    /\ c.kind \in Writers => "config" \in stale'
           Tells(ev) == /\ DaemonStep(ev)
                        /\ ev.kind # "config" => config' = config /\ c.kind \notin Writers
<1>a. /\ commands \in Seq(Commands) /\ sub \in Subs /\ config \in Configs /\ state \in States
      /\ trusted \in SUBSET Peers /\ proposals \in SUBSET Peers /\ view \in Views
      /\ reply \in Replies \cup {None}
  BY DEF TypeInv
<1>b. /\ commands # <<>> /\ commands' = Tail(commands)
      /\ UNCHANGED <<up, proposals, updates, thread, view, window>>
      /\ \/ c.kind = "set_config" /\ RunSetConfig(c.config)
         \/ c.kind = "set_audio" /\ RunSetConfig([config EXCEPT !.audio = c.audio])
         \/ c.kind = "core" /\ RunCore(c.state)
         \/ c.kind = "revoke" /\ RunRevoke(c.peer)
         \/ c.kind = "refresh" /\ RunRefresh
  BY DEF Dispatch, CommandThread
<1>c. c \in Commands /\ Tail(commands) \in Seq(Commands)
  BY <1>a, <1>b, SMT
<1>d. /\ c.kind = "set_config" => c.config \in Configs
      /\ c.kind = "set_audio" => [config EXCEPT !.audio = c.audio] \in Configs
      /\ c.kind = "core" => c.state \in States
      /\ c.kind = "revoke" => c.peer \in Peers
  <2>1. \A a \in BOOLEAN : [config EXCEPT !.audio = a] \in Configs
    BY <1>a DEF Configs
  <2> HIDE DEF c
  <2> QED
    BY <1>c, <2>1, CommandFacts
<1> HIDE DEF c
<1>e. ASSUME UNCHANGED <<config, state, trusted, sub>>, reply' \in Replies \cup {None},
             stale \subseteq stale'
      PROVE  WindowStep
  BY <1>a, <1>b, <1>c, <1>e DEF WindowStep, Open
<1>1. ASSUME NEW d \in Configs, RunSetConfig(d)
      PROVE  Plain \/ \E ev \in Events : Tells(ev)
  <2>1. CASE config' = d /\ Broadcast([kind |-> "config"]) /\ UNCHANGED <<stale, faults>>
    <3> DEFINE ev == [kind |-> "config"]
    <3>1. ev \in Events /\ ev.kind = "config"
      BY DEF Events
    <3> HIDE DEF ev
    <3>2. Broadcast(ev)
      BY <2>1 DEF ev
    <3>3. sub' \in Subs /\ (sub'.open => sub.open /\ sub'.queue = Append(sub.queue, ev))
      BY <1>a, <3>1, <3>2, BroadcastFacts
    <3>4. /\ ev \notin StateWrites
          /\ \A p \in Peers : ev \notin TrustWrites(p) /\ ev \notin DialogWrites(p)
      BY <3>1, EventWrites
    <3>5. DaemonStep(ev)
      BY <1>a, <1>b, <1>c, <1>d, <1>1, <2>1, <3>3, <3>4 DEF DaemonStep, RunSetConfig
    <3> QED
      BY <3>1, <3>5
  <2>2. CASE Faulty /\ stale' = stale \cup {"config"} /\ UNCHANGED <<config, sub>>
    <3>1. WindowStep
      BY <1>a, <1>e, <1>1, <2>2 DEF RunSetConfig
    <3> QED
      BY <3>1, <2>2
  <2> QED
    BY <1>1, <2>1, <2>2 DEF RunSetConfig
<1>2. ASSUME c.kind = "core", RunCore(c.state)
      PROVE  Plain \/ \E ev \in Events : Tells(ev)
  <2>1. CASE state = c.state
    <3>1. WindowStep /\ stale' = stale
      BY <1>a, <1>e, <1>2, <2>1 DEF RunCore
    <3> QED
      BY <3>1, <1>2 DEF Writers
  <2>2. CASE state # c.state
    <3> DEFINE ev == [kind |-> "state", state |-> c.state]
    <3>1. ev \in Events /\ ev.kind = "state" /\ ev.state = c.state
      BY <1>d, <1>2 DEF Events
    <3> HIDE DEF ev
    <3>2. Broadcast(ev) /\ state' = c.state
      BY <1>2, <2>2 DEF RunCore, ev
    <3>3. sub' \in Subs /\ (sub'.open => sub.open /\ sub'.queue = Append(sub.queue, ev))
      BY <1>a, <3>1, <3>2, BroadcastFacts
    <3>4. /\ ev \in StateTruth(c.state)
          /\ \A p \in Peers : ev \notin TrustWrites(p) /\ ev \notin DialogWrites(p)
      BY <3>1, EventWrites
    <3>5. DaemonStep(ev)
      BY <1>a, <1>b, <1>c, <1>d, <1>2, <3>2, <3>3, <3>4 DEF DaemonStep, RunCore
    <3> QED
      BY <1>2, <3>1, <3>5 DEF RunCore, Writers
  <2> QED
    BY <2>1, <2>2
<1>3. ASSUME c.kind = "revoke", RunRevoke(c.peer)
      PROVE  Plain \/ \E ev \in Events : Tells(ev)
  <2>1. CASE c.peer \notin trusted
    <3>1. WindowStep /\ stale' = stale
      BY <1>a, <1>e, <1>3, <2>1 DEF RunRevoke
    <3> QED
      BY <3>1, <1>3 DEF Writers
  <2>2. CASE c.peer \in trusted
    <3> DEFINE ev == [kind |-> "revoked", peer |-> c.peer]
    <3>1. ev \in Events /\ ev.kind = "revoked" /\ ev.peer = c.peer
      BY <1>d, <1>3 DEF Events
    <3> HIDE DEF ev
    <3>2. Broadcast(ev) /\ trusted' = trusted \ {c.peer}
      BY <1>3, <2>2 DEF RunRevoke, ev
    <3>3. sub' \in Subs /\ (sub'.open => sub.open /\ sub'.queue = Append(sub.queue, ev))
      BY <1>a, <3>1, <3>2, BroadcastFacts
    <3>4. /\ ev \notin StateWrites
          /\ \A p \in Peers : /\ ev \notin DialogWrites(p)
                              /\ \/ ev \in TrustTruth(p, trusted')
                                 \/ ev \notin TrustWrites(p) /\ (p \in trusted' <=> p \in trusted)
      BY <3>1, <3>2, EventWrites
    <3>5. DaemonStep(ev)
      BY <1>a, <1>b, <1>c, <1>3, <3>2, <3>3, <3>4 DEF DaemonStep, RunRevoke
    <3> QED
      BY <1>3, <3>1, <3>5 DEF RunRevoke, Writers
  <2> QED
    BY <2>1, <2>2
<1>4. ASSUME c.kind = "refresh", RunRefresh
      PROVE  Plain
  <2>1. reply' \in Replies
    BY <1>a, <1>4 DEF RunRefresh, Replies
  <2>2. WindowStep /\ stale' = stale
    BY <1>e, <1>4, <2>1 DEF RunRefresh
  <2> QED
    BY <2>2, <1>4 DEF Writers
<1> QED
  BY <1>b, <1>d, <1>1, <1>2, <1>3, <1>4 DEF c

\* A thread sends u to the window.
PushStep(u) ==
    /\ UNCHANGED <<config, state, trusted, proposals, up, view, window, commands>>
    /\ u \in Updates /\ updates' \in Seq(Updates)
    /\ Open => Pushed(updates, updates', u)
    /\ sub' \in Subs /\ sub'.open = sub.open /\ sub'.queue = sub.queue
    /\ reply' \in Replies \cup {None}
    /\ stale \subseteq stale'

\* event_loop gives its connection up.
LossStep ==
    /\ UNCHANGED <<config, state, trusted, proposals, up, view, window, commands, reply,
                   stale>>
    /\ updates' \in Seq(Updates)
    /\ Open => Pushed(updates, updates', Offline)
    /\ thread' = "connect" /\ sub' \in Subs /\ ~sub'.open

\* The notices are updates.
LEMMA NoticesAreUpdates ==
    Offline \in Updates /\ Launching \in Updates /\ [kind |-> "connected"] \in Updates
BY DEF Offline, Launching, Updates

\* The steps of the threads that push one update.
LEMMA PushSteps ==
    ASSUME TypeInv
    PROVE  /\ \A b \in BOOLEAN : ConnectFails(b) =>
                (PushStep(Offline) \/ PushStep(Launching)) /\ thread = "connect"
                /\ thread' = thread /\ UNCHANGED stale
           /\ FetchConfig => /\ PushStep([kind |-> "config", config |-> config])
                             /\ thread = "config" /\ thread' = "status" /\ UNCHANGED stale
           /\ FetchStatus => /\ PushStep([kind |-> "status", state |-> state])
                             /\ thread = "status" /\ thread' = "trusted" /\ UNCHANGED stale
           /\ FetchTrusted => /\ PushStep([kind |-> "trusted", peers |-> trusted])
                              /\ thread = "trusted" /\ thread' = "ready" /\ UNCHANGED stale
           /\ Announce => /\ PushStep([kind |-> "connected"])
                          /\ thread = "ready" /\ thread' = "stream" /\ UNCHANGED stale
           /\ PushReply => /\ reply \in Replies /\ PushStep(reply) /\ thread' = thread
                           /\ reply.state # state => "state" \in stale'
           /\ SetupFails \/ StreamEnds => LossStep /\ thread # "connect"
<1>a. /\ sub \in Subs /\ config \in Configs /\ state \in States /\ trusted \in SUBSET Peers
      /\ reply \in Replies \cup {None} /\ updates \in Seq(Updates)
  BY DEF TypeInv
<1>b. ASSUME NEW u \in Updates, Push(u), sub' \in Subs, sub'.open = sub.open,
             sub'.queue = sub.queue, reply' \in Replies \cup {None}, stale \subseteq stale',
             UNCHANGED <<config, state, trusted, proposals, up, view, window, commands>>
      PROVE  PushStep(u)
  BY <1>b, PushFacts DEF PushStep
<1>1. ASSUME NEW b \in BOOLEAN, ConnectFails(b)
      PROVE  (PushStep(Offline) \/ PushStep(Launching)) /\ thread = "connect"
             /\ thread' = thread /\ UNCHANGED stale
  <2>1. Push(Launching) \/ Push(Offline)
    BY <1>1 DEF ConnectFails
  <2>2. PushStep(Offline) \/ PushStep(Launching)
    BY <1>a, <1>b, <1>1, <2>1, NoticesAreUpdates DEF ConnectFails, EventThread
  <2> QED
    BY <1>1, <2>2 DEF ConnectFails
<1>2. ASSUME FetchConfig
      PROVE  /\ PushStep([kind |-> "config", config |-> config])
             /\ thread = "config" /\ thread' = "status" /\ UNCHANGED stale
  <2>1. [kind |-> "config", config |-> config] \in Updates
    BY <1>a DEF Updates
  <2>2. sub' \in Subs /\ sub'.open = sub.open /\ sub'.queue = sub.queue
    BY <1>a, <1>2 DEF FetchConfig, Subs
  <2> QED
    BY <1>a, <1>b, <1>2, <2>1, <2>2 DEF FetchConfig, EventThread
<1>3. ASSUME FetchStatus
      PROVE  /\ PushStep([kind |-> "status", state |-> state])
             /\ thread = "status" /\ thread' = "trusted" /\ UNCHANGED stale
  <2>1. [kind |-> "status", state |-> state] \in Updates
    BY <1>a DEF Updates
  <2> QED
    BY <1>a, <1>b, <1>3, <2>1 DEF FetchStatus, EventThread
<1>4. ASSUME FetchTrusted
      PROVE  /\ PushStep([kind |-> "trusted", peers |-> trusted])
             /\ thread = "trusted" /\ thread' = "ready" /\ UNCHANGED stale
  <2>1. [kind |-> "trusted", peers |-> trusted] \in Updates
    BY <1>a DEF Updates
  <2> QED
    BY <1>a, <1>b, <1>4, <2>1 DEF FetchTrusted, EventThread
<1>5. ASSUME Announce
      PROVE  /\ PushStep([kind |-> "connected"])
             /\ thread = "ready" /\ thread' = "stream" /\ UNCHANGED stale
  BY <1>a, <1>b, <1>5, NoticesAreUpdates DEF Announce, EventThread
<1>6. ASSUME PushReply
      PROVE  /\ reply \in Replies /\ PushStep(reply) /\ thread' = thread
             /\ reply.state # state => "state" \in stale'
  <2>1. reply \in Replies
    BY <1>a, <1>6 DEF PushReply
  <2>2. reply \in Updates
    BY <2>1, SMT DEF Replies, Updates
  <2>3. stale \subseteq stale' /\ (reply.state # state => "state" \in stale')
    BY <1>6 DEF PushReply
  <2> QED
    BY <1>a, <1>b, <1>6, <2>1, <2>2, <2>3 DEF PushReply, CommandThread
<1>7. ASSUME SetupFails \/ StreamEnds
      PROVE  LossStep /\ thread # "connect"
  <2>1. /\ Push(Offline) /\ thread' = "connect" /\ sub' = Closed /\ thread # "connect"
        /\ EventThread /\ UNCHANGED stale
    BY <1>7 DEF SetupFails, StreamEnds
  <2>2. sub' \in Subs /\ ~sub'.open
    <3>1. <<>> \in Seq(Events)
      BY SMT
    <3> QED
      BY <2>1, <3>1 DEF Closed, Subs
  <2> QED
    BY <2>1, <2>2, NoticesAreUpdates, PushFacts DEF LossStep, EventThread
<1> QED
  BY <1>1, <1>2, <1>3, <1>4, <1>5, <1>6, <1>7

\* event_loop passes an event on, refetches the config, or loses that.
LEMMA ReadSteps ==
    ASSUME TypeInv, ReadEvent \/ RefetchFails
    PROVE  /\ thread = "stream" /\ thread' = "stream" /\ sub.queue # <<>>
           /\ sub' \in Subs /\ sub'.open = sub.open /\ sub'.queue = Tail(sub.queue)
           /\ sub.queue \in Seq(Events) /\ Head(sub.queue) \in Events
           /\ updates' \in Seq(Updates)
           /\ UNCHANGED <<config, state, trusted, proposals, up, view, window, commands, reply>>
           /\ \/ /\ Head(sub.queue).kind # "config" /\ UNCHANGED stale
                 /\ Open => Pushed(updates, updates', Head(sub.queue))
              \/ /\ Head(sub.queue).kind = "config" /\ UNCHANGED stale
                 /\ Open => Pushed(updates, updates', [kind |-> "config", config |-> config])
              \/ /\ Head(sub.queue).kind = "config" /\ UNCHANGED updates
                 /\ stale \subseteq stale' /\ stale' \subseteq stale \cup {"config"}
                 /\ up => "config" \in stale'
<1>1. /\ thread = "stream" /\ thread' = "stream" /\ sub.queue # <<>>
      /\ sub' = [sub EXCEPT !.queue = Tail(@)]
      /\ UNCHANGED <<config, state, trusted, proposals, up, view, window, commands, reply>>
  BY DEF ReadEvent, RefetchFails, EventThread
<1>2. sub \in Subs /\ sub.queue \in Seq(Events) /\ updates \in Seq(Updates) /\ config \in Configs
  BY DEF TypeInv, Subs
<1>3. Tail(sub.queue) \in Seq(Events) /\ Head(sub.queue) \in Events
  BY <1>1, <1>2, SMT
<1>4. sub' \in Subs /\ sub'.open = sub.open /\ sub'.queue = Tail(sub.queue)
  BY <1>1, <1>2, <1>3 DEF Subs
<1>5. CASE ReadEvent /\ Head(sub.queue).kind # "config"
  <2>1. Push(Head(sub.queue)) /\ UNCHANGED stale
    BY <1>5 DEF ReadEvent
  <2>2. Head(sub.queue) \in Updates
    BY <1>3, <1>5, EventFacts
  <2>3. updates' \in Seq(Updates) /\ (Open => Pushed(updates, updates', Head(sub.queue)))
    BY <2>1, <2>2, PushFacts
  <2> QED
    BY <1>1, <1>2, <1>3, <1>4, <1>5, <2>1, <2>3
<1>6. CASE ReadEvent /\ Head(sub.queue).kind = "config"
  <2> DEFINE u == [kind |-> "config", config |-> config]
  <2>1. Push(u) /\ UNCHANGED stale
    BY <1>6 DEF ReadEvent
  <2>2. u \in Updates
    BY <1>2 DEF Updates
  <2>3. updates' \in Seq(Updates) /\ (Open => Pushed(updates, updates', u))
    BY <2>1, <2>2, PushFacts
  <2> QED
    BY <1>1, <1>2, <1>3, <1>4, <1>6, <2>1, <2>3
<1>7. CASE RefetchFails
  <2>1. /\ Head(sub.queue).kind = "config" /\ UNCHANGED updates
        /\ stale \subseteq stale' /\ stale' \subseteq stale \cup {"config"}
        /\ up => "config" \in stale'
    BY <1>7 DEF RefetchFails
  <2> QED
    BY <1>1, <1>2, <1>3, <1>4, <2>1
<1> QED
  BY <1>5, <1>6, <1>7

\* Every step has one of these shapes.
LEMMA NextSteps ==
    ASSUME TypeInv, [Next]_vars
    PROVE  \/ WindowStep
           \/ \E ev \in Events : DaemonStep(ev)
           \/ \E b \in BOOLEAN : ConnectFails(b)
           \/ FetchConfig \/ FetchStatus \/ FetchTrusted \/ Announce \/ PushReply
           \/ SetupFails \/ StreamEnds \/ ReadEvent \/ RefetchFails \/ Subscribe
           \/ Drain \/ Crash \/ Quit
<1>1. CASE \/ \E e \in UserEdits : Edit(e) \/ ToggleAutostart(e) \/ UseAsServer(e)
           \/ \E a \in BOOLEAN : EditAudio(a)
           \/ Apply \/ Revert \/ Start \/ Stop \/ Restart
           \/ \E p \in Peers : RevokeTrust(p) \/ Decide(p)
  BY <1>1, ClickSteps
<1>2. CASE \E due \in BOOLEAN : Frame(due)
  BY <1>2, FrameSteps
<1>3. CASE Boot \/ BootFails \/ Exit \/ DispatchFails
  BY <1>3, QuietSteps
<1>4. CASE \/ \E e \in RemoteEdits : MergeRemote(e)
           \/ \E s \in States : CoreChanges(s)
           \/ \E p \in Peers : Propose(p) \/ PairingCompletes(p) \/ PairingFails(p)
  BY <1>4, DaemonSteps
<1>5. CASE Dispatch
  BY <1>5, DispatchSteps
<1>6. CASE UNCHANGED vars
  BY <1>6 DEF vars, daemon, threads, TypeInv, WindowStep, Open
<1> QED
  BY <1>1, <1>2, <1>3, <1>4, <1>5, <1>6 DEF Next, EventLoop

\* drain_ipc applies the oldest update.
LEMMA DrainFacts ==
    ASSUME TypeInv, Drain
    PROVE  /\ Open /\ Open' /\ updates # <<>> /\ updates' = Tail(updates)
           /\ updates \in Seq(Updates) /\ updates' \in Seq(Updates)
           /\ Head(updates) \in Updates /\ view \in Views
           /\ view' = ApplyUpdate(view, Head(updates)) /\ view' \in Views
           /\ UNCHANGED <<config, state, trusted, proposals, up, sub, thread, reply, commands,
                          stale>>
<1>1. /\ updates # <<>> /\ updates' = Tail(updates) /\ updates \in Seq(Updates)
      /\ view \in Views /\ view' = ApplyUpdate(view, Head(updates))
      /\ Open /\ window' = "draining"
      /\ UNCHANGED <<config, state, trusted, proposals, up, sub, thread, reply, commands, stale>>
  BY DEF Drain, TypeInv, daemon, threads
<1>2. Head(updates) \in Updates /\ updates' \in Seq(Updates)
  BY <1>1, SMT
<1>3. view' \in Views
  BY <1>1, <1>2, ApplyFacts
<1> QED
  BY <1>1, <1>2, <1>3 DEF Open

\* A crash and a quit close the subscriber's connection.
LEMMA EndFacts ==
    ASSUME TypeInv, sub.open => up, Crash \/ Quit
    PROVE  /\ sub' \in Subs /\ ~sub'.open
           /\ state' \in States /\ proposals' \in SUBSET Peers
           /\ UNCHANGED <<config, trusted, thread, reply>>
           /\ \/ UNCHANGED <<updates, commands, view, stale, window>>
              \/ /\ ~Open' /\ updates' = <<>> /\ commands' = <<>> /\ view' = NewView
                 /\ stale' = {}
<1>1. sub \in Subs /\ state \in States /\ proposals \in SUBSET Peers
  BY DEF TypeInv
<1>2. ASSUME DaemonEnds
      PROVE  /\ sub' \in Subs /\ ~sub'.open
             /\ state' \in States /\ proposals' \in SUBSET Peers
             /\ UNCHANGED <<config, trusted, thread, reply>>
  BY <1>1, <1>2, HangupFacts DEF DaemonEnds, States
<1>3. CASE Crash
  BY <1>2, <1>3 DEF Crash
<1>4. CASE Quit
  <2>1. window' = "closing" /\ updates' = <<>> /\ commands' = <<>> /\ view' = NewView /\ stale' = {}
    BY <1>4 DEF Quit
  <2>2. CASE up
    BY <1>2, <1>4, <2>1, <2>2 DEF Quit, Open
  <2>3. CASE ~up
    BY <1>1, <1>4, <2>1, <2>3 DEF Quit, Open, daemon, threads
  <2> QED
    BY <2>2, <2>3
<1> QED
  BY <1>3, <1>4

\* The view a window starts with.
LEMMA FreshView ==
    /\ NewView \in Views /\ ~NewView.connected /\ NewView.pending = None
    /\ NewView.dialogs = {} /\ ~NewView.dirty
<1>1. Default \in Configs
  BY DEF Default, Configs
<1> QED
  BY <1>1 DEF NewView, Views, States

\* The type invariant at the start,
LEMMA TypeInit ==
    ASSUME Init
    PROVE  TypeInv
<1>1. config \in Configs
  BY DEF Init, Configs
<1>2. sub \in Subs
  <2>1. <<>> \in Seq(Events)
    BY SMT
  <2> QED
    BY <2>1 DEF Init, Closed, Subs
<1>3. updates \in Seq(Updates) /\ commands \in Seq(Commands)
  BY SMT DEF Init
<1> QED
  BY <1>1, <1>2, <1>3, FreshView DEF Init, TypeInv, States

\* and over every step.
LEMMA TypeStep ==
    ASSUME TypeInv, sub.open => up, [Next]_vars
    PROVE  TypeInv'
<1>1. CASE WindowStep
  BY <1>1 DEF TypeInv, WindowStep
<1>2. CASE \E ev \in Events : DaemonStep(ev)
  BY <1>2 DEF TypeInv, DaemonStep
<1>3. CASE \/ \E b \in BOOLEAN : ConnectFails(b)
           \/ FetchConfig \/ FetchStatus \/ FetchTrusted \/ Announce \/ PushReply
  <2>1. /\ \E u : PushStep(u)
        /\ thread' \in {"connect", "config", "status", "trusted", "ready", "stream"}
    BY <1>3, PushSteps DEF TypeInv
  <2> QED
    BY <2>1 DEF TypeInv, PushStep
<1>4. CASE SetupFails \/ StreamEnds
  BY <1>4, PushSteps DEF TypeInv, LossStep
<1>5. CASE ReadEvent \/ RefetchFails
  BY <1>5, ReadSteps DEF TypeInv
<1>6. CASE Subscribe
  <2>1. sub' \in Subs
    <3>1. <<>> \in Seq(Events)
      BY SMT
    <3> QED
      BY <1>6, <3>1 DEF Subscribe, Subs
  <2> QED
    BY <1>6, <2>1 DEF TypeInv, Subscribe, EventThread
<1>7. CASE Drain
  BY <1>7, DrainFacts DEF TypeInv
<1>8. CASE Crash \/ Quit
  <2>1. <<>> \in Seq(Updates) /\ <<>> \in Seq(Commands)
    BY SMT
  <2> QED
    BY <1>8, <2>1, EndFacts, FreshView DEF TypeInv
<1> QED
  BY <1>1, <1>2, <1>3, <1>4, <1>5, <1>6, <1>7, <1>8, NextSteps

-----------------------------------------------------------------------------
(* Every part of the view. *)

\* The connection notice is the last of its kind while the thread streams.
LEMMA LinkStep ==
    ASSUME TypeInv, LinkInv, [Next]_vars
    PROVE  LinkInv'
<1> DEFINE W == LinkWrites
           G == LinkTruth
           Linked == Open /\ thread = "stream" =>
                       LastIn(updates, W, G) /\ (Silent(updates, W) => view.connected)
<1>a. (sub.open => up) /\ Linked /\ updates \in Seq(Updates) /\ G \in SUBSET W
  BY TruthsAreWrites DEF LinkInv, TypeInv
<1>b. SUFFICES (sub'.open => up') /\ Linked'
  BY DEF LinkInv
<1>c. ASSUME NEW u \in Updates, u \notin W, thread = "stream", Open' <=> Open,
             Open => Pushed(updates, updates', u), UNCHANGED view
      PROVE  Linked'
  <2>1. ASSUME Open PROVE /\ LastIn(updates, W, G) => LastIn(updates', W, G)
                          /\ Silent(updates', W) <=> Silent(updates, W)
    BY <1>a, <1>c, <2>1, PushStream
  <2> QED
    BY <1>a, <1>c, <2>1
<1>1. CASE WindowStep
  BY <1>a, <1>1 DEF WindowStep
<1>2. CASE \E ev \in Events : DaemonStep(ev)
  <2>1. /\ UNCHANGED <<up, thread, updates, view, window>>
        /\ sub'.open => sub.open
    BY <1>2 DEF DaemonStep
  <2> QED
    BY <1>a, <2>1 DEF Open
<1>3. CASE (\E b \in BOOLEAN : ConnectFails(b)) \/ FetchConfig \/ FetchStatus \/ FetchTrusted
  <2>1. (\E u : PushStep(u)) /\ thread' # "stream"
    BY <1>3, PushSteps
  <2>2. UNCHANGED up /\ sub'.open = sub.open
    BY <2>1 DEF PushStep
  <2> QED
    BY <1>a, <2>1, <2>2
<1>4. CASE Announce
  <2> DEFINE u == [kind |-> "connected"]
  <2>1. PushStep(u)
    BY <1>4, PushSteps
  <2>2. u \in G
    BY NoticesAreUpdates DEF LinkTruth, LinkWrites
  <2> HIDE DEF u
  <2>3. ASSUME Open' PROVE LastIn(updates', W, G) /\ ~Silent(updates', W)
    <3>1. Pushed(updates, updates', u) /\ u \in Updates
      BY <2>1, <2>3 DEF PushStep, Open
    <3> QED
      BY <1>a, <2>2, <3>1, PushStream
  <2> QED
    BY <1>a, <2>1, <2>3 DEF PushStep
<1>5. CASE PushReply
  <2>1. PushStep(reply) /\ thread' = thread /\ reply \in Replies
    BY <1>5, PushSteps
  <2>2. reply \notin W
    BY <2>1 DEF Replies, LinkWrites
  <2> QED
    BY <1>a, <1>c, <2>1, <2>2 DEF PushStep, Open
<1>6. CASE SetupFails \/ StreamEnds
  BY <1>6, PushSteps DEF LossStep
<1>7. CASE ReadEvent \/ RefetchFails
  <2>1. /\ thread = "stream" /\ sub'.open = sub.open /\ UNCHANGED <<up, view, window, thread>>
        /\ config \in Configs /\ Head(sub.queue) \in Events
    BY <1>7, ReadSteps DEF TypeInv
  <2>2. CASE UNCHANGED updates
    BY <1>a, <2>1, <2>2 DEF Open
  <2>3. CASE Head(sub.queue).kind # "config" /\ (Open => Pushed(updates, updates', Head(sub.queue)))
    <3>1. Head(sub.queue) \in Updates /\ Head(sub.queue) \notin W
      BY <2>1, <2>3, EventFacts DEF LinkWrites
    <3> QED
      BY <1>a, <1>c, <2>1, <2>3, <3>1 DEF Open
  <2>4. CASE Open => Pushed(updates, updates', [kind |-> "config", config |-> config])
    <3> DEFINE u == [kind |-> "config", config |-> config]
    <3>1. u \in Updates /\ u \notin W
      BY <2>1 DEF Updates, LinkWrites
    <3> HIDE DEF u
    <3>2. Open => Pushed(updates, updates', u)
      BY <2>4 DEF u
    <3> QED
      BY <1>a, <1>c, <2>1, <3>1, <3>2 DEF Open
  <2> QED
    BY <1>7, <2>2, <2>3, <2>4, ReadSteps
<1>8. CASE Subscribe
  BY <1>8 DEF Subscribe, EventThread
<1>9. CASE Drain
  <2>1. /\ Open /\ updates # <<>> /\ updates' = Tail(updates) /\ Head(updates) \in Updates
        /\ view \in Views /\ view' = ApplyUpdate(view, Head(updates))
        /\ UNCHANGED <<up, sub, thread>>
    BY <1>9, DrainFacts
  <2>2. /\ LastIn(updates, W, G) => LastIn(updates', W, G)
        /\ Silent(updates, W) <=> Head(updates) \notin W /\ Silent(updates', W)
        /\ LastIn(updates, W, G) /\ Silent(updates', W) /\ Head(updates) \in W =>
             Head(updates) \in G
    BY <1>a, <2>1, TailStream
  <2>3. /\ Head(updates) \in G => view'.connected
        /\ Head(updates) \notin W => view'.connected = view.connected
    BY <1>a, <2>1, ApplyFacts DEF LinkTruth
  <2> QED
    BY <1>a, <2>1, <2>2, <2>3
<1>10. CASE Crash \/ Quit
  <2>1. /\ ~sub'.open /\ thread' = thread
        /\ UNCHANGED <<updates, view, window>> \/ ~Open'
    BY <1>a, <1>10, EndFacts
  <2> QED
    BY <1>a, <2>1 DEF Open
<1> QED
  BY <1>1, <1>2, <1>3, <1>4, <1>5, <1>6, <1>7, <1>8, <1>9, <1>10, NextSteps

\* The Core's state: a snapshot older than the queue is overtaken by it.
LEMMA StateStep ==
    ASSUME TypeInv, LinkInv, StateInv, [Next]_vars
    PROVE  StateInv'
<1> DEFINE W == StateWrites
           G == StateTruth(state)
           Fetched == Open /\ thread \in {"trusted", "ready", "stream"} /\ "state" \notin stale
           Mirrors == /\ LastIn(sub.queue, W, G)
                      /\ Fetched => /\ Told(sub.queue, updates, W, G)
                                    /\ Quiet(sub.queue, updates, W) => view.state = state
<1>a. (sub.open => Mirrors) /\ (sub.open => up)
  BY DEF StateInv, LinkInv
<1>q. updates \in Seq(Updates) /\ sub.queue \in Seq(Events)
  BY DEF TypeInv, Subs
<1>w. G \in SUBSET W /\ G' \in SUBSET W
  BY TruthsAreWrites
<1>b. SUFFICES ASSUME sub'.open PROVE Mirrors'
  BY DEF StateInv
<1>c. ASSUME NEW u \in Updates, PushStep(u), u \notin W, Fetched' => Fetched
      PROVE  Mirrors'
  <2>1. /\ sub.open /\ sub'.queue = sub.queue /\ UNCHANGED <<state, view>>
        /\ Open => Pushed(updates, updates', u)
    BY <1>b, <1>c DEF PushStep
  <2>2. ASSUME Open PROVE /\ Told(sub.queue, updates, W, G) => Told(sub.queue, updates', W, G)
                          /\ Quiet(sub.queue, updates', W) => Quiet(sub.queue, updates, W)
    BY <1>q, <1>w, <1>c, <2>1, <2>2, SendStream
  <2> QED
    BY <1>a, <1>c, <2>1, <2>2
<1>d. ASSUME NEW u \in Updates, PushStep(u), u \in G, sub.open PROVE Mirrors'
  <2>1. /\ sub'.queue = sub.queue /\ UNCHANGED <<state, view, window>>
        /\ Open => Pushed(updates, updates', u)
    BY <1>d DEF PushStep
  <2>2. ASSUME Open PROVE Told(sub.queue, updates', W, G) /\ ~Quiet(sub.queue, updates', W)
    <3>1. LastIn(sub.queue, W, G)
      BY <1>a, <1>d
    <3> HIDE DEF W, G
    <3> QED
      BY <1>q, <1>w, <1>d, <2>1, <2>2, <3>1, SendStream
  <2> QED
    BY <1>a, <1>d, <2>1, <2>2 DEF Open
<1>1. CASE WindowStep
  <2>1. /\ UNCHANGED <<state, sub, thread, updates>> /\ (Open' <=> Open) /\ sub.open
        /\ view'.state = view.state
        /\ "state" \in stale /\ "state" \notin stale' => updates = <<>> /\ view'.state = state
    BY <1>b, <1>1 DEF WindowStep
  <2>2. LastIn(<<>>, W, G)
    BY EmptyStream
  <2> QED
    BY <1>a, <2>1, <2>2 DEF Told
<1>2. ASSUME NEW ev \in Events, DaemonStep(ev) PROVE Mirrors'
  <2>1. /\ sub.open /\ sub'.queue = Append(sub.queue, ev)
        /\ UNCHANGED <<thread, updates, view, window>> /\ stale \subseteq stale'
        /\ ev \in G' \/ (ev \notin W /\ state' = state)
    BY <1>b, <1>2 DEF DaemonStep
  <2>2. CASE ev \in G'
    <3>1. Told(sub'.queue, updates', W, G') /\ ~Quiet(sub'.queue, updates', W)
      BY <1>q, <1>w, <2>1, <2>2, TellStream
    <3> QED
      BY <3>1 DEF Told
  <2>3. CASE ev \notin W /\ state' = state
    <3>1. /\ LastIn(sub.queue, W, G) => LastIn(sub'.queue, W, G)
          /\ Told(sub.queue, updates, W, G) => Told(sub'.queue, updates, W, G)
          /\ Quiet(sub'.queue, updates, W) => Quiet(sub.queue, updates, W)
      <4> HIDE DEF W, G
      <4>1. ev \notin W
        BY <2>3
      <4>2. LET q == Append(sub.queue, ev) IN
            /\ LastIn(sub.queue, W, G) => LastIn(q, W, G)
            /\ Told(sub.queue, updates, W, G) => Told(q, updates, W, G)
            /\ Quiet(q, updates, W) => Quiet(sub.queue, updates, W)
        BY <1>q, <1>w, <1>2, <4>1, TellStream
      <4> QED
        BY <2>1, <4>2
    <3>2. Fetched' => Fetched
      BY <2>1 DEF Open
    <3> QED
      BY <1>a, <2>1, <2>3, <3>1, <3>2
  <2> QED
    BY <2>1, <2>2, <2>3
<1>3. CASE (\E b \in BOOLEAN : ConnectFails(b)) \/ FetchConfig
  <2>1. (\E u : PushStep(u)) /\ thread' \in {"connect", "status"}
    BY <1>3, PushSteps
  <2>2. sub.open /\ sub'.queue = sub.queue /\ state' = state
    BY <1>b, <2>1 DEF PushStep
  <2> QED
    BY <1>a, <2>1, <2>2
<1>4. CASE FetchStatus
  <2> DEFINE u == [kind |-> "status", state |-> state]
  <2>1. PushStep(u)
    BY <1>4, PushSteps
  <2>2. u \in G /\ u \in Updates
    BY <2>1 DEF StateTruth, StateWrites, PushStep
  <2> HIDE DEF u
  <2> QED
    BY <1>b, <1>d, <2>1, <2>2 DEF PushStep
<1>5. CASE FetchTrusted
  <2> DEFINE u == [kind |-> "trusted", peers |-> trusted]
  <2>1. PushStep(u) /\ thread = "trusted" /\ UNCHANGED stale
    BY <1>5, PushSteps
  <2>2. u \in Updates /\ u \notin W
    BY <2>1 DEF StateWrites, PushStep
  <2> HIDE DEF u
  <2>3. Fetched' => Fetched
    BY <2>1 DEF PushStep, Open
  <2> QED
    BY <1>c, <2>1, <2>2, <2>3
<1>6. CASE Announce
  <2> DEFINE u == [kind |-> "connected"]
  <2>1. PushStep(u) /\ thread = "ready" /\ UNCHANGED stale
    BY <1>6, PushSteps
  <2>2. u \in Updates /\ u \notin W
    BY <2>1 DEF StateWrites, PushStep
  <2> HIDE DEF u
  <2>3. Fetched' => Fetched
    BY <2>1 DEF PushStep, Open
  <2> QED
    BY <1>c, <2>1, <2>2, <2>3
<1>7. CASE PushReply
  <2>1. /\ PushStep(reply) /\ reply \in Replies /\ thread' = thread
        /\ reply.state # state => "state" \in stale'
    BY <1>7, PushSteps
  <2>2. reply \in Updates /\ reply \in W /\ sub.open /\ sub'.queue = sub.queue /\ state' = state
    BY <1>b, <2>1 DEF PushStep, Replies, StateWrites
  <2>3. CASE reply.state = state
    <3>1. reply \in G
      BY <2>2, <2>3 DEF StateTruth
    <3> QED
      BY <1>d, <2>1, <2>2, <3>1
  <2>4. CASE reply.state # state
    BY <1>a, <2>1, <2>2, <2>4
  <2> QED
    BY <2>3, <2>4
<1>8. CASE SetupFails \/ StreamEnds
  BY <1>b, <1>8, PushSteps DEF LossStep
<1>9. CASE ReadEvent \/ RefetchFails
  <2> DEFINE e == Head(sub.queue)
  <2>1. /\ sub.open /\ sub.queue # <<>> /\ sub'.queue = Tail(sub.queue) /\ e \in Events
        /\ UNCHANGED <<state, view, window, thread>> /\ stale \subseteq stale'
        /\ config \in Configs
    BY <1>b, <1>9, ReadSteps DEF TypeInv
  <2>2. Fetched' => Fetched
    BY <2>1 DEF Open
  <2>3. LastIn(sub'.queue, W, G)
    <3>1. LastIn(sub.queue, W, G)
      BY <1>a, <2>1
    <3> HIDE DEF W, G
    <3>2. LastIn(Tail(sub.queue), W, G)
      BY <1>q, <1>w, <2>1, <3>1, TailStream
    <3> QED
      BY <2>1, <3>2
  <2>4. CASE e.kind # "config" /\ (Open => Pushed(updates, updates', e))
    <3>1. e \in Updates
      BY <2>1, <2>4, EventFacts
    <3>2. ASSUME Open, Told(sub.queue, updates, W, G)
          PROVE  /\ Told(sub'.queue, updates', W, G)
                 /\ Quiet(sub'.queue, updates', W) => Quiet(sub.queue, updates, W)
      <4> HIDE DEF W, G, e
      <4>1. Pushed(updates, updates', e)
        BY <2>4, <3>2
      <4>2. /\ Told(Tail(sub.queue), updates', W, G)
            /\ Quiet(Tail(sub.queue), updates', W) => Quiet(sub.queue, updates, W)
        BY <1>q, <1>w, <2>1, <3>1, <3>2, <4>1, ReadStream DEF e
      <4> QED
        BY <2>1, <4>2
    <3> QED
      BY <1>a, <2>1, <2>2, <2>3, <3>2
  <2>5. ASSUME e.kind = "config"
        PROVE  /\ e \notin W
               /\ Told(sub.queue, updates, W, G) => Told(sub'.queue, updates, W, G)
               /\ Quiet(sub'.queue, updates, W) => Quiet(sub.queue, updates, W)
    <3>1. e \notin W
      BY <2>5 DEF StateWrites
    <3> QED
      BY <1>q, <1>w, <2>1, <3>1, SkipStream
  <2>6. CASE /\ e.kind = "config"
             /\ Open => Pushed(updates, updates', [kind |-> "config", config |-> config])
    <3> DEFINE u == [kind |-> "config", config |-> config]
    <3>1. u \in Updates /\ u \notin W /\ (Open => Pushed(updates, updates', u))
      BY <2>1, <2>6 DEF StateWrites, Updates
    <3> HIDE DEF u
    <3>2. ASSUME Open
          PROVE  /\ Told(sub'.queue, updates, W, G) => Told(sub'.queue, updates', W, G)
                 /\ Quiet(sub'.queue, updates', W) => Quiet(sub'.queue, updates, W)
      BY <1>q, <1>w, <3>1, <3>2, SendStream
    <3> QED
      BY <1>a, <2>1, <2>2, <2>3, <2>5, <2>6, <3>2
  <2>7. CASE e.kind = "config" /\ UNCHANGED updates
    BY <1>a, <2>1, <2>2, <2>3, <2>5, <2>7
  <2> QED
    BY <1>9, <2>4, <2>6, <2>7, ReadSteps
<1>10. CASE Subscribe
  <2>1. sub'.queue = <<>> /\ thread' = "config"
    BY <1>10 DEF Subscribe
  <2> QED
    BY <2>1, EmptyStream
<1>11. CASE Drain
  <2> DEFINE u == Head(updates)
  <2>1. /\ Open /\ updates # <<>> /\ updates' = Tail(updates) /\ u \in Updates
        /\ view \in Views /\ view' = ApplyUpdate(view, u)
        /\ UNCHANGED <<state, sub, thread, stale>>
    BY <1>11, DrainFacts
  <2>2. Fetched' => Fetched
    BY <2>1
  <2>3. ASSUME Told(sub.queue, updates, W, G)
        PROVE  /\ Told(sub.queue, updates', W, G)
               /\ Quiet(sub.queue, updates', W) =>
                    (u \in W => u \in G) /\ (u \notin W => Quiet(sub.queue, updates, W))
    BY <1>q, <1>w, <2>1, <2>3, DrainStream
  <2>4. /\ u \in G => view'.state = state
        /\ u \notin W => view'.state = view.state
    <3> HIDE DEF u
    <3>1. /\ u \in StateWrites => view'.state = u.state
          /\ u \notin StateWrites => view'.state = view.state
      BY <2>1, ApplyFacts, SMT
    <3> QED
      BY <3>1 DEF StateTruth
  <2> HIDE DEF u
  <2> QED
    BY <1>a, <1>b, <2>1, <2>2, <2>3, <2>4
<1>12. CASE Crash \/ Quit
  BY <1>a, <1>b, <1>12, EndFacts
<1> QED
  BY <1>1, <1>2, <1>3, <1>4, <1>5, <1>6, <1>7, <1>8, <1>9, <1>10, <1>11, <1>12, NextSteps

\* The trusted peers, one peer at a time.
LEMMA TrustStep ==
    ASSUME TypeInv, LinkInv, NEW p \in Peers, TrustInv(p), [Next]_vars
    PROVE  TrustInv(p)'
<1> DEFINE W == TrustWrites(p)
           G == TrustTruth(p, trusted)
           Fetched == Open /\ thread \in {"ready", "stream"}
           Mirrors == /\ LastIn(sub.queue, W, G)
                      /\ Fetched => /\ Told(sub.queue, updates, W, G)
                                    /\ Quiet(sub.queue, updates, W) =>
                                         (p \in view.trusted <=> p \in trusted)
<1>a. (sub.open => Mirrors) /\ (sub.open => up)
  BY DEF TrustInv, LinkInv
<1>q. updates \in Seq(Updates) /\ sub.queue \in Seq(Events)
  BY DEF TypeInv, Subs
<1>w. G \in SUBSET W /\ G' \in SUBSET W
  BY TruthsAreWrites
<1>b. SUFFICES ASSUME sub'.open PROVE Mirrors'
  BY DEF TrustInv
<1>c. ASSUME NEW u \in Updates, PushStep(u), u \notin W, Fetched' => Fetched
      PROVE  Mirrors'
  <2>1. /\ sub.open /\ sub'.queue = sub.queue /\ UNCHANGED <<trusted, view>>
        /\ Open => Pushed(updates, updates', u)
    BY <1>b, <1>c DEF PushStep
  <2>2. ASSUME Open PROVE /\ Told(sub.queue, updates, W, G) => Told(sub.queue, updates', W, G)
                          /\ Quiet(sub.queue, updates', W) => Quiet(sub.queue, updates, W)
    BY <1>q, <1>w, <1>c, <2>1, <2>2, SendStream
  <2> QED
    BY <1>a, <1>c, <2>1, <2>2
<1>d. ASSUME NEW u \in Updates, PushStep(u), u \in G, sub.open PROVE Mirrors'
  <2>1. /\ sub'.queue = sub.queue /\ UNCHANGED <<trusted, view, window>>
        /\ Open => Pushed(updates, updates', u)
    BY <1>d DEF PushStep
  <2>2. ASSUME Open PROVE Told(sub.queue, updates', W, G) /\ ~Quiet(sub.queue, updates', W)
    <3>1. LastIn(sub.queue, W, G)
      BY <1>a, <1>d
    <3> HIDE DEF W, G
    <3> QED
      BY <1>q, <1>w, <1>d, <2>1, <2>2, <3>1, SendStream
  <2> QED
    BY <1>a, <1>d, <2>1, <2>2 DEF Open
<1>1. CASE WindowStep
  <2>1. /\ UNCHANGED <<trusted, sub, thread, updates>> /\ (Open' <=> Open) /\ sub.open
        /\ view'.trusted = view.trusted
    BY <1>b, <1>1 DEF WindowStep
  <2> QED
    BY <1>a, <2>1
<1>2. ASSUME NEW ev \in Events, DaemonStep(ev) PROVE Mirrors'
  <2>1. /\ sub.open /\ sub'.queue = Append(sub.queue, ev)
        /\ UNCHANGED <<thread, updates, view, window>>
        /\ ev \in G' \/ (ev \notin W /\ (p \in trusted' <=> p \in trusted))
    BY <1>b, <1>2 DEF DaemonStep
  <2>2. CASE ev \in G'
    <3>1. Told(sub'.queue, updates', W, G') /\ ~Quiet(sub'.queue, updates', W)
      BY <1>q, <1>w, <2>1, <2>2, TellStream
    <3> QED
      BY <3>1 DEF Told
  <2>3. CASE ev \notin W /\ (p \in trusted' <=> p \in trusted)
    <3>0. G' = G
      BY <2>3 DEF TrustTruth
    <3>1. /\ LastIn(sub.queue, W, G) => LastIn(sub'.queue, W, G)
          /\ Told(sub.queue, updates, W, G) => Told(sub'.queue, updates, W, G)
          /\ Quiet(sub'.queue, updates, W) => Quiet(sub.queue, updates, W)
      <4> HIDE DEF W, G
      <4>1. ev \notin W
        BY <2>3
      <4>2. LET q == Append(sub.queue, ev) IN
            /\ LastIn(sub.queue, W, G) => LastIn(q, W, G)
            /\ Told(sub.queue, updates, W, G) => Told(q, updates, W, G)
            /\ Quiet(q, updates, W) => Quiet(sub.queue, updates, W)
        BY <1>q, <1>w, <1>2, <4>1, TellStream
      <4> QED
        BY <2>1, <4>2
    <3>2. Fetched' => Fetched
      BY <2>1 DEF Open
    <3> QED
      BY <1>a, <2>1, <2>3, <3>0, <3>1, <3>2
  <2> QED
    BY <2>1, <2>2, <2>3
<1>3. CASE (\E b \in BOOLEAN : ConnectFails(b)) \/ FetchConfig \/ FetchStatus
  <2>1. (\E u : PushStep(u)) /\ thread' \in {"connect", "status", "trusted"}
    BY <1>3, PushSteps
  <2>2. sub.open /\ sub'.queue = sub.queue /\ trusted' = trusted
    BY <1>b, <2>1 DEF PushStep
  <2> QED
    BY <1>a, <2>1, <2>2
<1>4. CASE FetchTrusted
  <2> DEFINE u == [kind |-> "trusted", peers |-> trusted]
  <2>1. PushStep(u)
    BY <1>4, PushSteps
  <2>2. u \in G /\ u \in Updates
    BY <2>1 DEF TrustTruth, TrustWrites, Trusts, PushStep
  <2> HIDE DEF u
  <2> QED
    BY <1>b, <1>d, <2>1, <2>2 DEF PushStep
<1>5. CASE Announce
  <2> DEFINE u == [kind |-> "connected"]
  <2>1. PushStep(u) /\ thread = "ready"
    BY <1>5, PushSteps
  <2>2. u \in Updates /\ u \notin W
    BY <2>1 DEF TrustWrites, PushStep
  <2> HIDE DEF u
  <2>3. Fetched' => Fetched
    BY <2>1 DEF PushStep, Open
  <2> QED
    BY <1>c, <2>1, <2>2, <2>3
<1>6. CASE PushReply
  <2>1. PushStep(reply) /\ reply \in Replies /\ thread' = thread
    BY <1>6, PushSteps
  <2>2. reply \in Updates /\ reply \notin W
    BY <2>1 DEF PushStep, Replies, TrustWrites
  <2>3. Fetched' => Fetched
    BY <2>1 DEF PushStep, Open
  <2> QED
    BY <1>c, <2>1, <2>2, <2>3
<1>7. CASE SetupFails \/ StreamEnds
  BY <1>b, <1>7, PushSteps DEF LossStep
<1>8. CASE ReadEvent \/ RefetchFails
  <2> DEFINE e == Head(sub.queue)
  <2>1. /\ sub.open /\ sub.queue # <<>> /\ sub'.queue = Tail(sub.queue) /\ e \in Events
        /\ UNCHANGED <<trusted, view, window, thread>>
        /\ config \in Configs
    BY <1>b, <1>8, ReadSteps DEF TypeInv
  <2>2. Fetched' => Fetched
    BY <2>1 DEF Open
  <2>3. LastIn(sub'.queue, W, G)
    <3>1. LastIn(sub.queue, W, G)
      BY <1>a, <2>1
    <3> HIDE DEF W, G
    <3>2. LastIn(Tail(sub.queue), W, G)
      BY <1>q, <1>w, <2>1, <3>1, TailStream
    <3> QED
      BY <2>1, <3>2
  <2>4. CASE e.kind # "config" /\ (Open => Pushed(updates, updates', e))
    <3>1. e \in Updates
      BY <2>1, <2>4, EventFacts
    <3>2. ASSUME Open, Told(sub.queue, updates, W, G)
          PROVE  /\ Told(sub'.queue, updates', W, G)
                 /\ Quiet(sub'.queue, updates', W) => Quiet(sub.queue, updates, W)
      <4> HIDE DEF W, G, e
      <4>1. Pushed(updates, updates', e)
        BY <2>4, <3>2
      <4>2. /\ Told(Tail(sub.queue), updates', W, G)
            /\ Quiet(Tail(sub.queue), updates', W) => Quiet(sub.queue, updates, W)
        BY <1>q, <1>w, <2>1, <3>1, <3>2, <4>1, ReadStream DEF e
      <4> QED
        BY <2>1, <4>2
    <3> QED
      BY <1>a, <2>1, <2>2, <2>3, <3>2
  <2>5. ASSUME e.kind = "config"
        PROVE  /\ e \notin W
               /\ Told(sub.queue, updates, W, G) => Told(sub'.queue, updates, W, G)
               /\ Quiet(sub'.queue, updates, W) => Quiet(sub.queue, updates, W)
    <3>1. e \notin W
      BY <2>5 DEF TrustWrites
    <3> QED
      BY <1>q, <1>w, <2>1, <3>1, SkipStream
  <2>6. CASE /\ e.kind = "config"
             /\ Open => Pushed(updates, updates', [kind |-> "config", config |-> config])
    <3> DEFINE u == [kind |-> "config", config |-> config]
    <3>1. u \in Updates /\ u \notin W /\ (Open => Pushed(updates, updates', u))
      BY <2>1, <2>6 DEF TrustWrites, Updates
    <3> HIDE DEF u
    <3>2. ASSUME Open
          PROVE  /\ Told(sub'.queue, updates, W, G) => Told(sub'.queue, updates', W, G)
                 /\ Quiet(sub'.queue, updates', W) => Quiet(sub'.queue, updates, W)
      BY <1>q, <1>w, <3>1, <3>2, SendStream
    <3> QED
      BY <1>a, <2>1, <2>2, <2>3, <2>5, <2>6, <3>2
  <2>7. CASE e.kind = "config" /\ UNCHANGED updates
    BY <1>a, <2>1, <2>2, <2>3, <2>5, <2>7
  <2> QED
    BY <1>8, <2>4, <2>6, <2>7, ReadSteps
<1>9. CASE Subscribe
  <2>1. sub'.queue = <<>> /\ thread' = "config"
    BY <1>9 DEF Subscribe
  <2> QED
    BY <2>1, EmptyStream
<1>10. CASE Drain
  <2> DEFINE u == Head(updates)
  <2>1. /\ Open /\ updates # <<>> /\ updates' = Tail(updates) /\ u \in Updates
        /\ view \in Views /\ view' = ApplyUpdate(view, u)
        /\ UNCHANGED <<trusted, sub, thread>>
    BY <1>10, DrainFacts
  <2>2. Fetched' => Fetched
    BY <2>1
  <2>3. ASSUME Told(sub.queue, updates, W, G)
        PROVE  /\ Told(sub.queue, updates', W, G)
               /\ Quiet(sub.queue, updates', W) =>
                    (u \in W => u \in G) /\ (u \notin W => Quiet(sub.queue, updates, W))
    BY <1>q, <1>w, <2>1, <2>3, DrainStream
  <2>4. /\ u \in G => (p \in view'.trusted <=> p \in trusted)
        /\ u \notin W => (p \in view'.trusted <=> p \in view.trusted)
    <3> HIDE DEF u
    <3>1. /\ u \in TrustWrites(p) => (p \in view'.trusted <=> Trusts(u, p))
          /\ u \notin TrustWrites(p) => (p \in view'.trusted <=> p \in view.trusted)
      BY <2>1, ApplyFacts
    <3> QED
      BY <3>1 DEF TrustTruth
  <2> HIDE DEF u
  <2> QED
    BY <1>a, <1>b, <2>1, <2>2, <2>3, <2>4
<1>11. CASE Crash \/ Quit
  BY <1>a, <1>b, <1>11, EndFacts
<1> QED
  BY <1>1, <1>2, <1>3, <1>4, <1>5, <1>6, <1>7, <1>8, <1>9, <1>10, <1>11, NextSteps

\* A lost connection closes every dialog.
LEMMA DialogConnectStep ==
    ASSUME TypeInv, LinkInv, NEW p \in Peers, DialogInv(p), [Next]_vars, Open', thread' = "connect"
    PROVE  /\ LastIn(updates', DialogWrites(p), DialogTruth(p, {}))
           /\ Silent(updates', DialogWrites(p)) => p \notin view'.dialogs
<1> DEFINE W == DialogWrites(p)
           G == DialogTruth(p, {})
           Cleared == LastIn(updates, W, G) /\ (Silent(updates, W) => p \notin view.dialogs)
<1>a. (Open /\ thread = "connect" => Cleared) /\ (sub.open => up)
  BY DEF DialogInv, LinkInv
<1>q. updates \in Seq(Updates)
  BY DEF TypeInv
<1>w. G \in SUBSET W /\ Offline \in G /\ Launching \notin W
  BY TruthsAreWrites, NoticesAreUpdates DEF DialogTruth, DialogWrites, Offline, Launching
<1>c. SUFFICES Cleared'
  OBVIOUS
<1>d. ASSUME NEW u \in Updates, Pushed(updates, updates', u), u \notin W, Cleared, view' = view
      PROVE  Cleared'
  <2>1. /\ LastIn(updates, W, G) => LastIn(updates', W, G)
        /\ Silent(updates', W) <=> Silent(updates, W)
    <3> HIDE DEF W, G
    <3> QED
      BY <1>q, <1>w, <1>d, PushStream
  <2> QED
    BY <1>d, <2>1
<1>e. ASSUME Pushed(updates, updates', Offline) PROVE Cleared'
  <2>1. Offline \in W /\ Offline \in G /\ Offline \in Updates
    BY <1>w, NoticesAreUpdates
  <2>2. LastIn(updates', W, G) /\ ~Silent(updates', W)
    <3> HIDE DEF W, G
    <3> QED
      BY <1>q, <1>w, <1>e, <2>1, PushStream
  <2> QED
    BY <2>2
<1>1. CASE WindowStep
  <2>1. UNCHANGED <<thread, updates>> /\ (Open' <=> Open) /\ view'.dialogs \subseteq view.dialogs
    BY <1>1 DEF WindowStep
  <2> QED
    BY <1>a, <2>1
<1>2. CASE \E ev \in Events : DaemonStep(ev)
  <2>1. UNCHANGED <<thread, updates, view, window>>
    BY <1>2 DEF DaemonStep
  <2> QED
    BY <1>a, <2>1 DEF Open
<1>3. CASE \E b \in BOOLEAN : ConnectFails(b)
  <2>1. (PushStep(Offline) \/ PushStep(Launching)) /\ thread = "connect"
    BY <1>3, PushSteps
  <2>2. /\ Open /\ view' = view
        /\ Pushed(updates, updates', Offline) \/ Pushed(updates, updates', Launching)
    BY <2>1 DEF PushStep, Open
  <2> QED
    BY <1>a, <1>w, <1>d, <1>e, <2>1, <2>2, NoticesAreUpdates
<1>4. CASE FetchConfig \/ FetchStatus \/ FetchTrusted \/ Announce
  BY <1>4, PushSteps
<1>5. CASE PushReply
  <2>1. PushStep(reply) /\ reply \in Replies /\ thread' = thread
    BY <1>5, PushSteps
  <2>2. reply \in Updates /\ reply \notin W /\ Open /\ view' = view
    BY <2>1 DEF PushStep, Replies, DialogWrites, Open
  <2>3. Pushed(updates, updates', reply)
    BY <2>1, <2>2 DEF PushStep
  <2> QED
    BY <1>a, <1>d, <2>1, <2>2, <2>3
<1>6. CASE SetupFails \/ StreamEnds
  <2>1. LossStep
    BY <1>6, PushSteps
  <2>2. Pushed(updates, updates', Offline)
    BY <2>1 DEF LossStep, Open
  <2> QED
    BY <1>e, <2>2
<1>7. CASE ReadEvent \/ RefetchFails
  BY <1>7, ReadSteps
<1>8. CASE Subscribe
  BY <1>8 DEF Subscribe
<1>9. CASE Drain
  <2> DEFINE u == Head(updates)
  <2>1. /\ Open /\ updates # <<>> /\ updates' = Tail(updates) /\ u \in Updates
        /\ view \in Views /\ view' = ApplyUpdate(view, u) /\ UNCHANGED thread
    BY <1>9, DrainFacts
  <2>2. /\ LastIn(updates, W, G) => LastIn(Tail(updates), W, G)
        /\ Silent(updates, W) <=> u \notin W /\ Silent(Tail(updates), W)
        /\ LastIn(updates, W, G) /\ Silent(Tail(updates), W) /\ u \in W => u \in G
    <3> HIDE DEF W, G
    <3> QED
      BY <1>q, <1>w, <2>1, TailStream
  <2> HIDE DEF u
  <2>3. /\ u \in W => (p \in view'.dialogs <=> u.kind = "proposed")
        /\ u \notin W => (p \in view'.dialogs <=> p \in view.dialogs)
    BY <2>1, ApplyFacts
  <2>4. u \in G => u.kind # "proposed"
    BY DEF DialogTruth
  <2> QED
    BY <1>a, <1>w, <2>1, <2>2, <2>3, <2>4
<1>10. CASE Crash \/ Quit
  <2>1. thread' = thread /\ (UNCHANGED <<updates, view, window>> \/ ~Open')
    BY <1>a, <1>10, EndFacts
  <2> QED
    BY <1>a, <2>1 DEF Open
<1> QED
  BY <1>1, <1>2, <1>3, <1>4, <1>5, <1>6, <1>7, <1>8, <1>9, <1>10, NextSteps

\* The dialogs, one peer at a time.
LEMMA DialogStep ==
    ASSUME TypeInv, LinkInv, NEW p \in Peers, DialogInv(p), [Next]_vars
    PROVE  DialogInv(p)'
<1> DEFINE W == DialogWrites(p)
           G == DialogTruth(p, proposals)
           Fetched == Open /\ thread # "connect"
           Mirrors == Fetched => /\ Told(sub.queue, updates, W, G)
                                 /\ Quiet(sub.queue, updates, W) =>
                                      (p \in view.dialogs => p \in proposals)
<1>a. (sub.open => Mirrors) /\ (sub.open => up)
  BY DEF DialogInv, LinkInv
<1>q. updates \in Seq(Updates) /\ sub.queue \in Seq(Events)
  BY DEF TypeInv, Subs
<1>w. G \in SUBSET W /\ G' \in SUBSET W
  BY TruthsAreWrites
<1>b. SUFFICES ASSUME sub'.open PROVE Mirrors'
  <2>1. Open' /\ thread' = "connect" =>
          /\ LastIn(updates', DialogWrites(p), DialogTruth(p, {}))
          /\ Silent(updates', DialogWrites(p)) => p \notin view'.dialogs
    BY DialogConnectStep
  <2> QED
    BY <2>1 DEF DialogInv
<1>c. ASSUME NEW u \in Updates, PushStep(u), u \notin W, Fetched' => Fetched
      PROVE  Mirrors'
  <2>1. /\ sub.open /\ sub'.queue = sub.queue /\ UNCHANGED <<proposals, view>>
        /\ Open => Pushed(updates, updates', u)
    BY <1>b, <1>c DEF PushStep
  <2>2. ASSUME Open PROVE /\ Told(sub.queue, updates, W, G) => Told(sub.queue, updates', W, G)
                          /\ Quiet(sub.queue, updates', W) => Quiet(sub.queue, updates, W)
    BY <1>q, <1>w, <1>c, <2>1, <2>2, SendStream
  <2> QED
    BY <1>a, <1>c, <2>1, <2>2
<1>1. CASE WindowStep
  <2>1. /\ UNCHANGED <<proposals, sub, thread, updates>> /\ (Open' <=> Open) /\ sub.open
        /\ view'.dialogs \subseteq view.dialogs
    BY <1>b, <1>1 DEF WindowStep
  <2> QED
    BY <1>a, <2>1
<1>2. ASSUME NEW ev \in Events, DaemonStep(ev) PROVE Mirrors'
  <2>1. /\ sub.open /\ sub'.queue = Append(sub.queue, ev)
        /\ UNCHANGED <<thread, updates, view, window>>
        /\ ev \in G' \/ (ev \notin W /\ (p \in proposals' <=> p \in proposals))
    BY <1>b, <1>2 DEF DaemonStep
  <2>2. CASE ev \in G'
    <3>1. Told(sub'.queue, updates', W, G') /\ ~Quiet(sub'.queue, updates', W)
      BY <1>q, <1>w, <2>1, <2>2, TellStream
    <3> QED
      BY <3>1 DEF Told
  <2>3. CASE ev \notin W /\ (p \in proposals' <=> p \in proposals)
    <3>0. G' = G
      BY <2>3 DEF DialogTruth
    <3>1. /\ Told(sub.queue, updates, W, G) => Told(sub'.queue, updates, W, G)
          /\ Quiet(sub'.queue, updates, W) => Quiet(sub.queue, updates, W)
      <4> HIDE DEF W, G
      <4>1. ev \notin W
        BY <2>3
      <4>2. LET q == Append(sub.queue, ev) IN
            /\ Told(sub.queue, updates, W, G) => Told(q, updates, W, G)
            /\ Quiet(q, updates, W) => Quiet(sub.queue, updates, W)
        BY <1>q, <1>w, <1>2, <4>1, TellStream
      <4> QED
        BY <2>1, <4>2
    <3>2. Fetched' => Fetched
      BY <2>1 DEF Open
    <3> QED
      BY <1>a, <2>1, <2>3, <3>0, <3>1, <3>2
  <2> QED
    BY <2>1, <2>2, <2>3
<1>3. CASE \E b \in BOOLEAN : ConnectFails(b)
  BY <1>3, PushSteps
<1>4. ASSUME NEW u \in Updates, PushStep(u), u.kind \in {"config", "status", "trusted", "connected"},
             thread' # "connect" => thread # "connect"
      PROVE  Mirrors'
  <2>1. u \notin W
    BY <1>4 DEF DialogWrites
  <2>2. Fetched' => Fetched
    BY <1>4 DEF PushStep, Open
  <2> QED
    BY <1>c, <1>4, <2>1, <2>2
<1>5. CASE FetchConfig \/ FetchStatus \/ FetchTrusted \/ Announce
  <2>1. /\ \/ PushStep([kind |-> "config", config |-> config])
           \/ PushStep([kind |-> "status", state |-> state])
           \/ PushStep([kind |-> "trusted", peers |-> trusted])
           \/ PushStep([kind |-> "connected"])
        /\ thread # "connect"
    BY <1>5, PushSteps
  <2>2. /\ [kind |-> "config", config |-> config].kind = "config"
        /\ [kind |-> "status", state |-> state].kind = "status"
        /\ [kind |-> "trusted", peers |-> trusted].kind = "trusted"
        /\ [kind |-> "connected"].kind = "connected"
    OBVIOUS
  <2>3. \A u : PushStep(u) => u \in Updates
    BY DEF PushStep
  <2> QED
    BY <1>4, <2>1, <2>2, <2>3
<1>6. CASE PushReply
  <2>1. PushStep(reply) /\ reply \in Replies /\ thread' = thread
    BY <1>6, PushSteps
  <2>2. reply \in Updates /\ reply.kind = "status"
    BY <2>1 DEF PushStep, Replies
  <2> QED
    BY <1>4, <2>1, <2>2
<1>7. CASE SetupFails \/ StreamEnds
  BY <1>b, <1>7, PushSteps DEF LossStep
<1>8. CASE ReadEvent \/ RefetchFails
  <2> DEFINE e == Head(sub.queue)
  <2>1. /\ sub.open /\ sub.queue # <<>> /\ sub'.queue = Tail(sub.queue) /\ e \in Events
        /\ UNCHANGED <<proposals, view, window, thread>>
        /\ config \in Configs
    BY <1>b, <1>8, ReadSteps DEF TypeInv
  <2>2. Fetched' => Fetched
    BY <2>1 DEF Open
  <2>4. CASE e.kind # "config" /\ (Open => Pushed(updates, updates', e))
    <3>1. e \in Updates
      BY <2>1, <2>4, EventFacts
    <3>2. ASSUME Open, Told(sub.queue, updates, W, G)
          PROVE  /\ Told(sub'.queue, updates', W, G)
                 /\ Quiet(sub'.queue, updates', W) => Quiet(sub.queue, updates, W)
      <4> HIDE DEF W, G, e
      <4>1. Pushed(updates, updates', e)
        BY <2>4, <3>2
      <4>2. /\ Told(Tail(sub.queue), updates', W, G)
            /\ Quiet(Tail(sub.queue), updates', W) => Quiet(sub.queue, updates, W)
        BY <1>q, <1>w, <2>1, <3>1, <3>2, <4>1, ReadStream DEF e
      <4> QED
        BY <2>1, <4>2
    <3> QED
      BY <1>a, <2>1, <2>2, <3>2
  <2>5. ASSUME e.kind = "config"
        PROVE  /\ e \notin W
               /\ Told(sub.queue, updates, W, G) => Told(sub'.queue, updates, W, G)
               /\ Quiet(sub'.queue, updates, W) => Quiet(sub.queue, updates, W)
    <3>1. e \notin W
      BY <2>5 DEF DialogWrites
    <3> QED
      BY <1>q, <1>w, <2>1, <3>1, SkipStream
  <2>6. CASE /\ e.kind = "config"
             /\ Open => Pushed(updates, updates', [kind |-> "config", config |-> config])
    <3> DEFINE u == [kind |-> "config", config |-> config]
    <3>1. u \in Updates /\ u \notin W /\ (Open => Pushed(updates, updates', u))
      BY <2>1, <2>6 DEF DialogWrites, Updates
    <3> HIDE DEF u
    <3>2. ASSUME Open
          PROVE  /\ Told(sub'.queue, updates, W, G) => Told(sub'.queue, updates', W, G)
                 /\ Quiet(sub'.queue, updates', W) => Quiet(sub'.queue, updates, W)
      BY <1>q, <1>w, <3>1, <3>2, SendStream
    <3> QED
      BY <1>a, <2>1, <2>2, <2>5, <2>6, <3>2
  <2>7. CASE e.kind = "config" /\ UNCHANGED updates
    BY <1>a, <2>1, <2>2, <2>5, <2>7
  <2> QED
    BY <1>8, <2>4, <2>6, <2>7, ReadSteps
<1>9. CASE Subscribe
  <2>1. /\ sub'.queue = <<>> /\ thread = "connect"
        /\ UNCHANGED <<updates, proposals, view, window>>
    BY <1>9 DEF Subscribe, EventThread
  <2>2. ASSUME Open
        PROVE  /\ LastIn(updates, W, DialogTruth(p, {}))
               /\ Silent(updates, W) => p \notin view.dialogs
    BY <2>1, <2>2 DEF DialogInv
  <2>3. \A u \in DialogTruth(p, {}) : u \in G
    BY DEF DialogTruth
  <2>4. ASSUME Open PROVE LastIn(updates, W, G)
    <3> HIDE DEF W, G
    <3> QED
      BY <2>2, <2>3, <2>4 DEF LastIn
  <2>5. LastIn(<<>>, W, G)
    BY EmptyStream
  <2> HIDE DEF W, G
  <2>6. Mirrors' <=> (Open' /\ thread' # "connect" =>
                        /\ Told(sub'.queue, updates', W', G')
                        /\ Quiet(sub'.queue, updates', W') =>
                             (p \in view'.dialogs => p \in proposals'))
    OBVIOUS
  <2>7. W' = W /\ G' = G
    BY <2>1 DEF W, G
  <2>8. Open' <=> Open
    BY <2>1 DEF Open
  <2> QED
    BY <2>1, <2>2, <2>4, <2>5, <2>6, <2>7, <2>8 DEF Told, Quiet
<1>10. CASE Drain
  <2> DEFINE u == Head(updates)
  <2>1. /\ Open /\ updates # <<>> /\ updates' = Tail(updates) /\ u \in Updates
        /\ view \in Views /\ view' = ApplyUpdate(view, u)
        /\ UNCHANGED <<proposals, sub, thread>>
    BY <1>10, DrainFacts
  <2>2. Fetched' => Fetched
    BY <2>1
  <2>3. ASSUME Told(sub.queue, updates, W, G)
        PROVE  /\ Told(sub.queue, updates', W, G)
               /\ Quiet(sub.queue, updates', W) =>
                    (u \in W => u \in G) /\ (u \notin W => Quiet(sub.queue, updates, W))
    BY <1>q, <1>w, <2>1, <2>3, DrainStream
  <2>4. /\ u \in G => (p \in view'.dialogs => p \in proposals)
        /\ u \notin W => (p \in view'.dialogs <=> p \in view.dialogs)
    <3> HIDE DEF u
    <3>1. /\ u \in DialogWrites(p) => (p \in view'.dialogs <=> u.kind = "proposed")
          /\ u \notin DialogWrites(p) => (p \in view'.dialogs <=> p \in view.dialogs)
      BY <2>1, ApplyFacts
    <3> QED
      BY <3>1 DEF DialogTruth
  <2> HIDE DEF u
  <2> QED
    BY <1>a, <1>b, <2>1, <2>2, <2>3, <2>4
<1>11. CASE Crash \/ Quit
  BY <1>a, <1>b, <1>11, EndFacts
<1> QED
  BY <1>1, <1>2, <1>3, <1>4, <1>5, <1>6, <1>7, <1>8, <1>9, <1>10, <1>11, NextSteps

\* drain_ipc's Config arm.
LEMMA ApplyConfigArm ==
    ASSUME NEW v \in Views, NEW u \in Updates, u.kind = "config"
    PROVE  ApplyUpdate(v, u) = ApplyConfig(v, u.config)
BY ApplyFacts

\* What clicks do to the buffer, the banner and the commands.
LEMMA ClickEffects ==
    ASSUME TypeInv,
           \/ \E e \in UserEdits : Edit(e) \/ ToggleAutostart(e) \/ UseAsServer(e)
           \/ \E a \in BOOLEAN : EditAudio(a)
           \/ Apply \/ Revert \/ Start \/ Stop \/ Restart
           \/ \E p \in Peers : RevokeTrust(p) \/ Decide(p)
    PROVE  /\ \/ commands' = commands
              \/ \E c \in Commands : c.kind # "set_config" /\ commands' = Append(commands, c)
              \/ /\ ~NoKind(commands', "set_config") /\ view'.pending = None /\ view'.based
                 /\ NoBlindPush => NoBlindPush'
           /\ \/ /\ UNCHANGED <<view.config, view.dirty, view.pending, view.based>>
              \/ view'.dirty /\ UNCHANGED <<view.pending, view.based>>
              \/ ~NoWriter(commands') /\ UNCHANGED <<view.dirty, view.pending, view.based>>
              \/ /\ ~view'.dirty /\ view'.pending = None
                 /\ \/ view'.based /\ view.pending # None /\ view'.config = view.pending
                    \/ view'.based /\ ~NoKind(commands', "set_config")
                    \/ view'.based = view.based /\ view.pending = None /\ "config" \in stale'
<1> DEFINE Sends == \/ commands' = commands
                    \/ \E c \in Commands : c.kind # "set_config" /\ commands' = Append(commands, c)
                    \/ /\ ~NoKind(commands', "set_config") /\ view'.pending = None /\ view'.based
                       /\ NoBlindPush => NoBlindPush'
           Edits == \/ UNCHANGED <<view.config, view.dirty, view.pending, view.based>>
                    \/ view'.dirty /\ UNCHANGED <<view.pending, view.based>>
                    \/ ~NoWriter(commands') /\ UNCHANGED <<view.dirty, view.pending, view.based>>
                    \/ /\ ~view'.dirty /\ view'.pending = None
                       /\ \/ view'.based /\ view.pending # None /\ view'.config = view.pending
                          \/ view'.based /\ ~NoKind(commands', "set_config")
                          \/ view'.based = view.based /\ view.pending = None /\ "config" \in stale'
<1>a. view \in Views /\ view.config \in Configs /\ commands \in Seq(Commands)
  BY DEF TypeInv, Views
<1>1. ASSUME NEW e \in UserEdits, Edit(e) \/ ToggleAutostart(e) PROVE Sends /\ Edits
  <2>1. /\ view' = [view EXCEPT !.config = [view.config EXCEPT !.edit = e], !.dirty = TRUE]
        /\ commands' = commands
    BY <1>1, <1>a DEF Edit, ToggleAutostart, Views
  <2>2. view'.dirty /\ view'.pending = view.pending /\ view'.based = view.based
    BY <1>a, <2>1 DEF Views
  <2> QED
    BY <2>1, <2>2
<1>2. ASSUME NEW c,
             \/ commands' = Append(commands, SetConfig(c, TRUE, view.based))
             \/ commands' = commands \o <<SetConfig(c, TRUE, view.based),
                                          [kind |-> "core", state |-> "running"]>>
      PROVE  ~NoKind(commands', "set_config") /\ (NoBlindPush => NoBlindPush')
  <2> DEFINE x == SetConfig(c, TRUE, view.based)
             y == [kind |-> "core", state |-> "running"]
  <2>1. x.kind = "set_config" /\ x.click /\ y.kind # "set_config"
    BY DEF SetConfig
  <2> HIDE DEF x, y
  <2>2. /\ Len(commands) + 1 \in DOMAIN commands' /\ commands'[Len(commands) + 1] = x
        /\ \A i \in DOMAIN commands' : \/ i \in DOMAIN commands /\ commands'[i] = commands[i]
                                       \/ commands'[i] = x \/ commands'[i] = y
    <3>1. CASE commands' = Append(commands, x)
      BY <1>a, <3>1, SMT
    <3>2. CASE commands' = commands \o <<x, y>>
      BY <1>a, <3>2, SMT
    <3> QED
      BY <1>2, <3>1, <3>2 DEF x, y
  <2> QED
    BY <2>1, <2>2 DEF NoKind, NoBlindPush
<1>3. ASSUME NEW e \in UserEdits, UseAsServer(e) PROVE Sends /\ Edits
  <2> DEFINE c == [view.config EXCEPT !.edit = e]
             y == [kind |-> "core", state |-> "running"]
  <2>1. /\ view' = [view EXCEPT !.config = c, !.dirty = FALSE, !.pending = None, !.based = TRUE]
        /\ commands' = commands \o <<SetConfig(c, TRUE, view.based), y>>
    BY <1>3 DEF UseAsServer
  <2> HIDE DEF c, y
  <2>2. ~view'.dirty /\ view'.pending = None /\ view'.based
    BY <1>a, <2>1 DEF Views
  <2>3. ~NoKind(commands', "set_config") /\ (NoBlindPush => NoBlindPush')
    BY <1>2, <2>1 DEF y
  <2> QED
    BY <2>2, <2>3
<1>4. ASSUME Apply PROVE Sends /\ Edits
  <2>1. /\ view' = [view EXCEPT !.dirty = FALSE, !.pending = None, !.based = TRUE]
        /\ commands' = Append(commands, SetConfig(view.config, TRUE, view.based))
    BY <1>4 DEF Apply, Send
  <2>2. ~view'.dirty /\ view'.pending = None /\ view'.based
    BY <1>a, <2>1 DEF Views
  <2>3. ~NoKind(commands', "set_config") /\ (NoBlindPush => NoBlindPush')
    BY <1>2, <2>1
  <2> QED
    BY <2>2, <2>3
<1>5. ASSUME Revert PROVE Sends /\ Edits
  <2>1. CASE view.pending # None
    <3>1. /\ view' = [view EXCEPT !.dirty = FALSE, !.pending = None, !.based = TRUE,
                                  !.config = view.pending]
          /\ commands' = commands
      BY <1>5, <2>1 DEF Revert
    <3>2. ~view'.dirty /\ view'.pending = None /\ view'.based /\ view'.config = view.pending
      BY <1>a, <3>1 DEF Views
    <3> QED
      BY <2>1, <3>1, <3>2
  <2>2. CASE view.pending = None
    <3>1. /\ view' = [view EXCEPT !.dirty = FALSE]
          /\ Send([kind |-> "refresh"]) /\ "config" \in stale'
      BY <1>5, <2>2 DEF Revert
    <3>2. ~view'.dirty /\ view'.pending = None /\ view'.based = view.based
      BY <1>a, <2>2, <3>1 DEF Views
    <3>3. /\ [kind |-> "refresh"] \in Commands /\ [kind |-> "refresh"].kind # "set_config"
          /\ commands' = Append(commands, [kind |-> "refresh"])
      BY <3>1, SMT DEF Commands, Send
    <3> QED
      BY <2>2, <3>1, <3>2, <3>3
  <2> QED
    BY <2>1, <2>2
<1>6. ASSUME Start \/ Stop \/ Restart PROVE Sends /\ Edits
  <2>1. PICK s \in States : Send([kind |-> "core", state |-> s])
    BY <1>6 DEF Start, Stop, Restart, States
  <2>2. /\ [kind |-> "core", state |-> s] \in Commands
        /\ [kind |-> "core", state |-> s].kind # "set_config"
        /\ commands' = Append(commands, [kind |-> "core", state |-> s])
    BY <2>1 DEF Commands, Send
  <2>3. view' = view
    BY <1>6 DEF Start, Stop, Restart
  <2> QED
    BY <2>2, <2>3
<1>7. ASSUME NEW p \in Peers, RevokeTrust(p) PROVE Sends /\ Edits
  <2>1. /\ [kind |-> "revoke", peer |-> p] \in Commands
        /\ [kind |-> "revoke", peer |-> p].kind # "set_config"
        /\ commands' = Append(commands, [kind |-> "revoke", peer |-> p])
        /\ view' = view
    BY <1>7 DEF Commands, Send, RevokeTrust
  <2> QED
    BY <2>1
<1>8. ASSUME NEW p \in Peers, Decide(p) PROVE Sends /\ Edits
  <2>1. view' = [view EXCEPT !.dialogs = @ \ {p}] /\ commands' = commands
    BY <1>8 DEF Decide
  <2>2. UNCHANGED <<view.config, view.dirty, view.pending, view.based>>
    BY <1>a, <2>1 DEF Views
  <2> QED
    BY <2>1, <2>2
<1>9. ASSUME NEW a \in BOOLEAN, EditAudio(a) PROVE Sends /\ Edits
  <2> DEFINE x == [kind |-> "set_audio", audio |-> a]
  <2>1. /\ x \in Commands /\ x.kind # "set_config" /\ x.kind = "set_audio"
    BY DEF Commands
  <2>2. commands' = Append(commands, x)
    BY <1>9 DEF EditAudio, Send
  <2> HIDE DEF x
  <2>3. view' = [view EXCEPT !.config = [view.config EXCEPT !.audio = a]]
    BY <1>9, <1>a DEF EditAudio, Views
  <2>4. UNCHANGED <<view.dirty, view.pending, view.based>>
    BY <1>a, <2>3 DEF Views
  <2>5. ~NoWriter(commands')
    BY <1>a, <2>1, <2>2, KindStream DEF NoWriter
  <2> QED
    BY <2>1, <2>2, <2>4, <2>5
<1> QED
  BY <1>1, <1>3, <1>4, <1>5, <1>6, <1>7, <1>8, <1>9

\* The buffer and the banner.
LEMMA ConfigStep ==
    ASSUME TypeInv, LinkInv, ConfigInv, [Next]_vars
    PROVE  ConfigInv'
<1> DEFINE W == ConfigWrites
           G == ConfigTruth(config)
           Banner == view.pending # None => view.dirty
           Fits == /\ ~view.dirty => view.config = config
                   /\ view.pending # None => view.pending = config
           Holds == LastIn(updates, W, G) /\ (Silent(updates, W) => Fits)
<1>a. Banner /\ (ConfigDue => Holds) /\ (sub.open => up)
  BY DEF ConfigInv, LinkInv
<1>q. /\ updates \in Seq(Updates) /\ sub.queue \in Seq(Events) /\ commands \in Seq(Commands)
      /\ config \in Configs
  BY DEF TypeInv, Subs
<1>w. G \in SUBSET W /\ G' \in SUBSET W
  BY TruthsAreWrites
<1>b. SUFFICES Banner' /\ (ConfigDue' => Holds')
  BY DEF ConfigInv
<1>c. ASSUME UNCHANGED <<updates, config, view.config, view.dirty, view.pending>>,
             ConfigDue' => ConfigDue
      PROVE  Banner' /\ (ConfigDue' => Holds')
  BY <1>a, <1>c
<1>d. ASSUME NEW u \in Updates, UNCHANGED <<config, view>>, Open => Pushed(updates, updates', u),
             ConfigDue' => Open, u \notin W, ConfigDue' => ConfigDue
      PROVE  Banner' /\ (ConfigDue' => Holds')
  <2>1. ASSUME Open PROVE /\ LastIn(updates, W, G) => LastIn(updates', W, G)
                          /\ Silent(updates', W) <=> Silent(updates, W)
    <3> HIDE DEF W, G
    <3> QED
      BY <1>q, <1>w, <1>d, <2>1, PushStream
  <2> QED
    BY <1>a, <1>d, <2>1
<1>e. ASSUME UNCHANGED <<config, view>>, ConfigDue' => Open,
             Open => Pushed(updates, updates', [kind |-> "config", config |-> config])
      PROVE  Banner' /\ (ConfigDue' => Holds')
  <2> DEFINE u == [kind |-> "config", config |-> config]
  <2>1. u \in Updates /\ u \in G /\ u \in W
    BY <1>q DEF Updates, ConfigTruth, ConfigWrites
  <2> HIDE DEF u
  <2>2. Open => Pushed(updates, updates', u)
    BY <1>e DEF u
  <2>3. ASSUME Open PROVE LastIn(updates', W, G) /\ ~Silent(updates', W)
    <3> HIDE DEF W, G
    <3> QED
      BY <1>q, <1>w, <2>1, <2>2, <2>3, PushStream
  <2> QED
    BY <1>a, <1>e, <2>3
<1>1. CASE \/ \E e \in UserEdits : Edit(e) \/ ToggleAutostart(e) \/ UseAsServer(e)
           \/ \E a \in BOOLEAN : EditAudio(a)
           \/ Apply \/ Revert \/ Start \/ Stop \/ Restart
           \/ \E p \in Peers : RevokeTrust(p) \/ Decide(p)
  <2>1. /\ UNCHANGED <<config, sub, thread, updates, window>> /\ stale \subseteq stale'
    BY <1>1, ClickSteps DEF WindowStep
  <2>2. ASSUME ConfigDue' PROVE ConfigDue
    <3>1. NoWriter(commands)
      <4>1. \A c \in Commands : NoWriter(Append(commands, c)) => NoWriter(commands)
        BY <1>q, KindStream DEF NoWriter
      <4>2. NoWriter(commands') /\ NoKind(commands', "set_config")
        BY <2>2 DEF ConfigDue, NoWriter
      <4> QED
        BY <1>1, <4>1, <4>2, ClickEffects
    <3> QED
      BY <2>1, <2>2, <3>1 DEF ConfigDue, Open
  <2>3. \/ UNCHANGED <<view.config, view.dirty, view.pending>>
        \/ view'.dirty /\ view'.pending = view.pending
        \/ UNCHANGED <<view.dirty, view.pending>> /\ ~ConfigDue'
        \/ /\ ~view'.dirty /\ view'.pending = None
           /\ \/ view.pending # None /\ view'.config = view.pending
              \/ ~ConfigDue'
    BY <1>1, ClickEffects DEF ConfigDue, NoWriter
  <2>4. CASE UNCHANGED <<view.config, view.dirty, view.pending>>
    BY <1>c, <2>1, <2>2, <2>4
  <2>5. CASE view'.dirty /\ view'.pending = view.pending
    BY <1>a, <2>1, <2>2, <2>5
  <2>6. CASE ~view'.dirty /\ view'.pending = None /\ view.pending # None
             /\ view'.config = view.pending
    BY <1>a, <2>1, <2>2, <2>6
  <2>7. CASE ~view'.dirty /\ view'.pending = None /\ ~ConfigDue'
    BY <2>7
  <2>8. CASE UNCHANGED <<view.dirty, view.pending>> /\ ~ConfigDue'
    BY <1>a, <2>8
  <2> QED
    BY <2>3, <2>4, <2>5, <2>6, <2>7, <2>8
<1>2. ASSUME NEW due \in BOOLEAN, Frame(due) PROVE Banner' /\ (ConfigDue' => Holds')
  <2>1. /\ WindowStep /\ updates = <<>> /\ view'.pending = view.pending
        /\ \/ /\ view'.config = view.config /\ view'.dirty = view.dirty /\ commands' = commands
           \/ /\ view.pending = None
              /\ commands' = Append(commands, SetConfig(view'.config, FALSE, view.based))
        /\ "config" \in stale /\ "config" \notin stale' => ~view'.dirty /\ view'.config = config
    BY <1>2, FrameSteps
  <2>2. /\ UNCHANGED <<config, sub, thread, updates>> /\ (Open' <=> Open)
        /\ commands' \in Seq(Commands)
    BY <2>1 DEF WindowStep
  <2>3. CASE view'.config = view.config /\ view'.dirty = view.dirty /\ commands' = commands
    <3>1. CASE "config" \notin stale
      <4>1. ConfigDue' => ConfigDue
        BY <2>2, <2>3, <3>1 DEF ConfigDue
      <4> QED
        BY <1>c, <2>1, <2>2, <2>3, <4>1
    <3>2. CASE "config" \in stale /\ "config" \notin stale'
      <4>1. LastIn(<<>>, W, G)
        BY EmptyStream
      <4> QED
        BY <1>a, <2>1, <2>2, <2>3, <3>2, <4>1
    <3>3. CASE "config" \in stale'
      BY <1>a, <2>1, <2>3, <3>3 DEF ConfigDue
    <3> QED
      BY <3>1, <3>2, <3>3
  <2>4. CASE /\ view.pending = None
             /\ commands' = Append(commands, SetConfig(view'.config, FALSE, view.based))
    <3> DEFINE x == SetConfig(view'.config, FALSE, view.based)
    <3>1. x.kind = "set_config"
      BY DEF SetConfig
    <3> HIDE DEF x
    <3>2. commands' = Append(commands, x)
      BY <2>4 DEF x
    <3>3. ~NoKind(commands', "set_config")
      <4>1. Len(commands) + 1 \in DOMAIN commands' /\ commands'[Len(commands) + 1] = x
        BY <1>q, <3>2, SMT
      <4> QED
        BY <3>1, <4>1 DEF NoKind
    <3> QED
      BY <2>1, <2>4, <3>3 DEF ConfigDue, NoWriter
  <2> QED
    BY <2>1, <2>3, <2>4
<1>3. CASE Boot \/ BootFails \/ Exit \/ DispatchFails
  <2>1. /\ WindowStep /\ UNCHANGED view /\ stale \subseteq stale'
        /\ commands' = commands \/ DispatchFails
    BY <1>3, QuietSteps
  <2>2. UNCHANGED <<config, sub, thread, updates>> /\ (Open' <=> Open)
    BY <2>1 DEF WindowStep
  <2>3. ASSUME ConfigDue' PROVE NoWriter(commands)
    <3>1. CASE commands' = commands
      BY <2>3, <3>1 DEF ConfigDue
    <3>2. CASE DispatchFails
      <4>1. /\ commands # <<>> /\ commands' = Tail(commands)
            /\ Head(commands).kind \notin Writers
        BY <2>3, <3>2 DEF DispatchFails, ConfigDue, Writers
      <4>2. NoWriter(Tail(commands))
        BY <2>3, <4>1 DEF ConfigDue
      <4> QED
        BY <1>q, <4>1, <4>2, KindStream DEF NoWriter, Writers
    <3> QED
      BY <2>1, <3>1, <3>2
  <2>4. ConfigDue' => ConfigDue
    BY <2>1, <2>2, <2>3 DEF ConfigDue
  <2> QED
    BY <1>c, <2>1, <2>2, <2>4
<1>4. ASSUME NEW ev \in Events, DaemonStep(ev),
             ev.kind # "config" => /\ config' = config
                                   /\ NoWriter(commands') => NoWriter(commands)
      PROVE  Banner' /\ (ConfigDue' => Holds')
  <2>1. /\ UNCHANGED <<thread, updates, view, window>> /\ stale \subseteq stale'
        /\ (sub'.open => sub.open /\ sub'.queue = Append(sub.queue, ev))
    BY <1>4 DEF DaemonStep
  <2>2. NoKind(Append(sub.queue, ev), "config") => NoKind(sub.queue, "config") /\ ev.kind # "config"
    BY <1>q, <1>4, KindStream
  <2>3. ASSUME ConfigDue' PROVE ConfigDue /\ config' = config
    <3>1. sub'.open /\ NoKind(sub'.queue, "config") /\ NoWriter(commands')
      BY <2>3 DEF ConfigDue
    <3>2. sub.open /\ NoKind(sub.queue, "config") /\ ev.kind # "config"
      BY <2>1, <2>2, <3>1
    <3> QED
      BY <1>4, <2>1, <2>3, <3>1, <3>2 DEF ConfigDue, Open
  <2> QED
    BY <1>a, <2>1, <2>3
<1>5. CASE \/ \E e \in RemoteEdits : MergeRemote(e)
           \/ \E s \in States : CoreChanges(s)
           \/ \E p \in Peers : Propose(p) \/ PairingCompletes(p) \/ PairingFails(p)
  BY <1>4, <1>5, DaemonSteps
<1>6. CASE Dispatch
  <2>1. commands # <<>> /\ commands' = Tail(commands) /\ UNCHANGED view
    BY <1>6, DispatchSteps
  <2>2. NoWriter(commands) <=> Head(commands).kind \notin Writers /\ NoWriter(commands')
    BY <1>q, <2>1, KindStream DEF NoWriter, Writers
  <2>3. CASE /\ WindowStep /\ stale \subseteq stale'
             /\ Head(commands).kind \in Writers => "config" \in stale'
    <3>1. UNCHANGED <<config, sub, thread, updates>> /\ (Open' <=> Open)
      BY <2>3 DEF WindowStep
    <3>2. ConfigDue' => ConfigDue
      BY <2>2, <2>3, <3>1 DEF ConfigDue
    <3> QED
      BY <1>c, <2>1, <3>1, <3>2
  <2>4. CASE \E ev \in Events :
               /\ DaemonStep(ev)
               /\ ev.kind # "config" => config' = config /\ Head(commands).kind \notin Writers
    BY <1>4, <2>2, <2>4
  <2> QED
    BY <1>6, <2>3, <2>4, DispatchSteps
<1>7. CASE UNCHANGED vars
  <2>1. UNCHANGED <<updates, config, view, sub, thread, commands, stale, window>>
    BY <1>7 DEF vars, daemon, threads
  <2>2. ConfigDue' => ConfigDue
    BY <2>1 DEF ConfigDue, Open
  <2> QED
    BY <1>c, <2>1, <2>2
<1>8. CASE (\E b \in BOOLEAN : ConnectFails(b)) \/ SetupFails \/ StreamEnds
  <2>1. UNCHANGED view /\ thread' = "connect"
    BY <1>8, PushSteps DEF PushStep, LossStep
  <2> QED
    BY <1>a, <2>1 DEF ConfigDue
<1>9. CASE FetchConfig
  <2>1. PushStep([kind |-> "config", config |-> config])
    BY <1>9, PushSteps
  <2>2. UNCHANGED <<config, view, window>>
        /\ (Open => Pushed(updates, updates', [kind |-> "config", config |-> config]))
    BY <2>1 DEF PushStep
  <2>3. ConfigDue' => Open
    BY <2>2 DEF ConfigDue, Open
  <2> QED
    BY <1>e, <2>2, <2>3
<1>10. ASSUME NEW u \in Updates, PushStep(u), u.kind # "config",
              thread' # "connect" /\ thread' # "config" =>
                thread \in {"status", "trusted", "ready", "stream"}
       PROVE  Banner' /\ (ConfigDue' => Holds')
  <2>1. /\ UNCHANGED <<config, view, window, commands>>
        /\ Open => Pushed(updates, updates', u)
        /\ sub'.open = sub.open /\ sub'.queue = sub.queue /\ stale \subseteq stale'
    BY <1>10 DEF PushStep
  <2>2. (ConfigDue' => ConfigDue) /\ (ConfigDue' => Open)
    BY <1>10, <2>1 DEF ConfigDue, Open
  <2>3. u \notin W
    BY <1>10 DEF ConfigWrites
  <2> QED
    BY <1>d, <2>1, <2>2, <2>3
<1>11. CASE FetchStatus \/ FetchTrusted \/ Announce
  <2>1. /\ \/ PushStep([kind |-> "status", state |-> state])
           \/ PushStep([kind |-> "trusted", peers |-> trusted])
           \/ PushStep([kind |-> "connected"])
        /\ thread \in {"status", "trusted", "ready"}
    BY <1>11, PushSteps
  <2>2. /\ [kind |-> "status", state |-> state].kind # "config"
        /\ [kind |-> "trusted", peers |-> trusted].kind # "config"
        /\ [kind |-> "connected"].kind # "config"
    OBVIOUS
  <2>3. \A u : PushStep(u) => u \in Updates
    BY DEF PushStep
  <2> QED
    BY <1>10, <2>1, <2>2, <2>3
<1>12. CASE PushReply
  <2>1. PushStep(reply) /\ reply \in Replies /\ thread' = thread
    BY <1>12, PushSteps
  <2>2. reply \in Updates /\ reply.kind # "config"
    BY <2>1 DEF PushStep, Replies
  <2> QED
    BY <1>10, <2>1, <2>2 DEF TypeInv
<1>13. CASE ReadEvent \/ RefetchFails
  <2> DEFINE e == Head(sub.queue)
  <2>1. /\ sub.queue # <<>> /\ sub'.open = sub.open /\ sub'.queue = Tail(sub.queue)
        /\ e \in Events /\ UNCHANGED <<config, view, window, thread, commands, up>>
    BY <1>13, ReadSteps
  <2>2. ConfigDue' => Open
    BY <2>1 DEF ConfigDue, Open
  <2>3. CASE e.kind # "config" /\ UNCHANGED stale /\ (Open => Pushed(updates, updates', e))
    <3>1. e \in Updates /\ e \notin W
      BY <2>1, <2>3, EventFacts DEF ConfigWrites
    <3>2. NoKind(sub.queue, "config") <=> e.kind # "config" /\ NoKind(Tail(sub.queue), "config")
      BY <1>q, <2>1, KindStream
    <3>3. ConfigDue' => ConfigDue
      BY <2>1, <2>3, <3>2 DEF ConfigDue, Open
    <3> QED
      BY <1>d, <2>1, <2>2, <2>3, <3>1, <3>3
  <2>4. CASE Open => Pushed(updates, updates', [kind |-> "config", config |-> config])
    BY <1>e, <2>1, <2>2, <2>4
  <2>5. CASE up => "config" \in stale'
    BY <1>a, <2>1, <2>5 DEF ConfigDue
  <2> QED
    BY <1>13, <2>3, <2>4, <2>5, ReadSteps
<1>14. CASE Subscribe
  <2>1. UNCHANGED view /\ thread' = "config"
    BY <1>14 DEF Subscribe, EventThread
  <2> QED
    BY <1>a, <2>1 DEF ConfigDue
<1>15. CASE Drain
  <2> DEFINE u == Head(updates)
  <2>1. /\ Open /\ updates # <<>> /\ updates' = Tail(updates) /\ u \in Updates
        /\ view \in Views /\ view' = ApplyUpdate(view, u)
        /\ UNCHANGED <<config, sub, thread, commands, stale>>
    BY <1>15, DrainFacts
  <2>2. ConfigDue' => ConfigDue
    BY <2>1 DEF ConfigDue
  <2>3. /\ LastIn(updates, W, G) => LastIn(Tail(updates), W, G)
        /\ Silent(updates, W) <=> u \notin W /\ Silent(Tail(updates), W)
        /\ LastIn(updates, W, G) /\ Silent(Tail(updates), W) /\ u \in W => u \in G
    <3> HIDE DEF W, G
    <3> QED
      BY <1>q, <1>w, <2>1, TailStream
  <2> HIDE DEF u
  <2>4. CASE u.kind # "config"
    <3>1. UNCHANGED <<view.config, view.dirty, view.pending>>
      BY <2>1, <2>4, ApplyFacts
    <3>2. u \notin W
      BY <2>4 DEF ConfigWrites
    <3> QED
      BY <1>a, <2>1, <2>2, <2>3, <3>1, <3>2
  <2>5. CASE u.kind = "config"
    <3>1. view' = ApplyConfig(view, u.config)
      BY <2>1, <2>5, ApplyConfigArm
    <3>2. /\ view.dirty => view'.dirty /\ view'.pending = u.config
          /\ ~view.dirty => view'.config = u.config /\ view'.pending = None
      BY <2>1, <3>1 DEF ApplyConfig, Views
    <3>3. u \in W /\ (u \in G => u.config = config)
      BY <2>1, <2>5 DEF ConfigWrites, ConfigTruth
    <3> QED
      BY <1>a, <2>1, <2>2, <2>3, <3>2, <3>3
  <2> QED
    BY <2>4, <2>5
<1>16. CASE Crash \/ Quit
  <2>1. ~sub'.open /\ (UNCHANGED view \/ view' = NewView)
    BY <1>a, <1>16, EndFacts
  <2> QED
    BY <1>a, <2>1, FreshView DEF ConfigDue
<1> QED
  BY <1>1, <1>2, <1>3, <1>5, <1>6, <1>7, <1>8, <1>9, <1>11, <1>12, <1>13, <1>14, <1>15, <1>16
  DEF Next, EventLoop

\* The commands keep being founded on the daemon's config as they come and go.
LEMMA BlindStream ==
    ASSUME commands \in Seq(Commands), NoBlindPush
    PROVE  /\ commands' = commands \/ commands' = <<>> => NoBlindPush'
           /\ commands # <<>> /\ commands' = Tail(commands) => NoBlindPush'
           /\ \A c \in Commands :
                /\ commands' = Append(commands, c)
                /\ c.kind = "set_config" /\ ~c.click => c.based
                => NoBlindPush'
<1> DEFINE Fine(c) == c.kind = "set_config" /\ ~c.click => c.based
<1>1. \A i \in DOMAIN commands : Fine(commands[i])
  BY DEF NoBlindPush
<1>2. (\A i \in DOMAIN commands' : Fine(commands'[i])) => NoBlindPush'
  BY DEF NoBlindPush
<1> HIDE DEF Fine
<1>3. commands' = commands \/ commands' = <<>> => \A i \in DOMAIN commands' : Fine(commands'[i])
  <2>1. DOMAIN <<>> = {}
    BY SMT
  <2> QED
    BY <1>1, <2>1
<1>4. commands # <<>> /\ commands' = Tail(commands) =>
        \A i \in DOMAIN commands' : Fine(commands'[i])
  <2>1. ASSUME commands # <<>>, commands' = Tail(commands), NEW i \in DOMAIN commands'
        PROVE  i + 1 \in DOMAIN commands /\ commands'[i] = commands[i + 1]
    BY <2>1, SMT
  <2> QED
    BY <1>1, <2>1
<1>5. ASSUME NEW c \in Commands, commands' = Append(commands, c), Fine(c)
      PROVE  \A i \in DOMAIN commands' : Fine(commands'[i])
  <2>1. ASSUME NEW i \in DOMAIN commands'
        PROVE  (i \in DOMAIN commands /\ commands'[i] = commands[i]) \/ commands'[i] = c
    BY <1>5, <2>1, SMT
  <2> QED
    BY <1>1, <1>5, <2>1
<1> QED
  BY <1>2, <1>3, <1>4, <1>5 DEF Fine

\* The window has the daemon's config before it learns that it is connected.
LEMMA SeedStep ==
    ASSUME TypeInv, LinkInv, SeedInv, [Next]_vars
    PROVE  SeedInv'
<1> DEFINE Fetched == {"status", "trusted", "ready"}
           Waits == /\ ~view.connected
                    /\ ConfigFirst(updates)
                    /\ thread \in Fetched => ~NoKind(updates, "config")
           S == Open /\ ~Seeded(view) => Waits
<1>a. NoBlindPush /\ S /\ (sub.open => up)
  BY DEF SeedInv, LinkInv
<1>q. updates \in Seq(Updates) /\ commands \in Seq(Commands)
  BY DEF TypeInv
<1>b. SUFFICES NoBlindPush' /\ S'
  BY DEF SeedInv
<1>c. ASSUME UNCHANGED updates, Open' => Open, Seeded(view) => Seeded(view'),
             view'.connected = view.connected, thread' \in Fetched => thread \in Fetched
      PROVE  S'
  BY <1>a, <1>c
<1>d. ASSUME NEW u \in Updates, UNCHANGED <<view, window>>, Open => Pushed(updates, updates', u),
             u.kind = "connected" => thread = "ready",
             thread' \in Fetched => thread \in Fetched \/ u.kind = "config"
      PROVE  S'
  <2>1. CASE ~Open \/ Seeded(view)
    BY <1>d, <2>1 DEF Open
  <2>2. CASE Open /\ ~Seeded(view)
    <3>1. Waits
      BY <1>a, <2>2
    <3>2. u.kind = "connected" => ~NoKind(updates, "config")
      BY <1>d, <3>1
    <3>3. ConfigFirst(updates')
      BY <1>q, <1>d, <2>2, <3>1, <3>2, ConfigFirstStream
    <3>4. CASE updates' = Append(updates, u)
      <4>1. NoKind(Append(updates, u), "config") <=> NoKind(updates, "config") /\ u.kind # "config"
        BY <1>q, KindStream
      <4> QED
        BY <1>d, <3>1, <3>3, <3>4, <4>1
    <3>5. CASE updates' = updates /\ Len(updates) > 0 /\ updates[Len(updates)] = u
      <4>1. Len(updates) \in DOMAIN updates
        BY <1>q, <3>5, SMT
      <4>2. u.kind = "config" => ~NoKind(updates, "config")
        BY <3>5, <4>1 DEF NoKind
      <4> QED
        BY <1>d, <3>1, <3>3, <3>5, <4>2
    <3> QED
      BY <1>d, <2>2, <3>4, <3>5 DEF Pushed
  <2> QED
    BY <2>1, <2>2
<1>k. commands' = commands \/ commands' = <<>> => NoBlindPush'
  BY <1>a, <1>q, BlindStream
<1>1. CASE \/ \E e \in UserEdits : Edit(e) \/ ToggleAutostart(e) \/ UseAsServer(e)
           \/ \E a \in BOOLEAN : EditAudio(a)
           \/ Apply \/ Revert \/ Start \/ Stop \/ Restart
           \/ \E p \in Peers : RevokeTrust(p) \/ Decide(p)
  <2>1. /\ UNCHANGED <<thread, updates>> /\ view'.connected = view.connected /\ (Open' <=> Open)
    BY <1>1, ClickSteps DEF WindowStep
  <2>2. Seeded(view) => Seeded(view')
    BY <1>1, ClickEffects DEF Seeded
  <2>3. \A c \in Commands : c.kind # "set_config" /\ commands' = Append(commands, c) => NoBlindPush'
    BY <1>a, <1>q, BlindStream
  <2>4. NoBlindPush'
    BY <1>a, <1>k, <1>1, <2>3, ClickEffects
  <2> QED
    BY <1>c, <2>1, <2>2, <2>4
<1>2. ASSUME NEW due \in BOOLEAN, Frame(due) PROVE NoBlindPush' /\ S'
  <2>1. /\ WindowStep /\ view'.pending = view.pending /\ view'.based = view.based
        /\ \/ commands' = commands
           \/ /\ view.connected /\ view.pending = None
              /\ commands' = Append(commands, SetConfig(view'.config, FALSE, view.based))
    BY <1>2, FrameSteps
  <2>2. /\ UNCHANGED <<thread, updates>> /\ view'.connected = view.connected /\ (Open' <=> Open)
        /\ view' \in Views
    BY <2>1 DEF WindowStep
  <2>3. Seeded(view) => Seeded(view')
    BY <2>1 DEF Seeded
  <2>4. S'
    BY <1>c, <2>2, <2>3
  <2>5. ASSUME view.connected, view.pending = None,
               commands' = Append(commands, SetConfig(view'.config, FALSE, view.based))
        PROVE  NoBlindPush'
    <3>1. view.based
      BY <1>a, <1>2, <2>5 DEF Frame, Seeded
    <3>2. view'.config \in Configs /\ view.based \in BOOLEAN
      BY <2>2 DEF TypeInv, Views
    <3> DEFINE x == SetConfig(view'.config, FALSE, view.based)
    <3>3. x \in Commands
      BY <3>2 DEF SetConfig, Commands
    <3>4. x.based
      BY <3>1 DEF SetConfig
    <3> HIDE DEF x
    <3>5. commands' = Append(commands, x)
      BY <2>5 DEF x
    <3> QED
      BY <1>a, <1>q, <3>3, <3>4, <3>5, BlindStream
  <2> QED
    BY <1>k, <2>1, <2>4, <2>5
<1>3. CASE Boot \/ BootFails \/ Exit \/ DispatchFails
  <2>1. /\ WindowStep /\ UNCHANGED view
        /\ commands' = commands \/ DispatchFails
    BY <1>3, QuietSteps
  <2>2. UNCHANGED <<thread, updates>> /\ (Open' <=> Open)
    BY <2>1 DEF WindowStep
  <2>3. S'
    BY <1>c, <2>1, <2>2
  <2>4. DispatchFails => commands # <<>> /\ commands' = Tail(commands)
    BY DEF DispatchFails
  <2>5. NoBlindPush'
    BY <1>a, <1>q, <1>k, <2>1, <2>4, BlindStream
  <2> QED
    BY <2>3, <2>5
<1>4. ASSUME NEW ev \in Events, DaemonStep(ev) PROVE S'
  <2>1. UNCHANGED <<thread, updates, view, window>>
    BY <1>4 DEF DaemonStep
  <2> QED
    BY <1>c, <2>1 DEF Open
<1>5. CASE \/ \E e \in RemoteEdits : MergeRemote(e)
           \/ \E s \in States : CoreChanges(s)
           \/ \E p \in Peers : Propose(p) \/ PairingCompletes(p) \/ PairingFails(p)
  BY <1>k, <1>4, <1>5, DaemonSteps
<1>6. CASE Dispatch
  <2>1. commands # <<>> /\ commands' = Tail(commands) /\ UNCHANGED view
    BY <1>6, DispatchSteps
  <2>2. NoBlindPush'
    BY <1>a, <1>q, <2>1, BlindStream
  <2>3. ASSUME WindowStep PROVE S'
    <3>1. UNCHANGED <<thread, updates>> /\ (Open' <=> Open)
      BY <2>3 DEF WindowStep
    <3> QED
      BY <1>c, <2>1, <3>1
  <2> QED
    BY <1>4, <1>6, <2>2, <2>3, DispatchSteps
<1>7. CASE UNCHANGED vars
  <2>1. UNCHANGED <<updates, view, thread, commands, window>>
    BY <1>7 DEF vars, threads
  <2> QED
    BY <1>c, <1>k, <2>1 DEF Open
<1>8. ASSUME NEW u, PushStep(u), u.kind = "connected" => thread = "ready",
             thread' \in Fetched => thread \in Fetched \/ u.kind = "config"
      PROVE  NoBlindPush' /\ S'
  <2>1. /\ u \in Updates /\ UNCHANGED <<view, window, commands>>
        /\ Open => Pushed(updates, updates', u)
    BY <1>8 DEF PushStep
  <2> QED
    BY <1>d, <1>k, <1>8, <2>1
<1>9. CASE \E b \in BOOLEAN : ConnectFails(b)
  <2>1. (PushStep(Offline) \/ PushStep(Launching)) /\ thread' \notin Fetched
    BY <1>9, PushSteps
  <2>2. Offline.kind # "connected" /\ Launching.kind # "connected"
    BY DEF Offline, Launching
  <2> QED
    BY <1>8, <2>1, <2>2
<1>10. CASE FetchConfig
  <2> DEFINE u == [kind |-> "config", config |-> config]
  <2>1. PushStep(u) /\ u.kind = "config"
    BY <1>10, PushSteps
  <2> QED
    BY <1>8, <2>1
<1>11. CASE FetchStatus \/ FetchTrusted \/ Announce
  <2>1. /\ \/ PushStep([kind |-> "status", state |-> state])
           \/ PushStep([kind |-> "trusted", peers |-> trusted])
           \/ PushStep([kind |-> "connected"]) /\ thread = "ready"
        /\ thread \in Fetched
    BY <1>11, PushSteps
  <2>2. /\ [kind |-> "status", state |-> state].kind # "connected"
        /\ [kind |-> "trusted", peers |-> trusted].kind # "connected"
    OBVIOUS
  <2> QED
    BY <1>8, <2>1, <2>2
<1>12. CASE PushReply
  <2>1. PushStep(reply) /\ reply \in Replies /\ thread' = thread
    BY <1>12, PushSteps
  <2>2. reply.kind # "connected"
    BY <2>1 DEF Replies
  <2> QED
    BY <1>8, <2>1, <2>2
<1>13. CASE SetupFails \/ StreamEnds
  <2>1. LossStep
    BY <1>13, PushSteps
  <2>2. /\ UNCHANGED <<view, window, commands>> /\ thread' = "connect"
        /\ Open => Pushed(updates, updates', Offline)
    BY <2>1 DEF LossStep
  <2>3. Offline \in Updates /\ Offline.kind # "connected"
    BY NoticesAreUpdates DEF Offline
  <2> QED
    BY <1>d, <1>k, <2>2, <2>3
<1>14. CASE ReadEvent \/ RefetchFails
  <2> DEFINE e == Head(sub.queue)
             u == [kind |-> "config", config |-> config]
  <2>1. /\ thread' = "stream" /\ e \in Events /\ UNCHANGED <<view, window, commands>>
        /\ \/ e.kind # "config" /\ (Open => Pushed(updates, updates', e))
           \/ Open => Pushed(updates, updates', u)
           \/ UNCHANGED updates
    BY <1>14, ReadSteps
  <2>2. u \in Updates /\ u.kind # "connected"
    BY DEF TypeInv, Updates
  <2>3. e.kind # "config" => e \in Updates /\ e.kind # "connected"
    BY <2>1, EventFacts DEF Events
  <2> HIDE DEF e, u
  <2>4. CASE e.kind # "config" /\ (Open => Pushed(updates, updates', e))
    BY <1>d, <1>k, <2>1, <2>3, <2>4
  <2>5. CASE Open => Pushed(updates, updates', u)
    BY <1>d, <1>k, <2>1, <2>2, <2>5
  <2>6. CASE UNCHANGED updates
    BY <1>c, <1>k, <2>1, <2>6 DEF Open
  <2> QED
    BY <2>1, <2>4, <2>5, <2>6
<1>15. CASE Subscribe
  <2>1. UNCHANGED <<view, updates, commands, window>> /\ thread' = "config"
    BY <1>15 DEF Subscribe, EventThread
  <2> QED
    BY <1>c, <1>k, <2>1 DEF Open
<1>16. CASE Drain
  <2> DEFINE u == Head(updates)
  <2>1. /\ Open /\ updates # <<>> /\ updates' = Tail(updates) /\ u \in Updates
        /\ view \in Views /\ view' = ApplyUpdate(view, u)
        /\ UNCHANGED <<thread, commands>>
    BY <1>16, DrainFacts
  <2>5. NoKind(updates, "config") <=> u.kind # "config" /\ NoKind(Tail(updates), "config")
    BY <1>q, <2>1, KindStream
  <2>6. ConfigFirst(updates) /\ u.kind # "config" =>
          u.kind # "connected" /\ ConfigFirst(Tail(updates))
    BY <1>q, <2>1, ConfigFirstStream
  <2> HIDE DEF u
  <2>2. u.kind = "config" => view' = ApplyConfig(view, u.config)
    BY <2>1, ApplyConfigArm
  <2>3. u.kind # "config" => UNCHANGED <<view.pending, view.based>>
    BY <2>1, ApplyFacts
  <2>4. u.kind # "config" /\ u.kind # "connected" => view'.connected = view.connected
                                                     \/ ~view'.connected
    BY <2>1, ApplyFacts DEF LinkWrites
  <2>7. ASSUME u.kind = "config" PROVE Seeded(view')
    <3>1. u.config \in Configs
      BY <2>1, <2>7, UpdateFacts
    <3>2. u.config # None
      BY <3>1, GuiAssumption
    <3>3. /\ view.dirty => view'.pending = u.config
          /\ ~view.dirty => view'.based
      BY <2>1, <2>2, <2>7 DEF ApplyConfig, Views
    <3> QED
      BY <3>2, <3>3 DEF Seeded
  <2>8. ASSUME u.kind # "config", Seeded(view) PROVE Seeded(view')
    BY <2>3, <2>8 DEF Seeded
  <2>9. ASSUME u.kind # "config", ~Seeded(view) PROVE Waits'
    <3>1. Waits
      BY <1>a, <2>1, <2>9
    <3>2. ConfigFirst(updates') /\ ~view'.connected
      BY <2>1, <2>4, <2>6, <2>9, <3>1
    <3>3. thread' \in Fetched => ~NoKind(updates', "config")
      BY <2>1, <2>5, <2>9, <3>1
    <3> QED
      BY <3>2, <3>3
  <2> QED
    BY <1>k, <2>1, <2>7, <2>8, <2>9
<1>17. CASE Crash \/ Quit
  <2>1. /\ UNCHANGED thread
        /\ \/ UNCHANGED <<updates, commands, view, window>>
           \/ ~Open' /\ commands' = <<>>
    BY <1>a, <1>17, EndFacts
  <2>2. CASE UNCHANGED <<updates, commands, view, window>>
    BY <1>c, <1>k, <2>1, <2>2 DEF Open
  <2>3. CASE ~Open' /\ commands' = <<>>
    BY <1>k, <2>3
  <2> QED
    BY <2>1, <2>2, <2>3
<1> QED
  BY <1>1, <1>2, <1>3, <1>5, <1>6, <1>7, <1>9, <1>10, <1>11, <1>12, <1>13, <1>14, <1>15, <1>16,
     <1>17 DEF Next, EventLoop

\* The invariant at the start,
LEMMA ViewInit ==
    ASSUME Init
    PROVE  ViewInv
<1>1. /\ sub = Closed /\ thread = "connect" /\ updates = <<>> /\ commands = <<>>
      /\ view = NewView
  BY DEF Init
<1>2. ~sub.open /\ ~view.connected /\ view.pending = None /\ view.dialogs = {}
  BY <1>1, FreshView DEF Closed
<1>3. DOMAIN updates = {} /\ DOMAIN commands = {}
  BY <1>1, SMT
<1>4. LinkInv /\ StateInv /\ ConfigInv
  BY <1>1, <1>2 DEF LinkInv, StateInv, ConfigInv, ConfigDue
<1>5. SeedInv
  BY <1>1, <1>2, <1>3 DEF SeedInv, NoBlindPush, ConfigFirst
<1>6. ASSUME NEW p \in Peers PROVE TrustInv(p) /\ DialogInv(p)
  <2>1. LastIn(updates, DialogWrites(p), DialogTruth(p, {}))
    BY <1>1, EmptyStream
  <2> QED
    BY <1>2, <2>1, <1>1 DEF TrustInv, DialogInv
<1> QED
  BY <1>4, <1>5, <1>6 DEF ViewInv

\* and over every step.
LEMMA ViewStep ==
    ASSUME TypeInv, ViewInv, [Next]_vars
    PROVE  TypeInv' /\ ViewInv'
<1>1. /\ LinkInv /\ StateInv /\ ConfigInv /\ SeedInv
      /\ \A p \in Peers : TrustInv(p) /\ DialogInv(p)
  BY DEF ViewInv
<1>2. TypeInv'
  BY <1>1, TypeStep DEF LinkInv
<1>3. LinkInv' /\ StateInv'
  BY <1>1, LinkStep, StateStep
<1>4. ConfigInv' /\ SeedInv'
  BY <1>1, ConfigStep, SeedStep
<1>5. ASSUME NEW p \in Peers PROVE TrustInv(p)' /\ DialogInv(p)'
  BY <1>1, TrustStep, DialogStep
<1> QED
  BY <1>2, <1>3, <1>4, <1>5 DEF ViewInv

\* The inductive invariant holds throughout: the last update of each kind that
\* is queued or on the stream carries what the daemon holds, and the view holds
\* it when none is.
THEOREM ViewAlwaysCatchesUp == Spec => [](TypeInv /\ ViewInv)
<1>1. Init => TypeInv /\ ViewInv
  BY TypeInit, ViewInit
<1>2. TypeInv /\ ViewInv /\ [Next]_vars => (TypeInv /\ ViewInv)'
  BY ViewStep
<1> QED
  BY <1>1, <1>2, PTL DEF Spec

\* Once no update, event, command or answer is on its way, the window is
\* connected and shows the daemon's Core state, its trusted peers and no dialog
\* of a dead session (drain_ipc, event_loop, the IPC server), for every queue
\* capacity and any number of crashes, lost streams and clicks.
THEOREM SettledViewAlwaysTrue == Spec => []SettledViewIsTrue
<1>1. ASSUME TypeInv, ViewInv, Settled
      PROVE  /\ view.connected
             /\ view.trusted = trusted
             /\ view.dialogs \subseteq proposals
             /\ view.state = state \/ "state" \in stale
  <2>1. /\ LinkInv /\ StateInv /\ \A p \in Peers : TrustInv(p) /\ DialogInv(p)
    BY <1>1 DEF ViewInv
  <2>2. Open /\ thread = "stream" /\ sub.open /\ sub.queue = <<>> /\ updates = <<>>
    BY <1>1 DEF Settled
  <2>3. \A W : Silent(<<>>, W)
    BY EmptyStream
  <2>4. \A W : Silent(updates, W) /\ Quiet(sub.queue, updates, W)
    BY <2>2, <2>3 DEF Quiet
  <2>5. view.connected
    BY <2>1, <2>2, <2>4 DEF LinkInv
  <2>6. view.state = state \/ "state" \in stale
    BY <2>1, <2>2, <2>4 DEF StateInv
  <2>7. \A p \in Peers : p \in view.trusted <=> p \in trusted
    BY <2>1, <2>2, <2>4 DEF TrustInv
  <2>8. \A p \in Peers : p \in view.dialogs => p \in proposals
    BY <2>1, <2>2, <2>4 DEF DialogInv
  <2>9. /\ view.trusted \in SUBSET Peers /\ trusted \in SUBSET Peers
        /\ view.dialogs \in SUBSET Peers
    BY <1>1 DEF TypeInv, Views
  <2>10. view.trusted = trusted
    BY <2>7, <2>9
  <2>11. view.dialogs \subseteq proposals
    BY <2>8, <2>9
  <2> QED
    BY <2>5, <2>6, <2>10, <2>11
<1>2. TypeInv /\ ViewInv => SettledViewIsTrue
  BY <1>1 DEF SettledViewIsTrue
<1> QED
  BY <1>2, ViewAlwaysCatchesUp, PTL

\* Once nothing is on its way, a buffer without unsaved edits is the daemon's
\* config and a banner offers the daemon's config (drain_ipc's Config arm and
\* event_loop's refetch on a config change), unless a refetch failed, a SetConfig was refused
\* or lost, or Revert had nothing to load.
THEOREM SettledConfigAlwaysTrue == Spec => []SettledConfigIsTrue
<1>1. ASSUME ViewInv, Settled, "config" \notin stale
      PROVE  /\ ~view.dirty => view.config = config
             /\ view.pending # None => view.pending = config
  <2>1. /\ Open /\ thread = "stream" /\ sub.open /\ sub.queue = <<>> /\ updates = <<>>
        /\ commands = <<>>
    BY <1>1 DEF Settled
  <2>2. DOMAIN <<>> = {}
    BY SMT
  <2>3. ConfigDue
    BY <1>1, <2>1, <2>2 DEF ConfigDue, NoWriter, NoKind
  <2>4. Silent(updates, ConfigWrites)
    BY <2>1, EmptyStream
  <2> QED
    BY <1>1, <2>3, <2>4 DEF ViewInv, ConfigInv
<1>2. ViewInv => SettledConfigIsTrue
  BY <1>1 DEF SettledConfigIsTrue
<1> QED
  BY <1>2, ViewAlwaysCatchesUp, PTL

\* What reconcile pushes on its own is never a layout built on the defaults the
\* window starts with: event_loop sends the config before it reports the
\* connection, so a connected window has the daemon's config in its buffer or in
\* the banner over it, and the banner holds the push back.
THEOREM NoPushIsBlind == Spec => []NoBlindPush
<1>1. ViewInv => NoBlindPush
  BY DEF ViewInv, SeedInv
<1> QED
  BY <1>1, ViewAlwaysCatchesUp, PTL

=============================================================================
