---------------------------- MODULE PairingProofs ----------------------------
(* What a pairing promises, for any number of machines and of connections, any *)
(* interleaving and every fault: nobody is trusted without both users, and the *)
(* two codes on the screens agree; a session fails only for what really        *)
(* happened, and no Confirm is lost.                                           *)
EXTENDS Pairing, SequenceTheorems, TLAPS

\* Leaves go to Zenon unless they ask for SMT.
USE Zenon

-----------------------------------------------------------------------------
(* Streams.                                                                  *)

\* A stream on which only messages of M travel.
Pack(M) == [part : {"header", "body"}, nonce : Nat, msg : M]
StreamsOf(M) == [wire : Seq(Pack(M)), send_counter : Nat, recv_counter : Nat, header_read : BOOLEAN]

LEMMA StreamGrows ==
    ASSUME NEW M, NEW N, M \subseteq N, NEW d \in StreamsOf(M)
    PROVE  d \in StreamsOf(N)
<1>1. Pack(M) \subseteq Pack(N)
  BY DEF Pack
<1>2. d.wire \in Seq(Pack(N))
  BY <1>1, SeqMonotonic DEF StreamsOf
<1>. QED
  BY <1>2 DEF StreamsOf

LEMMA FreshFacts == \A M : FreshStream \in StreamsOf(M)
  BY EmptySeq DEF FreshStream, StreamsOf

\* CipherStream::send.
LEMMA SendFacts ==
    ASSUME NEW M, NEW d \in StreamsOf(M), NEW m \in M
    PROVE  Send(d, m) \in StreamsOf(M)
<1> DEFINE both == <<Header(d, m), Body(d, m)>>
<1>1. Header(d, m) \in Pack(M) /\ Body(d, m) \in Pack(M)
  BY DEF Header, Body, Pack, StreamsOf
<1>2. both \in Seq(Pack(M))
  BY <1>1, SMT
<1> HIDE DEF both
<1>3. d.wire \o both \in Seq(Pack(M))
  BY <1>2, ConcatProperties DEF StreamsOf
<1> DEFINE w == d.wire \o both
           k == d.send_counter + 1
<1>4. Send(d, m) = [d EXCEPT !.wire = w, !.send_counter = k]
  BY DEF Send, both
<1>5. w \in Seq(Pack(M)) /\ k \in Nat
  BY <1>3, SMT DEF StreamsOf
<1> HIDE DEF w, k
<1>6. [d EXCEPT !.wire = w, !.send_counter = k] \in StreamsOf(M)
  BY <1>5 DEF StreamsOf
<1>. QED
  BY <1>4, <1>6

\* recv hands over a message of the stream; the rest of the frame goes.
LEMMA RecvFacts ==
    ASSUME NEW M, NEW d \in StreamsOf(M), CanRecv(d)
    PROVE  Recv(d) \in StreamsOf(M) /\ Received(d) \in M
<1> DEFINE rest == RestOfFrame(d)
<1>1. d.wire \in Seq(Pack(M)) /\ d.header_read \in BOOLEAN /\ d.recv_counter \in Nat
  BY DEF StreamsOf
<1>2. rest \in Seq(Pack(M)) /\ rest # <<>>
  <2>1. CASE d.header_read
    BY <1>1, <2>1, EmptySeq, SMT DEF CanRecv, RestOfFrame
  <2>2. CASE ~d.header_read
    <3>1. Len(d.wire) >= 2
      BY <2>2 DEF CanRecv
    <3>2. d.wire # <<>>
      BY <3>1, EmptySeq, SMT
    <3>3. Tail(d.wire) \in Seq(Pack(M)) /\ Len(Tail(d.wire)) = Len(d.wire) - 1
      BY <1>1, <3>2, HeadTailProperties
    <3>4. Tail(d.wire) # <<>>
      <4>1. Len(d.wire) \in Nat
        BY <1>1, LenProperties
      <4>2. Len(Tail(d.wire)) > 0
        BY <3>1, <3>3, <4>1, SMT
      <4>3. Len(<<>>) = 0
        BY EmptySeq
      <4>. QED
        BY <4>2, <4>3, SMT
    <3>. QED
      BY <2>2, <3>3, <3>4 DEF RestOfFrame
  <2>. QED
    BY <1>1, <2>1, <2>2
<1> HIDE DEF rest
<1>3. Head(rest) \in Pack(M) /\ Tail(rest) \in Seq(Pack(M))
  BY <1>2, HeadTailProperties
<1>4. Received(d) \in M
  BY <1>3 DEF Received, Pack, rest
<1> DEFINE w == Tail(rest)
           k == d.recv_counter + 1
<1>5. Recv(d) = [d EXCEPT !.wire = w, !.header_read = FALSE, !.recv_counter = k]
  BY DEF Recv, rest
<1>6. w \in Seq(Pack(M)) /\ k \in Nat
  BY <1>1, <1>3, SMT
<1> HIDE DEF w, k
<1>7. [d EXCEPT !.wire = w, !.header_read = FALSE, !.recv_counter = k] \in StreamsOf(M)
  BY <1>6 DEF StreamsOf
<1>. QED
  BY <1>4, <1>5, <1>7

LEMMA ReadHeaderFacts ==
    ASSUME NEW M, NEW d \in StreamsOf(M), CanReadHeader(d)
    PROVE  ReadHeader(d) \in StreamsOf(M)
<1>1. Tail(d.wire) \in Seq(Pack(M))
  BY HeadTailProperties DEF CanReadHeader, StreamsOf
<1>2. ReadHeader(d) = [d EXCEPT !.wire = Tail(d.wire), !.header_read = TRUE]
  BY DEF ReadHeader
<1>. QED
  BY <1>1, <1>2 DEF StreamsOf

-----------------------------------------------------------------------------
(* Frames in order.                                                          *)

\* Piece i of the wire w is the body of frame k, behind its header unless that
\* was read already; its message is one of F[k].
BodyAt(w, i, k, F) ==
    /\ i \in 1 .. Len(w)
    /\ i > 1 => w[i - 1].part = "header"
    /\ w[i].part = "body" /\ w[i].nonce = k /\ w[i].msg \in F[k]

\* The wire holds the frames a .. b - 1; of the first, h pieces were read.
Frames(w, a, b, h, F) ==
    /\ a + h <= b
    /\ Len(w) = 2 * (b - a) - h
    /\ \A k \in Nat : a <= k /\ k < b => BodyAt(w, 2 * (k - a) + 2 - h, k, F)

\* What was sent and not received is on its way, in order.
Half(d) == IF d.header_read THEN 1 ELSE 0
Orderly(d, F) == Frames(d.wire, d.recv_counter, d.send_counter, Half(d), F)

LEMMA FramesGrow ==
    ASSUME NEW w \in Seq(Pieces), NEW a \in Nat, NEW b \in Nat, NEW h \in {0, 1}, NEW F,
           Frames(w, a, b, h, F), NEW x \in Pieces, NEW y \in Pieces, x.part = "header",
           y.part = "body", y.nonce = b, y.msg \in F[b]
    PROVE  Frames(w \o <<x, y>>, a, b + 1, h, F)
<1> DEFINE t == <<x, y>>
           v == w \o t
<1>1. t \in Seq(Pieces) /\ Len(t) = 2 /\ t[1] = x /\ t[2] = y
  BY SMT
<1> HIDE DEF t
<1>2. /\ Len(v) = Len(w) + 2 /\ Len(w) \in Nat
      /\ \A i \in 1 .. Len(w) : v[i] = w[i]
      /\ v[Len(w) + 1] = x /\ v[Len(w) + 2] = y
  <2>1. /\ Len(v) = Len(w) + Len(t) /\ Len(w) \in Nat
        /\ \A i \in 1 .. Len(w) + Len(t) : v[i] = IF i <= Len(w) THEN w[i] ELSE t[i - Len(w)]
    BY <1>1, ConcatProperties, LenProperties
  <2> HIDE DEF v
  <2>2. v[Len(w) + 1] = t[1] /\ v[Len(w) + 2] = t[2]
    BY <1>1, <2>1, SMT
  <2>. QED
    BY <1>1, <2>1, <2>2, SMT
<1> HIDE DEF v
<1>3. a + h <= b /\ Len(w) = 2 * (b - a) - h
  BY DEF Frames
<1>4. ASSUME NEW k \in Nat, a <= k, k < b + 1
      PROVE  BodyAt(v, 2 * (k - a) + 2 - h, k, F)
  <2>1. CASE k = b
    <3>1. 2 * (k - a) + 2 - h = Len(w) + 2
      BY <1>3, <2>1, SMT
    <3>2. BodyAt(v, Len(w) + 2, b, F)
      BY <1>2, SMT DEF BodyAt
    <3>. QED
      BY <2>1, <3>1, <3>2
  <2>2. CASE k < b
    <3> DEFINE i == 2 * (k - a) + 2 - h
    <3>1. BodyAt(w, i, k, F)
      BY <1>4, <2>2 DEF Frames
    <3> HIDE DEF i
    <3>2. /\ i \in 1 .. Len(w) /\ w[i].part = "body" /\ w[i].nonce = k /\ w[i].msg \in F[k]
          /\ i > 1 => i - 1 \in 1 .. Len(w) /\ w[i - 1].part = "header"
      BY <1>2, <3>1, SMT DEF BodyAt
    <3>3. i \in 1 .. Len(v) /\ v[i] = w[i] /\ (i > 1 => v[i - 1] = w[i - 1])
      BY <1>2, <3>2, SMT
    <3>4. BodyAt(v, i, k, F)
      BY <3>2, <3>3, SMT DEF BodyAt
    <3>. QED
      BY <3>4 DEF i
  <2>. QED
    BY <1>4, <2>1, <2>2, SMT
<1>5. a + h <= b + 1 /\ Len(v) = 2 * (b + 1 - a) - h
  BY <1>2, <1>3, SMT
<1>6. Frames(v, a, b + 1, h, F)
  BY <1>4, <1>5, SMT DEF Frames
<1>. QED
  BY <1>6 DEF v, t

\* PendingFrame::read takes a header; recv takes the body behind it.
LEMMA FramesShrink ==
    ASSUME NEW w \in Seq(Pieces), NEW a \in Nat, NEW b \in Nat, NEW h \in {0, 1}, NEW F,
           Frames(w, a, b, h, F), w # <<>>
    PROVE  /\ h = 0 => Head(w).part = "header" /\ Frames(Tail(w), a, b, 1, F)
           /\ h = 1 => /\ Head(w).part = "body" /\ Head(w).nonce = a /\ Head(w).msg \in F[a]
                       /\ Frames(Tail(w), a + 1, b, 0, F)
<1> DEFINE v == Tail(w)
<1>1. /\ Len(w) \in Nat /\ Len(w) > 0 /\ Len(v) = Len(w) - 1 /\ Head(w) = w[1]
      /\ \A i \in 1 .. Len(v) : v[i] = w[i + 1]
  BY HeadTailProperties, LenProperties, EmptySeq, SMT
<1> HIDE DEF v
<1>2. a + h <= b /\ Len(w) = 2 * (b - a) - h /\ a < b
  BY <1>1, SMT DEF Frames
<1>3. BodyAt(w, 2 - h, a, F)
  <2>1. BodyAt(w, 2 * (a - a) + 2 - h, a, F)
    BY <1>2, SMT DEF Frames
  <2>2. 2 * (a - a) + 2 - h = 2 - h
    BY SMT
  <2>. QED
    BY <2>1, <2>2
<1>4. ASSUME NEW i \in Nat, NEW k, i > 1, BodyAt(w, i, k, F)
      PROVE  BodyAt(v, i - 1, k, F)
  <2>1. i - 1 \in 1 .. Len(v) /\ v[i - 1] = w[i] /\ (i - 1 > 1 => v[i - 1 - 1] = w[i - 1])
    BY <1>1, <1>4, SMTT(30) DEF BodyAt
  <2>. QED
    BY <1>4, <2>1 DEF BodyAt
<1>5. ASSUME h = 0
      PROVE  Head(w).part = "header" /\ Frames(v, a, b, 1, F)
  <2>1. Head(w).part = "header"
    BY <1>1, <1>3, <1>5, SMT DEF BodyAt
  <2>2. a + 1 <= b /\ Len(v) = 2 * (b - a) - 1
    BY <1>1, <1>2, <1>5, SMT
  <2>3. ASSUME NEW k \in Nat, a <= k, k < b
        PROVE  BodyAt(v, 2 * (k - a) + 2 - 1, k, F)
    <3> DEFINE i == 2 * (k - a) + 2 - 0
    <3>1. BodyAt(w, i, k, F) /\ i \in Nat /\ i > 1
      BY <1>5, <2>3, SMT DEF Frames
    <3>2. i - 1 = 2 * (k - a) + 2 - 1
      BY <2>3, SMT
    <3> HIDE DEF i
    <3>3. BodyAt(v, i - 1, k, F)
      BY <1>4, <3>1
    <3>. QED
      BY <3>2, <3>3
  <2>. QED
    BY <2>1, <2>2, <2>3 DEF Frames
<1>6. ASSUME h = 1
      PROVE  /\ Head(w).part = "body" /\ Head(w).nonce = a /\ Head(w).msg \in F[a]
             /\ Frames(v, a + 1, b, 0, F)
  <2>1. Head(w).part = "body" /\ Head(w).nonce = a /\ Head(w).msg \in F[a]
    BY <1>1, <1>3, <1>6, SMT DEF BodyAt
  <2>2. a + 1 + 0 <= b /\ Len(v) = 2 * (b - (a + 1)) - 0
    BY <1>1, <1>2, <1>6, SMT
  <2>3. ASSUME NEW k \in Nat, a + 1 <= k, k < b
        PROVE  BodyAt(v, 2 * (k - (a + 1)) + 2 - 0, k, F)
    <3> DEFINE i == 2 * (k - a) + 2 - 1
    <3>1. BodyAt(w, i, k, F) /\ i \in Nat /\ i > 1
      BY <1>6, <2>3, SMT DEF Frames
    <3>2. i - 1 = 2 * (k - (a + 1)) + 2 - 0
      BY <2>3, SMT
    <3> HIDE DEF i
    <3>3. BodyAt(v, i - 1, k, F)
      BY <1>4, <3>1
    <3>. QED
      BY <3>2, <3>3
  <2>. QED
    BY <2>1, <2>2, <2>3 DEF Frames
<1>. QED
  BY <1>5, <1>6 DEF v

LEMMA StreamParts ==
    ASSUME NEW d \in Streams
    PROVE  /\ d.wire \in Seq(Pieces) /\ d.send_counter \in Nat /\ d.recv_counter \in Nat
           /\ d.header_read \in BOOLEAN /\ Half(d) \in {0, 1} /\ (Half(d) = 1 <=> d.header_read)
  BY SMT DEF Streams, Half

\* More messages may travel, or none is on its way.
LEMMA OrderlyKept ==
    ASSUME NEW d \in Streams, NEW F, NEW G, Orderly(d, F),
           d.send_counter = d.recv_counter \/ \A k \in Nat : F[k] \subseteq G[k]
    PROVE  Orderly(d, G)
<1> DEFINE a == d.recv_counter
           b == d.send_counter
<1>1. Frames(d.wire, a, b, Half(d), F) /\ a \in Nat /\ b \in Nat
  BY StreamParts DEF Orderly
<1> HIDE DEF a, b
<1>2. ASSUME NEW k \in Nat, a <= k, k < b, NEW i, BodyAt(d.wire, i, k, F)
      PROVE  BodyAt(d.wire, i, k, G)
  <2>1. \A j \in Nat : F[j] \subseteq G[j]
    BY <1>1, <1>2, SMT DEF a, b
  <2>. QED
    BY <1>2, <2>1 DEF BodyAt
<1>3. Frames(d.wire, a, b, Half(d), G)
  BY <1>1, <1>2 DEF Frames
<1>. QED
  BY <1>3 DEF Orderly, a, b

\* CipherStream::send.
LEMMA OrderlySend ==
    ASSUME NEW d \in Streams, NEW F, Orderly(d, F), NEW m \in Hellos \cup Confirms, m \in F[d.send_counter]
    PROVE  LET e == Send(d, m)
           IN /\ Orderly(e, F) /\ e.send_counter = d.send_counter + 1
              /\ e.recv_counter = d.recv_counter /\ e.header_read = d.header_read
<1> DEFINE e == Send(d, m)
           x == Header(d, m)
           y == Body(d, m)
           v == d.wire \o <<x, y>>
           b == d.send_counter + 1
<1>1. /\ d.wire \in Seq(Pieces) /\ d.send_counter \in Nat /\ d.recv_counter \in Nat /\ Half(d) \in {0, 1}
  BY StreamParts
<1>2. x \in Pieces /\ y \in Pieces /\ x.part = "header" /\ y.part = "body"
      /\ y.nonce = d.send_counter /\ y.msg = m
  BY <1>1 DEF Header, Body, Pieces
<1>3. e = [d EXCEPT !.wire = v, !.send_counter = b]
  BY DEF Send
<1> HIDE DEF x, y
<1>4. Frames(v, d.recv_counter, b, Half(d), F)
  BY <1>1, <1>2, FramesGrow DEF Orderly
<1> HIDE DEF v, b, e
<1>5. /\ e.wire = v /\ e.send_counter = b /\ e.recv_counter = d.recv_counter
      /\ e.header_read = d.header_read
  BY <1>3 DEF Streams
<1>6. Orderly(e, F)
  BY <1>4, <1>5 DEF Orderly, Half
<1>. QED
  BY <1>5, <1>6 DEF e, b

LEMMA OrderlyHeader ==
    ASSUME NEW d \in Streams, NEW F, Orderly(d, F), CanReadHeader(d)
    PROVE  LET e == ReadHeader(d)
           IN /\ Orderly(e, F) /\ e.send_counter = d.send_counter /\ e.recv_counter = d.recv_counter
<1> DEFINE e == ReadHeader(d)
           v == Tail(d.wire)
<1>1. /\ d.wire \in Seq(Pieces) /\ d.send_counter \in Nat /\ d.recv_counter \in Nat /\ Half(d) = 0
      /\ d.wire # <<>>
  BY StreamParts DEF CanReadHeader
<1>2. Frames(v, d.recv_counter, d.send_counter, 1, F)
  BY <1>1, FramesShrink DEF Orderly
<1>3. e = [d EXCEPT !.wire = v, !.header_read = TRUE]
  BY DEF ReadHeader
<1> HIDE DEF v, e
<1>4. /\ e.wire = v /\ e.send_counter = d.send_counter /\ e.recv_counter = d.recv_counter
      /\ e.header_read = TRUE
  BY <1>3 DEF Streams
<1>5. Orderly(e, F)
  BY <1>2, <1>4 DEF Orderly, Half
<1>. QED
  BY <1>4, <1>5 DEF e

\* recv, also the one that resumes a frame whose header a cancelled read took:
\* the body opens, and it is the next message.
LEMMA OrderlyRecv ==
    ASSUME NEW d \in Streams, NEW F, Orderly(d, F), CanRecv(d)
    PROVE  LET e == Recv(d)
           IN /\ Opens(d) /\ Received(d) \in F[d.recv_counter] /\ Orderly(e, F)
              /\ e.send_counter = d.send_counter /\ e.recv_counter = d.recv_counter + 1
              /\ e.header_read = FALSE
<1> DEFINE e == Recv(d)
           rest == RestOfFrame(d)
           v == Tail(rest)
           a == d.recv_counter + 1
<1>1. /\ d.wire \in Seq(Pieces) /\ d.send_counter \in Nat /\ d.recv_counter \in Nat
      /\ d.header_read \in BOOLEAN /\ Half(d) \in {0, 1} /\ (Half(d) = 1 <=> d.header_read)
  BY StreamParts
<1>2. /\ rest \in Seq(Pieces) /\ rest # <<>> /\ Frames(rest, d.recv_counter, d.send_counter, 1, F)
      /\ ~d.header_read => Head(d.wire).part = "header"
  <2>1. CASE d.header_read
    <3>1. Len(d.wire) >= 1
      BY <2>1 DEF CanRecv
    <3>2. d.wire # <<>>
      BY <3>1, EmptySeq, SMT
    <3>. QED
      BY <1>1, <2>1, <3>2 DEF RestOfFrame, Orderly
  <2>2. CASE ~d.header_read
    <3>1. Len(d.wire) >= 2
      BY <2>2 DEF CanRecv
    <3>2. d.wire # <<>>
      BY <3>1, EmptySeq, SMT
    <3>3. Tail(d.wire) \in Seq(Pieces) /\ Len(Tail(d.wire)) = Len(d.wire) - 1
      BY <1>1, <3>2, HeadTailProperties
    <3>4. Tail(d.wire) # <<>>
      <4>1. Len(d.wire) \in Nat
        BY <1>1, LenProperties
      <4>2. Len(Tail(d.wire)) > 0
        BY <3>1, <3>3, <4>1, SMT
      <4>3. Len(<<>>) = 0
        BY EmptySeq
      <4>. QED
        BY <4>2, <4>3, SMT
    <3>5. Half(d) = 0
      BY <1>1, <2>2
    <3>6. Head(d.wire).part = "header" /\ Frames(Tail(d.wire), d.recv_counter, d.send_counter, 1, F)
      BY <1>1, <3>2, <3>5, FramesShrink, SMT DEF Orderly
    <3>. QED
      BY <2>2, <3>3, <3>4, <3>6 DEF RestOfFrame
  <2>. QED
    BY <1>1, <2>1, <2>2
<1> HIDE DEF rest
<1>3. /\ Head(rest).part = "body" /\ Head(rest).nonce = d.recv_counter
      /\ Head(rest).msg \in F[d.recv_counter] /\ Frames(v, a, d.send_counter, 0, F)
  BY <1>1, <1>2, FramesShrink, SMT
<1>4. Opens(d) /\ Received(d) \in F[d.recv_counter]
  BY <1>2, <1>3 DEF Opens, Received, rest
<1>5. e = [d EXCEPT !.wire = v, !.header_read = FALSE, !.recv_counter = a]
  BY DEF Recv, rest
<1> HIDE DEF v, a, e
<1>6. /\ e.wire = v /\ e.send_counter = d.send_counter /\ e.recv_counter = a /\ e.header_read = FALSE
  BY <1>5 DEF Streams
<1>7. Orderly(e, F)
  BY <1>3, <1>6 DEF Orderly, Half
<1>. QED
  BY <1>4, <1>6, <1>7 DEF e, a

\* What was sent can be received.
LEMMA OrderlyWaits ==
    ASSUME NEW d \in Streams, NEW F, Orderly(d, F), d.recv_counter < d.send_counter
    PROVE  CanRecv(d)
<1>1. /\ d.send_counter \in Nat /\ d.recv_counter \in Nat
      /\ d.header_read \in BOOLEAN /\ Half(d) \in {0, 1} /\ (Half(d) = 1 <=> d.header_read)
  BY StreamParts
<1>2. Len(d.wire) = 2 * (d.send_counter - d.recv_counter) - Half(d)
  BY DEF Orderly, Frames
<1>. QED
  BY <1>1, <1>2, SMT DEF CanRecv

-----------------------------------------------------------------------------
(* The invariant.                                                            *)

\* The connection of s stands: both machines are known and stay so.
Linked(s) ==
    /\ call[s] \in [initiator : Nodes, responder : Nodes, expected : Nodes]
    /\ end[s]["initiator"].pc \notin {"idle", "connecting"}

\* What may travel towards end r of s: the other end's Hello, and a Confirm that
\* says yes only when the other user did.
Messages(s, r) ==
    IF Linked(s)
    THEN {Hello(s, Other(r))} \cup {c \in Confirms : c.accepted => <<s, Other(r)>> \in accepted}
    ELSE {}

WireInv(s, r) == stream[s][r] \in StreamsOf(Messages(s, r))

\* The task at end r of s.
TaskInv(s, r) ==
    LET e == end[s][r]
    IN /\ e.pc \in Running \ {"connecting"} => Linked(s)
       /\ e.peer # None => /\ Linked(s) /\ e.peer = Hello(s, Other(r))
                           /\ NodeOf(s, Other(r)) # NodeOf(s, r)
       /\ e.pc \in {"proposed", "early", "awaiting", "verify"} => e.peer # None
       /\ e.pc \in {"early", "verify"} => <<s, Other(r)>> \in accepted
       /\ e.pc \in {"awaiting", "verify"} => <<s, r>> \in accepted
       /\ verdict[s][r] = "accept" => <<s, r>> \in accepted
       /\ <<s, r>> \in accepted => e.peer # None

PairingType ==
    /\ call \in [Sessions -> Calls \cup {None}]
    /\ end \in [Sessions -> [Roles -> Ends]]
    /\ stream \in [Sessions -> [Roles -> Streams]]
    /\ verdict \in [Sessions -> [Roles -> {"none", "accept", "decline"}]]
    /\ trust \in [Nodes -> SUBSET Nodes]
    /\ trust_file \in [Nodes -> SUBSET Nodes]
    /\ accepted \subseteq Sessions \X Roles

SessionInv(s) ==
    /\ call[s] = None => end[s]["initiator"].pc = "idle"
    /\ \A r \in Roles : TaskInv(s, r) /\ WireInv(s, r)

PairingInv == PairingType /\ (\A s \in Sessions : SessionInv(s)) /\ TrustNeedsBothUsers

-----------------------------------------------------------------------------
(* What a step leaves alone.                                                 *)

\* A connection that stands, stands.
Stable(s) == Linked(s) => Linked(s)' /\ call'[s] = call[s]

LEMMA TaskKept ==
    ASSUME NEW s \in Sessions, NEW r \in Roles, TaskInv(s, r), Stable(s), accepted \subseteq accepted',
           end'[s][r].peer = end[s][r].peer, end'[s][r].pc \in {end[s][r].pc} \cup Over,
           verdict'[s][r] = verdict[s][r], <<s, r>> \in accepted' => <<s, r>> \in accepted
    PROVE  TaskInv(s, r)'
<1>1. Running \cap Over = {}
  BY DEF Running, Over
<1>2. end'[s][r].pc \in Running => end'[s][r].pc = end[s][r].pc
  BY <1>1
<1>3. {"proposed", "early", "awaiting", "verify"} \subseteq Running
  BY DEF Running
<1>4. Linked(s) => \A q \in Roles : NodeOf(s, q)' = NodeOf(s, q) /\ Hello(s, q)' = Hello(s, q)
  BY DEF Stable, NodeOf, Hello
<1>5. Other(r) \in Roles
  BY DEF Roles, Other
<1>6. end'[s][r].pc \in Running \ {"connecting"} => Linked(s)'
  BY <1>2 DEF TaskInv, Stable
<1>7. end'[s][r].peer # None => /\ Linked(s)' /\ end'[s][r].peer = Hello(s, Other(r))'
                                /\ NodeOf(s, Other(r))' # NodeOf(s, r)'
  BY <1>4, <1>5 DEF TaskInv, Stable
<1>8. /\ end'[s][r].pc \in {"proposed", "early", "awaiting", "verify"} => end'[s][r].peer # None
      /\ end'[s][r].pc \in {"early", "verify"} => <<s, Other(r)>> \in accepted'
      /\ end'[s][r].pc \in {"awaiting", "verify"} => <<s, r>> \in accepted'
      /\ verdict'[s][r] = "accept" => <<s, r>> \in accepted'
      /\ <<s, r>> \in accepted' => end'[s][r].peer # None
  BY <1>2, <1>3 DEF TaskInv
<1>. QED
  BY <1>6, <1>7, <1>8 DEF TaskInv

LEMMA MessagesGrow ==
    ASSUME NEW s \in Sessions, NEW r \in Roles, Stable(s), accepted \subseteq accepted'
    PROVE  Messages(s, r) \subseteq Messages(s, r)'
<1>1. CASE Linked(s)
  <2>1. Linked(s)' /\ Hello(s, Other(r))' = Hello(s, Other(r))
    BY <1>1 DEF Stable, Hello, NodeOf
  <2>. QED
    BY <1>1, <2>1 DEF Messages
<1>2. CASE ~Linked(s)
  BY <1>2 DEF Messages
<1>. QED
  BY <1>1, <1>2

LEMMA WireKept ==
    ASSUME NEW s \in Sessions, NEW r \in Roles, Stable(s), accepted \subseteq accepted',
           stream'[s][r] \in StreamsOf(Messages(s, r))
    PROVE  WireInv(s, r)'
<1>1. stream'[s][r] \in StreamsOf(Messages(s, r)')
  BY MessagesGrow, StreamGrows
<1>. QED
  BY <1>1 DEF WireInv

\* A session that a step does not touch.
LEMMA Elsewhere ==
    ASSUME NEW t \in Sessions, SessionInv(t), accepted \subseteq accepted',
           call'[t] = call[t], end'[t] = end[t], stream'[t] = stream[t], verdict'[t] = verdict[t],
           \A r \in Roles : <<t, r>> \in accepted' => <<t, r>> \in accepted
    PROVE  SessionInv(t)' /\ Stable(t)
<1>1. Stable(t)
  BY DEF Stable, Linked
<1>2. \A r \in Roles : TaskInv(t, r)'
  BY <1>1, TaskKept DEF SessionInv
<1>3. \A r \in Roles : WireInv(t, r)'
  BY <1>1, WireKept DEF SessionInv, WireInv
<1>. QED
  BY <1>1, <1>2, <1>3 DEF SessionInv

\* Two users who accepted stay two users who accepted.
LEMMA BothStay ==
    ASSUME PairingInv, accepted \subseteq accepted', \A s \in Sessions : Stable(s),
           \A s \in Sessions : call'[s] = None => end'[s]["initiator"].pc = "idle",
           NEW n \in Nodes, NEW m \in Nodes, BothAccepted(n, m)
    PROVE  BothAccepted(n, m)'
<1>1. PICK s \in Sessions, r \in Roles :
        /\ {<<s, r>>, <<s, Other(r)>>} \subseteq accepted
        /\ call[s] # None /\ NodeOf(s, r) = n /\ NodeOf(s, Other(r)) = m
  BY DEF BothAccepted
<1>2. Linked(s)
  BY <1>1 DEF PairingInv, SessionInv, TaskInv
<1>3. Linked(s)' /\ call'[s] = call[s]
  BY <1>2 DEF Stable
<1>. QED
  BY <1>1, <1>3 DEF BothAccepted, NodeOf

LEMMA TrustKept ==
    ASSUME PairingInv, accepted \subseteq accepted', \A s \in Sessions : Stable(s),
           \A s \in Sessions : call'[s] = None => end'[s]["initiator"].pc = "idle",
           \A n \in Nodes : trust'[n] \cup trust_file'[n] \subseteq trust[n] \cup trust_file[n]
    PROVE  TrustNeedsBothUsers'
<1> SUFFICES ASSUME NEW n \in Nodes, NEW m \in Nodes, m \in trust'[n] \cup trust_file'[n]
             PROVE  BothAccepted(n, m)' /\ n # m
  BY DEF TrustNeedsBothUsers
<1>1. BothAccepted(n, m) /\ n # m
  BY DEF PairingInv, TrustNeedsBothUsers
<1>. QED
  BY <1>1, BothStay

\* A step of one session that leaves the trust stores alone.
LEMMA OneSession ==
    ASSUME PairingInv, PairingType', NEW s \in Sessions, accepted \subseteq accepted',
           \A t \in Sessions \ {s} : /\ call'[t] = call[t] /\ end'[t] = end[t]
                                     /\ stream'[t] = stream[t] /\ verdict'[t] = verdict[t]
                                     /\ \A r \in Roles : <<t, r>> \in accepted' => <<t, r>> \in accepted,
           Stable(s), SessionInv(s)'
    PROVE  /\ \A t \in Sessions : SessionInv(t)' /\ Stable(t)
           /\ UNCHANGED store => PairingInv'
<1>1. \A t \in Sessions \ {s} : SessionInv(t)' /\ Stable(t)
  BY Elsewhere DEF PairingInv
<1>2. \A t \in Sessions : SessionInv(t)' /\ Stable(t)
  BY <1>1
<1>3. \A t \in Sessions : call'[t] = None => end'[t]["initiator"].pc = "idle"
  BY <1>2 DEF SessionInv
<1>4. ASSUME UNCHANGED store
      PROVE  TrustNeedsBothUsers'
  BY <1>2, <1>3, <1>4, TrustKept DEF store
<1>. QED
  BY <1>2, <1>4 DEF PairingInv

-----------------------------------------------------------------------------
(* Updates of one end.                                                       *)

LEMMA EndUpdate ==
    ASSUME PairingType, NEW s \in Sessions, NEW r \in Roles, NEW e \in Ends,
           end' = [end EXCEPT ![s][r] = e]
    PROVE  /\ end' \in [Sessions -> [Roles -> Ends]] /\ end'[s][r] = e
           /\ \A q \in Roles \ {r} : end'[s][q] = end[s][q]
           /\ \A t \in Sessions \ {s} : end'[t] = end[t]
  BY DEF PairingType

LEMMA MoveFacts ==
    ASSUME PairingType, NEW s \in Sessions, NEW r \in Roles, NEW p \in Running \cup Over, Move(s, r, p)
    PROVE  /\ end' \in [Sessions -> [Roles -> Ends]]
           /\ end'[s][r].pc = p /\ end'[s][r].peer = end[s][r].peer
           /\ \A q \in Roles \ {r} : end'[s][q] = end[s][q]
           /\ \A t \in Sessions \ {s} : end'[t] = end[t]
<1> DEFINE e == [end[s][r] EXCEPT !.pc = p]
<1>1. end[s][r] \in Ends
  BY DEF PairingType
<1>2. e \in Ends /\ e.pc = p /\ e.peer = end[s][r].peer
  BY <1>1 DEF Ends
<1>3. end' = [end EXCEPT ![s][r] = e]
  BY DEF Move
<1> HIDE DEF e
<1>. QED
  BY <1>2, <1>3, EndUpdate, ZenonT(30)

LEMMA FailFacts ==
    ASSUME PairingType, NEW s \in Sessions, NEW r \in Roles, NEW why \in Reasons, Fail(s, r, why)
    PROVE  /\ end' \in [Sessions -> [Roles -> Ends]]
           /\ end'[s][r].pc = "failed" /\ end'[s][r].peer = end[s][r].peer
           /\ \A q \in Roles \ {r} : end'[s][q] = end[s][q]
           /\ \A t \in Sessions \ {s} : end'[t] = end[t]
<1> DEFINE e == [end[s][r] EXCEPT !.pc = "failed", !.why = why]
<1>1. end[s][r] \in Ends
  BY DEF PairingType
<1>2. e \in Ends /\ e.pc = "failed" /\ e.peer = end[s][r].peer
  BY <1>1 DEF Ends, Over
<1>3. end' = [end EXCEPT ![s][r] = e]
  BY DEF Fail, PairingType
<1> HIDE DEF e
<1>. QED
  BY <1>2, <1>3, EndUpdate, ZenonT(30)

LEMMA RoleFacts == \A r \in Roles : Other(r) \in Roles /\ Other(r) # r /\ Other(Other(r)) = r
  BY DEF Roles, Other

\* The Hello of an end of a standing connection.
LEMMA HelloFacts ==
    ASSUME NEW s \in Sessions, NEW r \in Roles, Linked(s)
    PROVE  /\ NodeOf(s, r) \in Nodes /\ Hello(s, r) \in Hellos
           /\ Hello(s, r).kind = "hello" /\ Hello(s, r).id = NodeOf(s, r)
  BY DEF Linked, NodeOf, Roles, Hello, Hellos

LEMMA StreamTyped ==
    ASSUME NEW s \in Sessions, NEW r \in Roles, NEW d \in StreamsOf(Messages(s, r))
    PROVE  d \in Streams
<1>1. Messages(s, r) \subseteq Hellos \cup Confirms
  BY HelloFacts, RoleFacts DEF Messages
<1>2. Streams = StreamsOf(Hellos \cup Confirms)
  BY DEF Streams, StreamsOf, Pieces, Pack
<1>. QED
  BY <1>1, <1>2, StreamGrows

\* A step of end r of s; f is what then travels in the session.
LEMMA ActsOn ==
    ASSUME PairingInv, NEW s \in Sessions, NEW r \in Roles,
           UNCHANGED <<call, accepted, verdict>>,
           trust' \in [Nodes -> SUBSET Nodes], trust_file' \in [Nodes -> SUBSET Nodes],
           end' \in [Sessions -> [Roles -> Ends]],
           \A q \in Roles \ {r} : end'[s][q] = end[s][q],
           \A t \in Sessions \ {s} : end'[t] = end[t],
           end[s][r].pc # "idle", end'[s][r].pc \notin {"idle", "connecting"},
           NEW f \in [Roles -> Streams], stream' = [stream EXCEPT ![s] = f],
           \A q \in Roles : f[q] \in StreamsOf(Messages(s, q)),
           Stable(s) => TaskInv(s, r)'
    PROVE  /\ PairingType' /\ \A t \in Sessions : SessionInv(t)' /\ Stable(t)
           /\ UNCHANGED store => PairingInv'
<1>1. PairingType /\ SessionInv(s)
  BY DEF PairingInv
<1>2. /\ stream' \in [Sessions -> [Roles -> Streams]] /\ stream'[s] = f
      /\ \A t \in Sessions \ {s} : stream'[t] = stream[t]
  BY <1>1 DEF PairingType
<1>3. PairingType'
  BY <1>1, <1>2 DEF PairingType
<1>4. "initiator" \in Roles /\ "responder" \in Roles
  BY DEF Roles
<1>5. end'[s]["initiator"].pc \in {"idle", "connecting"} => end'[s]["initiator"].pc = end[s]["initiator"].pc
  BY <1>4
<1>6. Stable(s)
  BY <1>5 DEF Stable, Linked
<1>7. call'[s] = None => end'[s]["initiator"].pc = "idle"
  BY <1>1, <1>4 DEF SessionInv
<1>8. \A q \in Roles : TaskInv(s, q)'
  <2> SUFFICES ASSUME NEW q \in Roles \ {r}
               PROVE  TaskInv(s, q)'
    BY <1>6
  <2>. QED
    BY <1>1, <1>6, TaskKept DEF SessionInv
<1>9. \A q \in Roles : WireInv(s, q)'
  BY <1>2, <1>6, WireKept
<1>10. SessionInv(s)'
  BY <1>7, <1>8, <1>9 DEF SessionInv
<1>. QED
  BY <1>2, <1>3, <1>6, <1>10, OneSession

LEMMA Acts ==
    ASSUME PairingInv, NEW s \in Sessions, NEW r \in Roles,
           UNCHANGED <<call, store, accepted, verdict>>,
           end' \in [Sessions -> [Roles -> Ends]],
           \A q \in Roles \ {r} : end'[s][q] = end[s][q],
           \A t \in Sessions \ {s} : end'[t] = end[t],
           end[s][r].pc # "idle", end'[s][r].pc \notin {"idle", "connecting"},
           NEW f \in [Roles -> Streams], stream' = [stream EXCEPT ![s] = f],
           \A q \in Roles : f[q] \in StreamsOf(Messages(s, q)),
           Stable(s) => TaskInv(s, r)'
    PROVE  PairingInv'
<1>1. trust' \in [Nodes -> SUBSET Nodes] /\ trust_file' \in [Nodes -> SUBSET Nodes]
  BY DEF PairingInv, PairingType, store
<1>. QED
  BY <1>1, ActsOn

\* End r of s gives up, perhaps after its streams have changed.
LEMMA GivesUp ==
    ASSUME PairingInv, NEW s \in Sessions, NEW r \in Roles, NEW why \in Reasons, Fail(s, r, why),
           UNCHANGED <<call, store, accepted, verdict>>, end[s][r].pc # "idle",
           NEW f \in [Roles -> Streams], stream' = [stream EXCEPT ![s] = f],
           \A q \in Roles : f[q] \in StreamsOf(Messages(s, q))
    PROVE  PairingInv'
<1>1. PairingType /\ TaskInv(s, r)
  BY DEF PairingInv, SessionInv
<1>2. /\ end' \in [Sessions -> [Roles -> Ends]]
      /\ end'[s][r].pc = "failed" /\ end'[s][r].peer = end[s][r].peer
      /\ \A q \in Roles \ {r} : end'[s][q] = end[s][q]
      /\ \A t \in Sessions \ {s} : end'[t] = end[t]
  BY <1>1, FailFacts
<1>3. Stable(s) => TaskInv(s, r)'
  BY <1>1, <1>2, TaskKept DEF Over
<1>. QED
  BY <1>2, <1>3, Acts

\* The streams of a session that stay as they are.
LEMMA SameStreams ==
    ASSUME PairingInv, NEW s \in Sessions
    PROVE  /\ stream[s] \in [Roles -> Streams] /\ stream = [stream EXCEPT ![s] = stream[s]]
           /\ \A q \in Roles : stream[s][q] \in StreamsOf(Messages(s, q))
  BY DEF PairingInv, PairingType, SessionInv, WireInv

LEMMA RecvStreams ==
    ASSUME PairingInv, NEW s \in Sessions, NEW r \in Roles, RecvMsg(s, r)
    PROVE  \E f \in [Roles -> Streams] :
              /\ stream' = [stream EXCEPT ![s] = f]
              /\ \A q \in Roles : f[q] \in StreamsOf(Messages(s, q))
              /\ Received(stream[s][r]) \in Messages(s, r)
<1> DEFINE d == Recv(stream[s][r])
           f == [stream[s] EXCEPT ![r] = d]
<1>1. /\ stream[s] \in [Roles -> Streams]
      /\ \A q \in Roles : stream[s][q] \in StreamsOf(Messages(s, q))
  BY SameStreams
<1>2. d \in StreamsOf(Messages(s, r)) /\ Received(stream[s][r]) \in Messages(s, r)
  BY <1>1, RecvFacts DEF RecvMsg
<1>3. stream' = [stream EXCEPT ![s] = f]
  BY DEF RecvMsg
<1> HIDE DEF d
<1>4. d \in Streams
  BY <1>2, StreamTyped
<1>5. f \in [Roles -> Streams] /\ \A q \in Roles : f[q] \in StreamsOf(Messages(s, q))
  BY <1>1, <1>2, <1>4
<1> HIDE DEF f
<1>. QED
  BY <1>2, <1>3, <1>5

LEMMA SendStreams ==
    ASSUME PairingInv, NEW s \in Sessions, NEW r \in Roles, NEW m \in Messages(s, r),
           SendTo(s, r, stream[s], m)
    PROVE  \E f \in [Roles -> Streams] :
              /\ stream' = [stream EXCEPT ![s] = f]
              /\ \A q \in Roles : f[q] \in StreamsOf(Messages(s, q))
<1> DEFINE d == Send(stream[s][r], m)
           f == [stream[s] EXCEPT ![r] = d]
<1>1. /\ stream[s] \in [Roles -> Streams]
      /\ \A q \in Roles : stream[s][q] \in StreamsOf(Messages(s, q))
  BY SameStreams
<1>2. d \in StreamsOf(Messages(s, r))
  BY <1>1, SendFacts
<1>3. stream' = [stream EXCEPT ![s] = f]
  BY DEF SendTo
<1> HIDE DEF d
<1>4. d \in Streams
  BY <1>2, StreamTyped
<1>5. f \in [Roles -> Streams] /\ \A q \in Roles : f[q] \in StreamsOf(Messages(s, q))
  BY <1>1, <1>2, <1>4
<1> HIDE DEF f
<1>. QED
  BY <1>3, <1>5

-----------------------------------------------------------------------------
(* The steps.                                                                *)

LEMMA StartStep ==
    ASSUME PairingInv, NEW s \in Sessions, NEW n \in Nodes, NEW m \in Nodes, StartPairing(s, n, m)
    PROVE  PairingInv'
<1>1. PairingType /\ SessionInv(s) /\ "initiator" \in Roles /\ "responder" \in Roles
  BY DEF PairingInv, Roles
<1> DEFINE c == [initiator |-> n, responder |-> None, expected |-> m]
<1>2. /\ call[s] = None /\ call' = [call EXCEPT ![s] = c] /\ Move(s, "initiator", "connecting")
      /\ UNCHANGED <<stream, verdict, store, accepted>>
  BY DEF StartPairing
<1>3. c \in Calls
  BY DEF Calls
<1>4. c # None
  BY <1>3, NoneAssumption
<1>5. end[s]["initiator"].pc = "idle" /\ ~Linked(s)
  BY <1>1, <1>2 DEF SessionInv, Linked
<1>6. /\ end' \in [Sessions -> [Roles -> Ends]] /\ end'[s]["initiator"].pc = "connecting"
      /\ \A r \in Roles : end'[s][r].peer = end[s][r].peer
      /\ end'[s]["responder"].pc = end[s]["responder"].pc
      /\ \A t \in Sessions \ {s} : end'[t] = end[t]
  BY <1>1, <1>2, MoveFacts, SMT DEF Running, Roles
<1> HIDE DEF c
<1>7. PairingType' /\ \A t \in Sessions \ {s} : call'[t] = call[t]
  BY <1>1, <1>2, <1>3, <1>6 DEF PairingType, store
<1>8. Stable(s)
  BY <1>5 DEF Stable
<1>9. TaskInv(s, "initiator")' /\ TaskInv(s, "responder")'
  <2>1. TaskInv(s, "responder")'
    BY <1>1, <1>2, <1>6, <1>8, TaskKept DEF SessionInv
  <2>2. end[s]["initiator"].peer = None /\ <<s, "initiator">> \notin accepted
        /\ verdict[s]["initiator"] # "accept"
    BY <1>1, <1>5 DEF SessionInv, TaskInv
  <2>3. /\ end'[s]["initiator"].peer = None /\ <<s, "initiator">> \notin accepted'
        /\ verdict'[s]["initiator"] # "accept" /\ end'[s]["initiator"].pc = "connecting"
    BY <1>1, <1>2, <1>6, <2>2
  <2>4. TaskInv(s, "initiator")'
    BY <2>3 DEF TaskInv
  <2>. QED
    BY <2>1, <2>4
<1>10. \A r \in Roles : WireInv(s, r)'
  BY <1>1, <1>2, <1>8, WireKept DEF SessionInv, WireInv
<1>11. call'[s] # None
  BY <1>1, <1>2, <1>4 DEF PairingType
<1>12. SessionInv(s)'
  BY <1>9, <1>10, <1>11 DEF SessionInv, Roles
<1>. QED
  BY <1>2, <1>6, <1>7, <1>8, <1>12, OneSession

LEMMA ConnectStep ==
    ASSUME PairingInv, NEW s \in Sessions, NEW p \in Nodes, Connect(s, p)
    PROVE  PairingInv'
<1>1. PairingType /\ SessionInv(s) /\ "initiator" \in Roles /\ "responder" \in Roles
  BY DEF PairingInv, Roles
<1>2. /\ end[s]["initiator"].pc = "connecting"
      /\ call' = [call EXCEPT ![s].responder = p]
      /\ end' = [end EXCEPT ![s]["initiator"].pc = "hello2", ![s]["responder"].pc = "queued"]
      /\ UNCHANGED <<stream, verdict, store, accepted>>
  BY DEF Connect
<1>3. call[s] \in Calls /\ ~Linked(s)
  BY <1>1, <1>2 DEF SessionInv, PairingType, Linked
<1> DEFINE c == [call[s] EXCEPT !.responder = p]
<1>4. c \in [initiator : Nodes, responder : Nodes, expected : Nodes] /\ c \in Calls
  BY <1>3 DEF Calls
<1>5. call' = [call EXCEPT ![s] = c]
  BY <1>2
<1> HIDE DEF c
<1> DEFINE i == [end[s]["initiator"] EXCEPT !.pc = "hello2"]
           j == [end[s]["responder"] EXCEPT !.pc = "queued"]
<1>6. /\ i \in Ends /\ i.pc = "hello2" /\ i.peer = end[s]["initiator"].peer
      /\ j \in Ends /\ j.pc = "queued" /\ j.peer = end[s]["responder"].peer
  <2>1. end[s]["initiator"] \in Ends /\ end[s]["responder"] \in Ends
    BY <1>1 DEF PairingType
  <2>. QED
    BY <2>1 DEF Ends, Running
<1>7. end' = [end EXCEPT ![s]["initiator"] = i, ![s]["responder"] = j]
  BY <1>1, <1>2 DEF PairingType
<1> HIDE DEF i, j
<1>8. /\ end' \in [Sessions -> [Roles -> Ends]] /\ end'[s]["initiator"] = i /\ end'[s]["responder"] = j
      /\ \A t \in Sessions \ {s} : end'[t] = end[t]
  BY <1>1, <1>6, <1>7 DEF PairingType
<1>9. call' \in [Sessions -> Calls \cup {None}] /\ call'[s] = c /\ \A t \in Sessions \ {s} : call'[t] = call[t]
  BY <1>1, <1>4, <1>5 DEF PairingType
<1>10. PairingType' /\ Stable(s) /\ Linked(s)'
  BY <1>1, <1>2, <1>3, <1>4, <1>6, <1>8, <1>9 DEF PairingType, store, Stable, Linked
<1>11. ASSUME NEW r \in Roles
       PROVE  TaskInv(s, r)'
  <2>1. end[s][r].peer = None /\ <<s, r>> \notin accepted /\ verdict[s][r] # "accept"
    BY <1>1, <1>3, ZenonT(30) DEF SessionInv, TaskInv
  <2>2. /\ end'[s][r].peer = None /\ <<s, r>> \notin accepted' /\ verdict'[s][r] # "accept"
        /\ end'[s][r].pc \in {"hello2", "queued"}
    BY <1>2, <1>6, <1>8, <2>1 DEF Roles
  <2>. QED
    BY <1>10, <2>2 DEF TaskInv
<1>12. \A r \in Roles : WireInv(s, r)'
  BY <1>1, <1>2, <1>10, WireKept DEF SessionInv, WireInv
<1>13. call'[s] # None
  BY <1>4, <1>9, NoneAssumption
<1>14. SessionInv(s)'
  BY <1>11, <1>12, <1>13 DEF SessionInv
<1>. QED
  BY <1>2, <1>8, <1>9, <1>10, <1>14, OneSession

\* A Hello goes out on a standing connection, or nothing is sent.
LEMMA MovesOn ==
    ASSUME PairingInv, NEW s \in Sessions, NEW r \in Roles, NEW p \in {"hello1", "hello"}, Move(s, r, p),
           end[s][r].pc \in {"queued", "hello1", "hello2"},
           UNCHANGED <<call, store, accepted, verdict>>,
           UNCHANGED stream \/ SendTo(s, Other(r), stream[s], Hello(s, r))
    PROVE  PairingInv'
<1>1. PairingType /\ TaskInv(s, r) /\ Other(r) \in Roles /\ Other(Other(r)) = r
  BY RoleFacts DEF PairingInv, SessionInv
<1>2. Linked(s)
  BY <1>1 DEF TaskInv, Running
<1>3. Hello(s, r) \in Messages(s, Other(r))
  BY <1>1, <1>2 DEF Messages
<1>4. PICK f \in [Roles -> Streams] :
        /\ stream' = [stream EXCEPT ![s] = f]
        /\ \A q \in Roles : f[q] \in StreamsOf(Messages(s, q))
  BY <1>1, <1>3, SameStreams, SendStreams
<1>5. /\ end' \in [Sessions -> [Roles -> Ends]]
      /\ end'[s][r].pc = p /\ end'[s][r].peer = end[s][r].peer
      /\ \A q \in Roles \ {r} : end'[s][q] = end[s][q]
      /\ \A t \in Sessions \ {s} : end'[t] = end[t]
  BY <1>1, MoveFacts DEF Running
<1>6. ASSUME Stable(s)
      PROVE  TaskInv(s, r)'
  <2>1. Linked(s)' /\ \A q \in Roles : NodeOf(s, q)' = NodeOf(s, q) /\ Hello(s, q)' = Hello(s, q)
    BY <1>2, <1>6 DEF Stable, NodeOf, Hello
  <2>. QED
    BY <1>1, <1>5, <2>1 DEF TaskInv
<1>. QED
  BY <1>4, <1>5, <1>6, Acts

LEMMA ConnectingStep ==
    ASSUME PairingInv, NEW s \in Sessions, Connecting(s)
    PROVE  PairingInv'
<1>1. "initiator" \in Roles /\ "responder" \in Roles
      /\ Other("initiator") = "responder" /\ Other("responder") = "initiator"
  BY DEF Roles, Other
<1>2. CASE ConnectFails(s)
  BY <1>1, <1>2, SameStreams, GivesUp DEF ConnectFails, net, Reasons
<1>3. CASE HandleIncomingPairing(s)
  BY <1>1, <1>3, MovesOn DEF HandleIncomingPairing, net
<1>4. CASE AcceptHandshake(s)
  BY <1>1, <1>4, MovesOn DEF AcceptHandshake
<1>5. CASE FinishHandshake(s)
  BY <1>1, <1>5, MovesOn DEF FinishHandshake
<1>. QED
  BY <1>2, <1>3, <1>4, <1>5 DEF Connecting

LEMMA ReceiveHelloStep ==
    ASSUME PairingInv, NEW s \in Sessions, NEW r \in Roles, ReceiveHello(s, r)
    PROVE  PairingInv'
<1> DEFINE hello == Received(stream[s][r])
<1>1. PairingType /\ TaskInv(s, r) /\ Other(r) \in Roles
  BY RoleFacts DEF PairingInv, SessionInv
<1>2. end[s][r].pc = "hello" /\ RecvMsg(s, r)
  BY DEF ReceiveHello
<1>3. UNCHANGED <<call, store, accepted, verdict>>
  BY <1>2 DEF RecvMsg
<1>4. PICK f \in [Roles -> Streams] :
        /\ stream' = [stream EXCEPT ![s] = f]
        /\ \A q \in Roles : f[q] \in StreamsOf(Messages(s, q))
        /\ hello \in Messages(s, r)
  BY <1>2, RecvStreams
<1> HIDE DEF hello
<1>5. CASE Fail(s, r, "frame") \/ Fail(s, r, "message") \/ Fail(s, r, "peer")
  BY <1>2, <1>3, <1>4, <1>5, GivesUp DEF Reasons
<1>6. CASE /\ hello.kind = "hello" /\ hello.id # NodeOf(s, r)
           /\ end' = [end EXCEPT ![s][r].pc = "proposed", ![s][r].peer = hello]
  <2>1. Linked(s)
    BY <1>1, <1>2 DEF TaskInv, Running
  <2>2. hello = Hello(s, Other(r)) /\ hello \in Hellos /\ hello.id = NodeOf(s, Other(r))
    <3>1. \A c \in Confirms : c.kind # "hello"
      BY DEF Confirms
    <3>. QED
      BY <1>1, <1>4, <1>6, <2>1, <3>1, HelloFacts DEF Messages
  <2> DEFINE e == [end[s][r] EXCEPT !.pc = "proposed", !.peer = hello]
  <2>3. end[s][r] \in Ends
    BY <1>1 DEF PairingType
  <2>4. e \in Ends /\ e.pc = "proposed" /\ e.peer = hello
    BY <2>2, <2>3 DEF Ends, Running
  <2>5. end' = [end EXCEPT ![s][r] = e]
    BY <1>1, <1>6 DEF PairingType
  <2> HIDE DEF e
  <2>6. /\ end' \in [Sessions -> [Roles -> Ends]] /\ end'[s][r] = e
        /\ \A q \in Roles \ {r} : end'[s][q] = end[s][q]
        /\ \A t \in Sessions \ {s} : end'[t] = end[t]
    BY <1>1, <2>4, <2>5, EndUpdate
  <2>7. hello # None
    BY <2>2, NoneAssumption
  <2>8. ASSUME Stable(s)
        PROVE  TaskInv(s, r)'
    <3>1. Linked(s)' /\ \A q \in Roles : NodeOf(s, q)' = NodeOf(s, q) /\ Hello(s, q)' = Hello(s, q)
      BY <2>1, <2>8 DEF Stable, NodeOf, Hello
    <3>. QED
      BY <1>1, <1>3, <1>6, <2>2, <2>4, <2>6, <2>7, <3>1, SMT DEF TaskInv
  <2>9. end[s][r].pc # "idle" /\ end'[s][r].pc \notin {"idle", "connecting"}
    BY <1>2, <2>4, <2>6
  <2>. QED
    BY <1>3, <1>4, <2>6, <2>8, <2>9, Acts
<1>. QED
  BY <1>5, <1>6 DEF ReceiveHello, hello

LEMMA ReceiveConfirmStep ==
    ASSUME PairingInv, NEW s \in Sessions, NEW r \in Roles, ReceiveConfirm(s, r)
    PROVE  PairingInv'
<1> DEFINE confirm == Received(stream[s][r])
<1>1. PairingType /\ TaskInv(s, r) /\ Other(r) \in Roles
  BY RoleFacts DEF PairingInv, SessionInv
<1>2. end[s][r].pc \in {"proposed", "awaiting"} /\ RecvMsg(s, r)
  BY DEF ReceiveConfirm
<1>3. UNCHANGED <<call, store, accepted, verdict>>
  BY <1>2 DEF RecvMsg
<1>4. PICK f \in [Roles -> Streams] :
        /\ stream' = [stream EXCEPT ![s] = f]
        /\ \A q \in Roles : f[q] \in StreamsOf(Messages(s, q))
        /\ confirm \in Messages(s, r)
  BY <1>2, RecvStreams
<1> HIDE DEF confirm
<1>5. CASE Fail(s, r, "frame") \/ Fail(s, r, "message") \/ Fail(s, r, "peer_declined")
  BY <1>2, <1>3, <1>4, <1>5, GivesUp DEF Reasons
<1>6. CASE /\ confirm.kind = "confirm" /\ confirm.accepted
           /\ end' = [end EXCEPT ![s][r].confirm = confirm,
                                 ![s][r].pc = IF @ = "proposed" THEN "early" ELSE "verify"]
  <2>1. Linked(s)
    BY <1>1, <1>2 DEF TaskInv, Running
  <2>2. confirm \in Confirms /\ <<s, Other(r)>> \in accepted
    BY <1>1, <1>4, <1>6, <2>1, HelloFacts DEF Messages
  <2> DEFINE p == IF end[s][r].pc = "proposed" THEN "early" ELSE "verify"
             e == [end[s][r] EXCEPT !.confirm = confirm, !.pc = p]
  <2>3. end[s][r] \in Ends /\ p \in {"early", "verify"} /\ (p = "verify" => end[s][r].pc = "awaiting")
    BY <1>1, <1>2 DEF PairingType
  <2>4. end' = [end EXCEPT ![s][r] = e]
    BY <1>1, <1>6 DEF PairingType, Ends
  <2> HIDE DEF p
  <2>5. e \in Ends /\ e.pc = p /\ e.peer = end[s][r].peer
    BY <2>2, <2>3 DEF Ends, Running
  <2> HIDE DEF e
  <2>6. /\ end' \in [Sessions -> [Roles -> Ends]] /\ end'[s][r] = e
        /\ \A q \in Roles \ {r} : end'[s][q] = end[s][q]
        /\ \A t \in Sessions \ {s} : end'[t] = end[t]
    BY <1>1, <2>4, <2>5, EndUpdate, ZenonT(30)
  <2>7. ASSUME Stable(s)
        PROVE  TaskInv(s, r)'
    <3>1. Linked(s)' /\ \A q \in Roles : NodeOf(s, q)' = NodeOf(s, q) /\ Hello(s, q)' = Hello(s, q)
      BY <2>1, <2>7 DEF Stable, NodeOf, Hello
    <3>2. end[s][r].peer # None /\ (p = "verify" => <<s, r>> \in accepted)
      BY <1>1, <1>2, <2>3 DEF TaskInv
    <3>. QED
      BY <1>1, <1>3, <2>2, <2>3, <2>5, <2>6, <3>1, <3>2 DEF TaskInv
  <2>8. end[s][r].pc # "idle" /\ end'[s][r].pc \notin {"idle", "connecting"}
    BY <1>2, <2>3, <2>5, <2>6
  <2>. QED
    BY <1>3, <1>4, <2>6, <2>7, <2>8, Acts
<1>. QED
  BY <1>5, <1>6 DEF ReceiveConfirm, confirm

LEMMA ReceivePartStep ==
    ASSUME PairingInv, NEW s \in Sessions, NEW r \in Roles, ReceivePart(s, r)
    PROVE  PairingInv'
<1> DEFINE d == ReadHeader(stream[s][r])
           f == [stream[s] EXCEPT ![r] = d]
<1>1. /\ PairingType /\ TaskInv(s, r) /\ stream[s] \in [Roles -> Streams]
      /\ \A q \in Roles : stream[s][q] \in StreamsOf(Messages(s, q))
  BY SameStreams DEF PairingInv, SessionInv
<1>2. /\ end[s][r].pc = "proposed" /\ CanReadHeader(stream[s][r])
      /\ UNCHANGED <<call, end, verdict, store, accepted>>
      /\ stream' = [stream EXCEPT ![s] = f]
  BY DEF ReceivePart
<1>3. d \in StreamsOf(Messages(s, r))
  BY <1>1, <1>2, ReadHeaderFacts
<1> HIDE DEF d
<1>4. d \in Streams
  BY <1>3, StreamTyped
<1>5. f \in [Roles -> Streams] /\ \A q \in Roles : f[q] \in StreamsOf(Messages(s, q))
  BY <1>1, <1>3, <1>4
<1> HIDE DEF f
<1>6. Stable(s) => TaskInv(s, r)'
  BY <1>1, <1>2, TaskKept
<1>7. end' \in [Sessions -> [Roles -> Ends]]
  BY <1>1, <1>2 DEF PairingType
<1>. QED
  BY <1>2, <1>5, <1>6, <1>7, Acts

LEMMA ConfirmPairingStep ==
    ASSUME PairingInv, NEW n \in Nodes, NEW s \in Sessions, NEW r \in Roles, NEW yes \in BOOLEAN,
           ConfirmPairing(n, s, r, yes)
    PROVE  PairingInv'
<1>1. PairingType /\ SessionInv(s)
  BY DEF PairingInv
<1>2. /\ end[s][r].peer # None /\ UNCHANGED <<call, stream, end, store>>
      /\ verdict' = [verdict EXCEPT ![s][r] = IF yes THEN "accept" ELSE "decline"]
      /\ accepted' = IF yes THEN accepted \cup {<<s, r>>} ELSE accepted
  BY DEF ConfirmPairing, net
<1>3. /\ verdict' \in [Sessions -> [Roles -> {"none", "accept", "decline"}]]
      /\ verdict'[s][r] = "accept" => yes
      /\ \A q \in Roles \ {r} : verdict'[s][q] = verdict[s][q]
      /\ \A t \in Sessions \ {s} : verdict'[t] = verdict[t]
  BY <1>1, <1>2 DEF PairingType
<1>4. PairingType'
  BY <1>1, <1>2, <1>3, SMT DEF PairingType, store
<1>5. /\ accepted \subseteq accepted' /\ \A t \in Sessions \ {s} : \A q \in Roles :
            <<t, q>> \in accepted' => <<t, q>> \in accepted
      /\ \A q \in Roles \ {r} : <<s, q>> \in accepted' => <<s, q>> \in accepted
  BY <1>2
<1>6. Stable(s)
  BY <1>2 DEF Stable, Linked
<1>7. \A q \in Roles \ {r} : TaskInv(s, q)'
  BY <1>1, <1>2, <1>3, <1>5, <1>6, TaskKept DEF SessionInv
<1>8. TaskInv(s, r)'
  <2>1. /\ Linked(s)' <=> Linked(s)
        /\ \A q \in Roles : NodeOf(s, q)' = NodeOf(s, q) /\ Hello(s, q)' = Hello(s, q)
    BY <1>2 DEF Linked, NodeOf, Hello
  <2>2. verdict'[s][r] = "accept" => <<s, r>> \in accepted'
    BY <1>2, <1>3
  <2>3. Other(r) \in Roles
    BY RoleFacts
  <2>. QED
    BY <1>1, <1>2, <1>5, <2>1, <2>2, <2>3 DEF SessionInv, TaskInv
<1>9. \A q \in Roles : WireInv(s, q)'
  BY <1>1, <1>2, <1>5, <1>6, WireKept DEF SessionInv, WireInv
<1>10. SessionInv(s)'
  BY <1>1, <1>2, <1>7, <1>8, <1>9 DEF SessionInv
<1>. QED
  BY <1>2, <1>3, <1>4, <1>5, <1>6, <1>10, OneSession

LEMMA TakeVerdictStep ==
    ASSUME PairingInv, NEW s \in Sessions, NEW r \in Roles, TakeVerdict(s, r)
    PROVE  PairingInv'
<1>1. PairingType /\ TaskInv(s, r) /\ Other(r) \in Roles /\ Other(Other(r)) = r
  BY RoleFacts DEF PairingInv, SessionInv
<1>2. [stream[s] EXCEPT ![r] = CancelRead(stream[s][r])] = stream[s]
  BY SameStreams DEF CancelRead
<1>3. /\ end[s][r].pc \in {"proposed", "early"} /\ UNCHANGED <<call, verdict, store, accepted>>
  BY DEF TakeVerdict
<1>4. Linked(s) /\ end[s][r].peer = Hello(s, Other(r)) /\ end[s][r].peer # None
  BY <1>1, <1>3 DEF TaskInv
<1>5. CASE /\ verdict[s][r] = "accept"
           /\ end' = [end EXCEPT ![s][r].pc = IF @ = "early" THEN "verify" ELSE "awaiting"]
           /\ SendTo(s, Other(r), stream[s], Confirm(TRUE, Signature(NodeOf(s, r), Transcript(s, r))))
  <2>1. Transcript(s, r) \in Hellos \X Hellos /\ NodeOf(s, r) \in Nodes
    BY <1>1, <1>4, HelloFacts DEF Transcript, CanonicalTranscript
  <2> DEFINE c == Confirm(TRUE, Signature(NodeOf(s, r), Transcript(s, r)))
  <2>2. c \in Confirms
    BY <2>1 DEF Confirm, Confirms, Signature, Signatures
  <2>3. <<s, r>> \in accepted
    BY <1>1, <1>5 DEF TaskInv
  <2>4. c \in Messages(s, Other(r))
    BY <1>1, <1>4, <2>2, <2>3 DEF Messages
  <2> HIDE DEF c
  <2>5. PICK f \in [Roles -> Streams] :
          /\ stream' = [stream EXCEPT ![s] = f]
          /\ \A q \in Roles : f[q] \in StreamsOf(Messages(s, q))
    BY <1>1, <1>5, <2>4, SendStreams, ZenonT(30) DEF c
  <2> DEFINE p == IF end[s][r].pc = "early" THEN "verify" ELSE "awaiting"
  <2>6. p \in {"verify", "awaiting"} /\ (p = "verify" => end[s][r].pc = "early")
    OBVIOUS
  <2>7. Move(s, r, p)
    BY <1>5 DEF Move
  <2> HIDE DEF p
  <2>8. /\ end' \in [Sessions -> [Roles -> Ends]]
        /\ end'[s][r].pc = p /\ end'[s][r].peer = end[s][r].peer
        /\ \A q \in Roles \ {r} : end'[s][q] = end[s][q]
        /\ \A t \in Sessions \ {s} : end'[t] = end[t]
    BY <1>1, <2>6, <2>7, MoveFacts DEF Running
  <2>9. ASSUME Stable(s)
        PROVE  TaskInv(s, r)'
    <3>1. Linked(s)' /\ \A q \in Roles : NodeOf(s, q)' = NodeOf(s, q) /\ Hello(s, q)' = Hello(s, q)
      BY <1>4, <2>9 DEF Stable, NodeOf, Hello
    <3>2. p = "verify" => <<s, Other(r)>> \in accepted
      BY <1>1, <2>6 DEF TaskInv
    <3>. QED
      BY <1>1, <1>3, <1>4, <2>3, <2>6, <2>8, <3>1, <3>2 DEF TaskInv
  <2>. QED
    BY <1>3, <2>5, <2>6, <2>8, <2>9, Acts
<1>6. CASE Fail(s, r, "declined") /\ SendTo(s, Other(r), stream[s], Confirm(FALSE, None))
  <2>1. Confirm(FALSE, None) \in Messages(s, Other(r))
    BY <1>4 DEF Messages, Confirm, Confirms
  <2>2. PICK f \in [Roles -> Streams] :
          /\ stream' = [stream EXCEPT ![s] = f]
          /\ \A q \in Roles : f[q] \in StreamsOf(Messages(s, q))
    BY <1>1, <1>6, <2>1, SendStreams, ZenonT(30)
  <2>. QED
    BY <1>3, <1>6, <2>2, GivesUp DEF Reasons
<1>7. CASE Fail(s, r, "io") /\ UNCHANGED stream
  BY <1>3, <1>7, SameStreams, GivesUp DEF Reasons
<1>. QED
  BY <1>2, <1>5, <1>6, <1>7 DEF TakeVerdict

\* TrustedPeerStore::save and its errors.
LEMMA SaveFacts ==
    ASSUME PairingType, NEW n \in Nodes, NEW P \in SUBSET Nodes, Save(n, P) \/ SaveFails(n, P)
    PROVE  /\ trust' \in [Nodes -> SUBSET Nodes] /\ trust_file' \in [Nodes -> SUBSET Nodes]
           /\ \A k \in Nodes : /\ trust'[k] \in {trust[k]} \cup (IF k = n THEN {P} ELSE {})
                                /\ trust_file'[k] \in {trust_file[k]} \cup (IF k = n THEN {P} ELSE {})
<1>1. trust \in [Nodes -> SUBSET Nodes] /\ trust_file \in [Nodes -> SUBSET Nodes]
  BY DEF PairingType
<1>2. trust' \in {trust, [trust EXCEPT ![n] = P]} /\ trust_file' \in {trust_file, [trust_file EXCEPT ![n] = P]}
  BY DEF Save, SaveFails
<1>. QED
  BY <1>1, <1>2

\* upsert: the end that stores its peer has both users' consent.
LEMMA PersistStep ==
    ASSUME PairingInv, NEW s \in Sessions, NEW r \in Roles, Persist(s, r)
    PROVE  PairingInv'
<1> DEFINE n == NodeOf(s, r)
           peer == end[s][r].peer.id
<1>1. PairingType /\ SessionInv(s) /\ TaskInv(s, r) /\ Other(r) \in Roles
  BY RoleFacts DEF PairingInv, SessionInv
<1>2. end[s][r].pc = "verify" /\ UNCHANGED <<call, stream, verdict, accepted>>
  BY DEF Persist, net
<1>3. /\ Linked(s) /\ {<<s, r>>, <<s, Other(r)>>} \subseteq accepted
      /\ end[s][r].peer = Hello(s, Other(r)) /\ NodeOf(s, Other(r)) # n
  BY <1>1, <1>2 DEF TaskInv
<1>4. peer = NodeOf(s, Other(r)) /\ n \in Nodes /\ peer \in Nodes /\ n # peer
  BY <1>1, <1>3, HelloFacts
<1>5. BothAccepted(n, peer)
  <2>1. call[s] # None
    BY <1>3, NoneAssumption DEF Linked, Calls
  <2>. QED
    BY <1>3, <1>4, <2>1 DEF BothAccepted
<1> HIDE DEF n, peer
<1>6. CASE Fail(s, r, "signature") /\ UNCHANGED store
  BY <1>2, <1>6, SameStreams, GivesUp DEF Reasons
<1>7. ASSUME Save(n, trust[n] \cup {peer}) \/ SaveFails(n, trust[n] \cup {peer}),
             Move(s, r, "completed") \/ Fail(s, r, "store")
      PROVE  PairingInv'
  <2>1. trust[n] \cup {peer} \in SUBSET Nodes
    BY <1>1, <1>4 DEF PairingType
  <2>2. /\ trust' \in [Nodes -> SUBSET Nodes] /\ trust_file' \in [Nodes -> SUBSET Nodes]
        /\ \A k, m \in Nodes : m \in trust'[k] \cup trust_file'[k] =>
              m \in trust[k] \cup trust_file[k] \/ (k = n /\ m = peer)
    <3> DEFINE P == trust[n] \cup {peer}
    <3> HIDE DEF P
    <3>1. P \in SUBSET Nodes /\ (Save(n, P) \/ SaveFails(n, P))
      BY <1>7, <2>1 DEF P
    <3>2. /\ trust' \in [Nodes -> SUBSET Nodes] /\ trust_file' \in [Nodes -> SUBSET Nodes]
          /\ \A k \in Nodes : /\ trust'[k] \in {trust[k]} \cup (IF k = n THEN {P} ELSE {})
                               /\ trust_file'[k] \in {trust_file[k]} \cup (IF k = n THEN {P} ELSE {})
      BY <1>1, <1>4, <3>1, SaveFacts, SMT
    <3>. QED
      BY <3>2 DEF P
  <2>3. /\ end' \in [Sessions -> [Roles -> Ends]]
        /\ end'[s][r].pc \in {"completed", "failed"} /\ end'[s][r].peer = end[s][r].peer
        /\ \A q \in Roles \ {r} : end'[s][q] = end[s][q]
        /\ \A t \in Sessions \ {s} : end'[t] = end[t]
    <3>1. "completed" \in Running \cup Over /\ "store" \in Reasons
      BY DEF Over, Reasons
    <3>2. CASE Move(s, r, "completed")
      BY <1>1, <3>1, <3>2, MoveFacts
    <3>3. CASE Fail(s, r, "store")
      BY <1>1, <3>1, <3>3, FailFacts
    <3>. QED
      BY <1>7, <3>2, <3>3
  <2>4. Stable(s) => TaskInv(s, r)'
    BY <1>1, <1>2, <2>3, TaskKept DEF Over
  <2>5. PairingType' /\ \A t \in Sessions : SessionInv(t)' /\ Stable(t)
    BY <1>2, <2>2, <2>3, <2>4, SameStreams, ActsOn, ZenonT(30)
  <2>6. \A t \in Sessions : call'[t] = None => end'[t]["initiator"].pc = "idle"
    BY <2>5 DEF SessionInv
  <2>7. ASSUME NEW k \in Nodes, NEW m \in Nodes, m \in trust'[k] \cup trust_file'[k]
        PROVE  BothAccepted(k, m)' /\ k # m
    <3>1. BothAccepted(k, m) /\ k # m
      BY <1>4, <1>5, <2>2, <2>7 DEF PairingInv, TrustNeedsBothUsers
    <3>. QED
      BY <1>2, <2>5, <2>6, <3>1, BothStay
  <2>8. TrustNeedsBothUsers'
    BY <2>7 DEF TrustNeedsBothUsers
  <2>. QED
    BY <2>5, <2>8 DEF PairingInv
<1>. QED
  BY <1>6, <1>7 DEF Persist, n, peer

LEMMA RevokeStep ==
    ASSUME PairingInv, NEW n \in Nodes, NEW m \in Nodes, RevokeTrust(n, m)
    PROVE  PairingInv'
<1>1. PairingType /\ UNCHANGED <<call, stream, end, verdict, accepted>>
  BY DEF RevokeTrust, net, PairingInv
<1>2. /\ trust' \in [Nodes -> SUBSET Nodes] /\ trust_file' \in [Nodes -> SUBSET Nodes]
      /\ \A k \in Nodes : trust'[k] \cup trust_file'[k] \subseteq trust[k] \cup trust_file[k]
  <2>1. trust[n] \ {m} \in SUBSET Nodes
    BY <1>1 DEF PairingType
  <2>. QED
    BY <1>1, <2>1, SaveFacts, SMT DEF RevokeTrust
<1>3. PairingType'
  BY <1>1, <1>2 DEF PairingType
<1>4. \A t \in Sessions : SessionInv(t)' /\ Stable(t)
  BY <1>1, Elsewhere DEF PairingInv
<1>5. TrustNeedsBothUsers'
  BY <1>1, <1>2, <1>4, TrustKept DEF SessionInv
<1>. QED
  BY <1>3, <1>4, <1>5 DEF PairingInv

LEMMA EndsStep ==
    ASSUME PairingInv, NEW s \in Sessions, NEW r \in Roles, SessionTimesOut(s, r) \/ StreamEnds(s, r)
    PROVE  PairingInv'
<1>1. end[s][r].pc # "idle"
  BY DEF SessionTimesOut, StreamEnds, Running
<1>2. \E why \in Reasons : Fail(s, r, why)
  BY DEF SessionTimesOut, StreamEnds, Reasons
<1>3. UNCHANGED <<call, stream, store, accepted, verdict>>
  BY DEF SessionTimesOut, StreamEnds, net
<1>. QED
  BY <1>1, <1>2, <1>3, SameStreams, GivesUp

\* Tasks that vanish with their listener or their daemon.
LEMMA VanishStep ==
    ASSUME PairingInv, UNCHANGED <<call, stream, verdict, accepted>>,
           end' \in [Sessions -> [Roles -> Ends]],
           \A s \in Sessions, r \in Roles :
              end'[s][r] = end[s][r] \/ (end[s][r].pc # "idle" /\ end'[s][r].pc = "gone"
                                           /\ end'[s][r].peer = end[s][r].peer),
           trust' \in [Nodes -> SUBSET Nodes], trust_file' \in [Nodes -> SUBSET Nodes],
           \A n \in Nodes : trust'[n] \cup trust_file'[n] \subseteq trust[n] \cup trust_file[n]
    PROVE  PairingInv'
<1>1. PairingType'
  BY DEF PairingInv, PairingType
<1>2. "initiator" \in Roles
  BY DEF Roles
<1>3. \A s \in Sessions : Stable(s)
  BY <1>2 DEF Stable, Linked
<1>4. ASSUME NEW s \in Sessions
      PROVE  SessionInv(s)'
  <2>1. SessionInv(s)
    BY DEF PairingInv
  <2>2. call'[s] = None => end'[s]["initiator"].pc = "idle"
    BY <1>2, <2>1 DEF SessionInv
  <2>3. ASSUME NEW r \in Roles
        PROVE  TaskInv(s, r)'
    <3>1. end'[s][r].peer = end[s][r].peer /\ end'[s][r].pc \in {end[s][r].pc} \cup Over
      BY DEF Over
    <3>. QED
      BY <1>3, <2>1, <3>1, TaskKept, ZenonT(30) DEF SessionInv
  <2>4. \A r \in Roles : WireInv(s, r)'
    BY <1>3, <2>1, WireKept DEF SessionInv, WireInv
  <2>. QED
    BY <2>2, <2>3, <2>4 DEF SessionInv
<1>5. TrustNeedsBothUsers'
  BY <1>3, <1>4, TrustKept DEF SessionInv
<1>. QED
  BY <1>1, <1>4, <1>5 DEF PairingInv

LEMMA RestartStep ==
    ASSUME PairingInv, NEW n \in Nodes, Restart(n)
    PROVE  PairingInv'
<1>1. PairingType
  BY DEF PairingInv
<1> DEFINE g(s, r) == IF Active(s, r) /\ NodeOf(s, r) = n THEN [end[s][r] EXCEPT !.pc = "gone"]
                      ELSE end[s][r]
<1>2. /\ end' = [s \in Sessions |-> [r \in Roles |-> g(s, r)]]
      /\ trust' = [trust EXCEPT ![n] = trust_file[n]] /\ UNCHANGED <<call, stream, verdict, trust_file, accepted>>
  BY DEF Restart, net
<1>3. ASSUME NEW s \in Sessions, NEW r \in Roles
      PROVE  /\ g(s, r) \in Ends
             /\ g(s, r) = end[s][r] \/ (end[s][r].pc # "idle" /\ g(s, r).pc = "gone"
                                           /\ g(s, r).peer = end[s][r].peer)
  <2>1. end[s][r] \in Ends
    BY <1>1 DEF PairingType
  <2>2. Active(s, r) => end[s][r].pc # "idle"
    BY DEF Active, Running
  <2>3. [end[s][r] EXCEPT !.pc = "gone"] \in Ends /\ [end[s][r] EXCEPT !.pc = "gone"].pc = "gone"
        /\ [end[s][r] EXCEPT !.pc = "gone"].peer = end[s][r].peer
    BY <2>1 DEF Ends, Over
  <2>. QED
    BY <2>1, <2>2, <2>3
<1> HIDE DEF g
<1>4. /\ end' \in [Sessions -> [Roles -> Ends]]
      /\ \A s \in Sessions, r \in Roles : end'[s][r] = g(s, r)
  BY <1>2, <1>3
<1>5. /\ trust' \in [Nodes -> SUBSET Nodes] /\ trust_file' \in [Nodes -> SUBSET Nodes]
      /\ \A k \in Nodes : trust'[k] \cup trust_file'[k] \subseteq trust[k] \cup trust_file[k]
  BY <1>1, <1>2 DEF PairingType
<1>. QED
  BY <1>2, <1>3, <1>4, <1>5, VanishStep, SMT

LEMMA ListenerStep ==
    ASSUME PairingInv, NEW n \in Nodes, ReplaceListener(n)
    PROVE  PairingInv'
<1>1. PairingType /\ "responder" \in Roles
  BY DEF PairingInv, Roles
<1> DEFINE e(s) == [end[s]["responder"] EXCEPT !.pc = "gone"]
           g(s) == IF end[s]["responder"].pc = "queued" /\ NodeOf(s, "responder") = n
                   THEN [end[s] EXCEPT !["responder"] = e(s)] ELSE end[s]
<1>2. end' = [s \in Sessions |-> g(s)] /\ UNCHANGED <<call, stream, verdict, store, accepted>>
  BY DEF ReplaceListener, net
<1>3. ASSUME NEW s \in Sessions
      PROVE  /\ g(s) \in [Roles -> Ends]
             /\ \A r \in Roles : g(s)[r] = end[s][r] \/ (end[s][r].pc # "idle" /\ g(s)[r].pc = "gone"
                                                           /\ g(s)[r].peer = end[s][r].peer)
  <2>1. end[s] \in [Roles -> Ends] /\ end[s]["responder"] \in Ends
    BY <1>1 DEF PairingType
  <2>2. e(s) \in Ends /\ e(s).pc = "gone" /\ e(s).peer = end[s]["responder"].peer
    BY <2>1 DEF Ends, Over
  <2> HIDE DEF e
  <2>. QED
    BY <1>1, <2>1, <2>2
<1> HIDE DEF g
<1>4. /\ end' \in [Sessions -> [Roles -> Ends]] /\ \A s \in Sessions : end'[s] = g(s)
  BY <1>2, <1>3
<1>5. trust' \in [Nodes -> SUBSET Nodes] /\ trust_file' \in [Nodes -> SUBSET Nodes]
  BY <1>1, <1>2 DEF PairingType, store
<1>. QED
  BY <1>2, <1>3, <1>4, <1>5, VanishStep DEF store

LEMMA PairingInitInv == Init => PairingInv
<1> SUFFICES ASSUME Init
             PROVE  PairingInv
  OBVIOUS
<1>1. /\ call = [s \in Sessions |-> None]
      /\ end = [s \in Sessions |-> [r \in Roles |-> Idle]]
      /\ stream = [s \in Sessions |-> [r \in Roles |-> FreshStream]]
      /\ verdict = [s \in Sessions |-> [r \in Roles |-> "none"]]
      /\ trust = [n \in Nodes |-> {}] /\ trust_file = [n \in Nodes |-> {}] /\ accepted = {}
  BY DEF Init
<1>2. Idle \in Ends /\ Idle.pc = "idle" /\ Idle.peer = None /\ "initiator" \in Roles
  BY DEF Idle, Ends, Roles
<1>3. Streams = StreamsOf(Hellos \cup Confirms)
  BY DEF Streams, StreamsOf, Pieces, Pack
<1>4. PairingType
  BY <1>1, <1>2, <1>3, FreshFacts DEF PairingType
<1>5. \A s \in Sessions : \A r \in Roles : TaskInv(s, r)
  BY <1>1, <1>2, SMT DEF TaskInv, Running
<1>6. \A s \in Sessions : \A r \in Roles : WireInv(s, r)
  BY <1>1, FreshFacts DEF WireInv
<1>7. \A s \in Sessions : end[s]["initiator"].pc = "idle"
  BY <1>1, <1>2
<1>8. TrustNeedsBothUsers
  BY <1>1 DEF TrustNeedsBothUsers
<1>. QED
  BY <1>4, <1>5, <1>6, <1>7, <1>8 DEF PairingInv, SessionInv

LEMMA PairingStepInv == PairingInv /\ [Next]_vars => PairingInv'
<1> SUFFICES ASSUME PairingInv, [Next]_vars
             PROVE  PairingInv'
  OBVIOUS
<1>1. ASSUME UNCHANGED <<net, end, verdict, store, accepted>>
      PROVE  PairingInv'
  <2>1. trust' \in [Nodes -> SUBSET Nodes] /\ trust_file' \in [Nodes -> SUBSET Nodes]
        /\ end' \in [Sessions -> [Roles -> Ends]]
    BY <1>1 DEF PairingInv, PairingType, store
  <2>. QED
    BY <1>1, <2>1, VanishStep DEF net, store
<1>2. CASE UNCHANGED vars
  BY <1>1, <1>2 DEF vars
<1>3. ASSUME NEW n \in Nodes, ReplaceListener(n) \/ Tick(n) \/ Restart(n)
      PROVE  PairingInv'
  BY <1>1, <1>3, ListenerStep, RestartStep DEF Tick
<1>4. ASSUME NEW s \in Sessions, NEW r \in Roles, EndStep(s, r)
      PROVE  PairingInv'
  BY <1>4, ReceiveHelloStep, ReceivePartStep, ReceiveConfirmStep, TakeVerdictStep, PersistStep, EndsStep
     DEF EndStep
<1>. QED
  BY <1>2, <1>3, <1>4, StartStep, ConnectStep, ConnectingStep, ConfirmPairingStep, RevokeStep DEF Next

\* A machine trusts another, in memory or on disk, only after the users of both
\* accepted in one session between the two (run_session_inner,
\* TrustedPeerStore): for any number of machines and of connections that cross,
\* are answered by somebody else, break, time out or restart.
THEOREM TrustIsMutual == Spec => []TrustNeedsBothUsers
<1>1. PairingInv => TrustNeedsBothUsers
  BY DEF PairingInv
<1>. QED
  BY <1>1, PairingInitInv, PairingStepInv, PTL DEF Spec

\* canonical_transcript does not depend on the side that computes it.
LEMMA OneTranscript ==
    ASSUME PairingInv, NEW s \in Sessions, NEW q \in Roles, end[s][q].peer # None
    PROVE  LET i == Hello(s, "initiator")
               j == Hello(s, "responder")
           IN /\ Transcript(s, q) = IF Rank[i.id] <= Rank[j.id] THEN <<i, j>> ELSE <<j, i>>
              /\ i.nonce[1] = s /\ j.nonce[1] = s
<1> DEFINE i == Hello(s, "initiator")
           j == Hello(s, "responder")
<1>1. /\ Linked(s) /\ end[s][q].peer = Hello(s, Other(q)) /\ NodeOf(s, Other(q)) # NodeOf(s, q)
  BY DEF PairingInv, SessionInv, TaskInv
<1>2. \/ q = "initiator" /\ Other(q) = "responder"
      \/ q = "responder" /\ Other(q) = "initiator"
  BY DEF Roles, Other
<1>3. i.id \in Nodes /\ j.id \in Nodes /\ i.id # j.id
  BY <1>1, <1>2, HelloFacts DEF Roles
<1>4. Rank[i.id] \in Nat /\ Rank[j.id] \in Nat /\ Rank[i.id] # Rank[j.id]
  BY <1>3, PairingAssumption
<1>5. i.nonce[1] = s /\ j.nonce[1] = s
  BY DEF Hello
<1> HIDE DEF i, j
<1>6. Transcript(s, q) = CanonicalTranscript(i, j) \/ Transcript(s, q) = CanonicalTranscript(j, i)
  BY <1>1, <1>2 DEF Transcript, i, j
<1>7. Transcript(s, q) = IF Rank[i.id] <= Rank[j.id] THEN <<i, j>> ELSE <<j, i>>
  BY <1>4, <1>6, SMT DEF CanonicalTranscript
<1>. QED
  BY <1>5, <1>7 DEF i, j

\* The two screens of a session show the same code and no two sessions show the
\* same one, with sas_code injective on the transcript (canonical_transcript).
THEOREM CodesAlwaysAgree == Spec => []CodesAgree
<1>1. PairingInv => CodesAgree
  <2> SUFFICES ASSUME PairingInv, NEW s \in Sessions, NEW t \in Sessions, NEW q \in Roles, NEW r \in Roles,
                      end[s][q].peer # None, end[t][r].peer # None
               PROVE  Transcript(s, q) = Transcript(t, r) <=> s = t
    BY SMT DEF CodesAgree
  <2>1. s = t => Transcript(s, q) = Transcript(t, r)
    BY OneTranscript, SMT
  <2>2. Transcript(s, q)[1].nonce[1] = s /\ Transcript(t, r)[1].nonce[1] = t
    BY OneTranscript, SMT
  <2>. QED
    BY <2>1, <2>2
<1>. QED
  BY <1>1, PairingInitInv, PairingStepInv, PTL DEF Spec

-----------------------------------------------------------------------------
(* How far a session has come.                                               *)

Opening == {"idle", "connecting", "queued", "hello1", "hello2"}

\* canonical_transcript, as both ends compute it.
Agreed(s) ==
    LET i == Hello(s, "initiator")
        j == Hello(s, "responder")
    IN IF Rank[i.id] <= Rank[j.id] THEN <<i, j>> ELSE <<j, i>>

\* The Confirms that end q of s can send: a yes signs the transcript, a no is the
\* user's.
Truthful(s, q) ==
    {c \in Confirms : /\ c.accepted => c.sig = Signature(NodeOf(s, q), Agreed(s))
                      /\ ~c.accepted => verdict[s][q] = "decline"}

\* What end q of s says, frame by frame.
Script(s, q) == [k \in Nat |-> IF k = 0 THEN Hellos ELSE Truthful(s, q)]

\* The frames a task has sent and read when it is at pc.
SentAt(pc, n) ==
    /\ pc \in Opening => n = 0
    /\ pc \in {"hello", "proposed", "early"} => n = 1
    /\ pc \in {"awaiting", "verify", "completed"} => n = 2
ReadAt(pc, n, header) ==
    /\ pc \in Opening \cup {"hello"} => n = 0 /\ ~header
    /\ pc \in {"proposed", "awaiting"} => n = 1

StreamInv(s, r) ==
    LET d == stream[s][r]
    IN /\ Orderly(d, Script(s, Other(r)))
       /\ SentAt(end[s][Other(r)].pc, d.send_counter)
       /\ ReadAt(end[s][r].pc, d.recv_counter, d.header_read)

\* A failure of end r of s that FailuresAreReal allows.
Reported(s, r) ==
    /\ end[s][r].why \notin {"frame", "message", "signature"}
    /\ end[s][r].why = "declined" => verdict[s][r] = "decline"
    /\ end[s][r].why = "peer_declined" => verdict[s][Other(r)] = "decline"

OutcomeInv(s, r) ==
    LET e == end[s][r]
    IN /\ e.pc \in {"early", "verify"} => e.confirm.sig = Signature(NodeOf(s, Other(r)), Agreed(s))
       /\ e.pc \in Opening \cup {"hello"} => e.peer = None
       /\ verdict[s][r] # "none" => e.peer # None
       /\ Reported(s, r)

\* An entry of pairing_confirm is one of the machine's own tasks, and its user has
\* not answered: each channel is used once.
TableInv(s, r) ==
    \A n \in Nodes : <<s, r>> \in pairing_confirm[n] =>
        /\ verdict[s][r] = "none" /\ call[s] # None /\ NodeOf(s, r) = n
        /\ r = "responder" => Linked(s)

ProgressInv(s) ==
    /\ end[s]["initiator"].pc \in {"idle", "connecting"} => end[s]["responder"].pc = "idle"
    /\ \A r \in Roles : StreamInv(s, r) /\ OutcomeInv(s, r) /\ TableInv(s, r)

Table == pairing_confirm \in [Nodes -> SUBSET (Sessions \X Roles)]
FlowInv == PairingInv /\ Table /\ \A s \in Sessions : ProgressInv(s)

-----------------------------------------------------------------------------
(* What a step leaves in place.                                              *)

\* A task that moves before its first frame, ends, or stays.
Calm(p, q) == q = p \/ q \in {"failed", "gone"} \/ (p = "verify" /\ q = "completed")
                    \/ (p \in Opening /\ q \in Opening)

LEMMA CalmFacts ==
    ASSUME NEW p, NEW q, Calm(p, q)
    PROVE  /\ \A n : SentAt(p, n) => SentAt(q, n)
           /\ \A n, h : ReadAt(p, n, h) => ReadAt(q, n, h)
           /\ q \in {"early", "verify"} => p = q
           /\ q \in Opening \cup {"hello"} => p \in Opening \cup {"hello"}
<1>1. \A n : SentAt(p, n) => SentAt(q, n)
  BY DEF Calm, SentAt, Opening
<1>2. \A n, h : ReadAt(p, n, h) => ReadAt(q, n, h)
  BY DEF Calm, ReadAt, Opening
<1>. QED
  BY <1>1, <1>2 DEF Calm, Opening

\* The machines and the declines of s stay.
Settles(s) == call'[s] = call[s] /\ \A q \in Roles : verdict[s][q] = "decline" => verdict'[s][q] = "decline"

LEMMA NamesKept ==
    ASSUME NEW s \in Sessions, call'[s] = call[s]
    PROVE  /\ Agreed(s)' = Agreed(s)
           /\ \A q \in Roles : NodeOf(s, q)' = NodeOf(s, q) /\ Hello(s, q)' = Hello(s, q)
<1>1. \A q \in Roles : NodeOf(s, q)' = NodeOf(s, q) /\ Hello(s, q)' = Hello(s, q)
  BY DEF NodeOf, Hello
<1>. QED
  BY <1>1 DEF Agreed, Roles

LEMMA ScriptKept ==
    ASSUME NEW s \in Sessions, NEW q \in Roles, Settles(s)
    PROVE  \A k \in Nat : Script(s, q)[k] \subseteq Script(s, q)'[k]
<1>1. Agreed(s)' = Agreed(s) /\ NodeOf(s, q)' = NodeOf(s, q)
  BY NamesKept DEF Settles
<1>2. Truthful(s, q) \subseteq Truthful(s, q)'
  BY <1>1 DEF Truthful, Settles
<1>. QED
  BY <1>2 DEF Script

\* The stream towards end r of s: nothing arrived, or what arrived was in order.
LEMMA StreamKept ==
    ASSUME NEW s \in Sessions, NEW r \in Roles, Settles(s), stream'[s][r] \in Streams,
           Orderly(stream'[s][r], Script(s, Other(r))),
           SentAt(end'[s][Other(r)].pc, stream'[s][r].send_counter),
           ReadAt(end'[s][r].pc, stream'[s][r].recv_counter, stream'[s][r].header_read)
    PROVE  StreamInv(s, r)'
<1>1. Other(r) \in Roles
  BY RoleFacts
<1>2. \A k \in Nat : Script(s, Other(r))[k] \subseteq Script(s, Other(r))'[k]
  BY <1>1, ScriptKept
<1>3. Orderly(stream'[s][r], Script(s, Other(r))')
  BY <1>2, OrderlyKept
<1>. QED
  BY <1>3 DEF StreamInv, Orderly, Half, Frames

LEMMA StreamCalm ==
    ASSUME NEW s \in Sessions, NEW r \in Roles, Settles(s), stream[s][r] \in Streams, StreamInv(s, r),
           stream'[s][r] = stream[s][r], \A q \in Roles : Calm(end[s][q].pc, end'[s][q].pc)
    PROVE  StreamInv(s, r)'
<1>1. Other(r) \in Roles
  BY RoleFacts
<1>2. SentAt(end'[s][Other(r)].pc, stream[s][r].send_counter)
  BY <1>1, CalmFacts, SMTT(30) DEF StreamInv
<1>3. ReadAt(end'[s][r].pc, stream[s][r].recv_counter, stream[s][r].header_read)
  BY CalmFacts, SMTT(30) DEF StreamInv
<1>4. Orderly(stream[s][r], Script(s, Other(r)))
  BY DEF StreamInv
<1>. QED
  BY <1>2, <1>3, <1>4, StreamKept

\* What end r of s reports and holds stays true.
LEMMA OutcomeKept ==
    ASSUME NEW s \in Sessions, NEW r \in Roles, Settles(s), OutcomeInv(s, r),
           verdict'[s][r] = verdict[s][r],
           end'[s][r].pc \in {"early", "verify"} => end[s][r].pc \in {"early", "verify"},
           end'[s][r].pc \in Opening \cup {"hello"} => end[s][r].pc \in Opening \cup {"hello"},
           end'[s][r].peer = end[s][r].peer, end'[s][r].confirm = end[s][r].confirm,
           end'[s][r].why = end[s][r].why
             \/ end'[s][r].why \notin {"frame", "message", "signature", "declined", "peer_declined"}
    PROVE  OutcomeInv(s, r)'
<1>1. Other(r) \in Roles
  BY RoleFacts
<1>2. NodeOf(s, Other(r))' = NodeOf(s, Other(r)) /\ Agreed(s)' = Agreed(s)
  BY <1>1, NamesKept DEF Settles
<1>3. Reported(s, r)'
  BY <1>1 DEF OutcomeInv, Reported, Settles
<1>. QED
  BY <1>2, <1>3 DEF OutcomeInv

LEMMA TableCalm ==
    ASSUME NEW s \in Sessions, NEW r \in Roles, TableInv(s, r), call'[s] = call[s], Stable(s),
           verdict'[s][r] = verdict[s][r],
           \A n \in Nodes : <<s, r>> \in pairing_confirm'[n] => <<s, r>> \in pairing_confirm[n]
    PROVE  TableInv(s, r)'
<1>1. NodeOf(s, r)' = NodeOf(s, r)
  BY DEF NodeOf
<1>. QED
  BY <1>1 DEF TableInv, Stable

\* A session whose tasks at most end.
LEMMA ProgressCalm ==
    ASSUME FlowInv, NEW s \in Sessions, call'[s] = call[s], verdict'[s] = verdict[s],
           stream'[s] = stream[s], Stable(s),
           end'[s]["initiator"].pc \in {"idle", "connecting"} => end'[s]["responder"].pc = "idle",
           \A r \in Roles :
              /\ Calm(end[s][r].pc, end'[s][r].pc)
              /\ end'[s][r].peer = end[s][r].peer /\ end'[s][r].confirm = end[s][r].confirm
              /\ \/ end'[s][r].why = end[s][r].why
                 \/ end'[s][r].why \notin {"frame", "message", "signature", "declined", "peer_declined"}
              /\ \A n \in Nodes : <<s, r>> \in pairing_confirm'[n] => <<s, r>> \in pairing_confirm[n]
    PROVE  ProgressInv(s)'
<1>1. ProgressInv(s) /\ \A r \in Roles : stream[s][r] \in Streams
  BY DEF FlowInv, PairingInv, PairingType
<1>2. Settles(s)
  BY DEF Settles
<1>3. ASSUME NEW r \in Roles
      PROVE  StreamInv(s, r)' /\ OutcomeInv(s, r)' /\ TableInv(s, r)'
  <2>1. StreamInv(s, r) /\ OutcomeInv(s, r) /\ TableInv(s, r)
    BY <1>1 DEF ProgressInv
  <2>2. StreamInv(s, r)'
    BY <1>1, <1>2, <2>1, StreamCalm
  <2>3. OutcomeInv(s, r)'
    <3>1. /\ end'[s][r].pc \in {"early", "verify"} => end[s][r].pc \in {"early", "verify"}
          /\ end'[s][r].pc \in Opening \cup {"hello"} => end[s][r].pc \in Opening \cup {"hello"}
      <4>1. Calm(end[s][r].pc, end'[s][r].pc)
        OBVIOUS
      <4>. QED
        BY <4>1, CalmFacts, SMTT(30)
    <3>2. verdict'[s][r] = verdict[s][r]
      OBVIOUS
    <3>. QED
      BY <1>2, <2>1, <3>1, <3>2, OutcomeKept
  <2>4. TableInv(s, r)'
    BY <2>1, TableCalm
  <2>. QED
    BY <2>2, <2>3, <2>4
<1>. QED
  BY <1>3 DEF ProgressInv

\* A step of one session; n's table may get an entry for it.
LEMMA OnlySession ==
    ASSUME FlowInv, PairingInv', Table', NEW s \in Sessions, ProgressInv(s)',
           \A t \in Sessions \ {s} :
              /\ call'[t] = call[t] /\ end'[t] = end[t] /\ stream'[t] = stream[t] /\ verdict'[t] = verdict[t]
              /\ \A r \in Roles, n \in Nodes : <<t, r>> \in pairing_confirm'[n] => <<t, r>> \in pairing_confirm[n]
    PROVE  FlowInv'
<1>1. ASSUME NEW t \in Sessions \ {s}
      PROVE  ProgressInv(t)'
  <2>1. Stable(t) /\ ProgressInv(t)
    BY DEF Stable, Linked, FlowInv
  <2>2. \A r \in Roles : Calm(end[t][r].pc, end'[t][r].pc)
    BY DEF Calm
  <2>. QED
    BY <2>1, <2>2, ProgressCalm DEF ProgressInv
<1>. QED
  BY <1>1 DEF FlowInv

-----------------------------------------------------------------------------
(* The steps of the tasks.                                                   *)

LEMMA EndSet ==
    ASSUME PairingType, NEW s \in Sessions, NEW r \in Roles, NEW e \in Ends,
           end' = [end EXCEPT ![s][r] = e]
    PROVE  /\ end'[s][r] = e
           /\ \A q \in Roles \ {r} : end'[s][q] = end[s][q]
           /\ \A t \in Sessions \ {s} : end'[t] = end[t]
  BY EndUpdate, ZenonT(30)

LEMMA MoveDetail ==
    ASSUME PairingType, NEW s \in Sessions, NEW r \in Roles, NEW p \in Running \cup Over, Move(s, r, p)
    PROVE  /\ end'[s][r].pc = p /\ end'[s][r].peer = end[s][r].peer
           /\ end'[s][r].confirm = end[s][r].confirm /\ end'[s][r].why = end[s][r].why
           /\ \A q \in Roles \ {r} : end'[s][q] = end[s][q]
           /\ \A t \in Sessions \ {s} : end'[t] = end[t]
<1> DEFINE e == [end[s][r] EXCEPT !.pc = p]
<1>1. end[s][r] \in Ends
  BY DEF PairingType
<1>2. /\ e \in Ends /\ e.pc = p /\ e.peer = end[s][r].peer
      /\ e.confirm = end[s][r].confirm /\ e.why = end[s][r].why
  BY <1>1 DEF Ends
<1>3. end' = [end EXCEPT ![s][r] = e]
  BY DEF Move
<1> HIDE DEF e
<1>. QED
  BY <1>2, <1>3, EndSet, ZenonT(30)

LEMMA FailDetail ==
    ASSUME PairingType, NEW s \in Sessions, NEW r \in Roles, NEW why \in Reasons, Fail(s, r, why)
    PROVE  /\ end'[s][r].pc = "failed" /\ end'[s][r].peer = end[s][r].peer
           /\ end'[s][r].confirm = end[s][r].confirm /\ end'[s][r].why = why
           /\ \A q \in Roles \ {r} : end'[s][q] = end[s][q]
           /\ \A t \in Sessions \ {s} : end'[t] = end[t]
<1> DEFINE e == [end[s][r] EXCEPT !.pc = "failed", !.why = why]
<1>1. end[s][r] \in Ends
  BY DEF PairingType
<1>2. /\ e \in Ends /\ e.pc = "failed" /\ e.peer = end[s][r].peer
      /\ e.confirm = end[s][r].confirm /\ e.why = why
  BY <1>1 DEF Ends, Over
<1>3. end' = [end EXCEPT ![s][r] = e]
  BY DEF Fail, PairingType
<1> HIDE DEF e
<1>. QED
  BY <1>2, <1>3, EndSet, ZenonT(30)

LEMMA GcFacts ==
    ASSUME Table, NEW n \in Nodes, NEW also \in SUBSET (Sessions \X Roles), GcPairingTasks(n, also)
    PROVE  /\ Table'
           /\ \A m \in Nodes : \A e \in pairing_confirm'[m] : e \in pairing_confirm[m] \/ (m = n /\ e \in also)
<1> DEFINE kept == {e \in pairing_confirm[n] : end'[e[1]][e[2]].pc \in Running} \cup also
<1>1. pairing_confirm' = [pairing_confirm EXCEPT ![n] = kept]
  BY DEF GcPairingTasks
<1>2. kept \in SUBSET (Sessions \X Roles) /\ \A e \in kept : e \in pairing_confirm[n] \/ e \in also
  BY DEF Table
<1> HIDE DEF kept
<1>. QED
  BY <1>1, <1>2 DEF Table

\* The task at end r of s ends, and nothing else changes in the session.
LEMMA EndsCalmly ==
    ASSUME FlowInv, PairingInv', NEW s \in Sessions, NEW r \in Roles, end[s][r].pc # "idle",
           \/ \E why \in {"connect", "io", "timeout", "store", "peer"} : Fail(s, r, why)
           \/ Move(s, r, "completed") /\ end[s][r].pc = "verify",
           UNCHANGED <<call, stream, verdict, pairing_confirm>>
    PROVE  FlowInv'
<1>1. PairingType /\ ProgressInv(s) /\ Table' /\ "initiator" \in Roles /\ "responder" \in Roles
  BY DEF FlowInv, PairingInv, Table, Roles
<1>2. /\ Calm(end[s][r].pc, end'[s][r].pc) /\ end'[s][r].pc \in {"failed", "completed"}
      /\ end'[s][r].peer = end[s][r].peer /\ end'[s][r].confirm = end[s][r].confirm
      /\ \/ end'[s][r].why = end[s][r].why
         \/ end'[s][r].why \notin {"frame", "message", "signature", "declined", "peer_declined"}
      /\ \A q \in Roles \ {r} : end'[s][q] = end[s][q]
      /\ \A t \in Sessions \ {s} : end'[t] = end[t]
  <2>1. CASE Move(s, r, "completed") /\ end[s][r].pc = "verify"
    BY <1>1, <2>1, MoveDetail, SMTT(30) DEF Calm, Over
  <2>2. CASE \E why \in {"connect", "io", "timeout", "store", "peer"} : Fail(s, r, why)
    <3>1. PICK why \in {"connect", "io", "timeout", "store", "peer"} : Fail(s, r, why)
      BY <2>2
    <3>2. why \in Reasons
      BY DEF Reasons
    <3>3. /\ end'[s][r].pc = "failed" /\ end'[s][r].peer = end[s][r].peer
          /\ end'[s][r].confirm = end[s][r].confirm /\ end'[s][r].why = why
          /\ \A q \in Roles \ {r} : end'[s][q] = end[s][q]
          /\ \A t \in Sessions \ {s} : end'[t] = end[t]
      BY <1>1, <3>1, <3>2, FailDetail
    <3>. QED
      BY <3>3 DEF Calm
  <2>. QED
    BY <2>1, <2>2
<1>3. end'[s]["initiator"].pc \in {"idle", "connecting"} => end'[s]["responder"].pc = "idle"
  BY <1>1, <1>2 DEF ProgressInv
<1>4. Stable(s)
  BY <1>1, <1>2 DEF Stable, Linked
<1>5. \A q \in Roles :
        /\ Calm(end[s][q].pc, end'[s][q].pc)
        /\ end'[s][q].peer = end[s][q].peer /\ end'[s][q].confirm = end[s][q].confirm
        /\ \/ end'[s][q].why = end[s][q].why
           \/ end'[s][q].why \notin {"frame", "message", "signature", "declined", "peer_declined"}
  BY <1>2 DEF Calm
<1>6. ProgressInv(s)'
  BY <1>3, <1>4, <1>5, ProgressCalm
<1>. QED
  BY <1>1, <1>2, <1>6, OnlySession, ZenonT(30)

\* Tasks of many sessions end at once, or none does.
LEMMA VanishFlow ==
    ASSUME FlowInv, PairingInv', Table', UNCHANGED <<call, stream, verdict>>,
           \A s \in Sessions, r \in Roles :
              end'[s][r] = end[s][r]
                \/ (/\ end[s][r].pc # "idle" /\ end'[s][r].pc = "gone" /\ end'[s][r].peer = end[s][r].peer
                    /\ end'[s][r].confirm = end[s][r].confirm /\ end'[s][r].why = end[s][r].why),
           \A n \in Nodes : pairing_confirm'[n] \subseteq pairing_confirm[n]
    PROVE  FlowInv'
<1>1. ASSUME NEW s \in Sessions
      PROVE  ProgressInv(s)'
  <2>1. ProgressInv(s) /\ "initiator" \in Roles /\ "responder" \in Roles
    BY DEF FlowInv, Roles
  <2>2. end'[s]["initiator"].pc \in {"idle", "connecting"} => end'[s]["responder"].pc = "idle"
    BY <2>1 DEF ProgressInv
  <2>3. Stable(s)
    BY <2>1 DEF Stable, Linked
  <2>4. \A q \in Roles :
          /\ Calm(end[s][q].pc, end'[s][q].pc)
          /\ end'[s][q].peer = end[s][q].peer /\ end'[s][q].confirm = end[s][q].confirm
          /\ end'[s][q].why = end[s][q].why
    BY DEF Calm
  <2>. QED
    BY <2>2, <2>3, <2>4, ProgressCalm
<1>. QED
  BY <1>1 DEF FlowInv

LEMMA RestartFlow ==
    ASSUME FlowInv, PairingInv', NEW n \in Nodes, Restart(n) \/ ReplaceListener(n) \/ Tick(n)
    PROVE  FlowInv'
<1>1. PairingType /\ Table /\ "responder" \in Roles
  BY DEF FlowInv, PairingInv, Roles
<1>2. CASE Restart(n)
  <2> DEFINE g(s, r) == IF Active(s, r) /\ NodeOf(s, r) = n THEN [end[s][r] EXCEPT !.pc = "gone"]
                        ELSE end[s][r]
  <2>1. /\ end' = [s \in Sessions |-> [r \in Roles |-> g(s, r)]]
        /\ pairing_confirm' = [pairing_confirm EXCEPT ![n] = {}] /\ UNCHANGED <<call, stream, verdict>>
    BY <1>2 DEF Restart, net
  <2>2. ASSUME NEW s \in Sessions, NEW r \in Roles
        PROVE  g(s, r) = end[s][r]
                \/ (/\ end[s][r].pc # "idle" /\ g(s, r).pc = "gone" /\ g(s, r).peer = end[s][r].peer
                    /\ g(s, r).confirm = end[s][r].confirm /\ g(s, r).why = end[s][r].why)
    <3>1. end[s][r] \in Ends
      BY <1>1 DEF PairingType
    <3>2. Active(s, r) => end[s][r].pc # "idle"
      BY DEF Active, Running
    <3>. QED
      BY <3>1, <3>2 DEF Ends
  <2> HIDE DEF g
  <2>3. \A s \in Sessions, r \in Roles : end'[s][r] = g(s, r)
    BY <2>1
  <2>4. Table' /\ \A m \in Nodes : pairing_confirm'[m] \subseteq pairing_confirm[m]
    BY <1>1, <2>1 DEF Table
  <2>. QED
    BY <2>1, <2>2, <2>3, <2>4, VanishFlow
<1>3. CASE ReplaceListener(n)
  <2> DEFINE e(s) == [end[s]["responder"] EXCEPT !.pc = "gone"]
             g(s) == IF end[s]["responder"].pc = "queued" /\ NodeOf(s, "responder") = n
                     THEN [end[s] EXCEPT !["responder"] = e(s)] ELSE end[s]
  <2>1. end' = [s \in Sessions |-> g(s)] /\ UNCHANGED <<call, stream, verdict, pairing_confirm>>
    BY <1>3 DEF ReplaceListener, net
  <2>2. ASSUME NEW s \in Sessions, NEW r \in Roles
        PROVE  g(s)[r] = end[s][r]
                \/ (/\ end[s][r].pc # "idle" /\ g(s)[r].pc = "gone" /\ g(s)[r].peer = end[s][r].peer
                    /\ g(s)[r].confirm = end[s][r].confirm /\ g(s)[r].why = end[s][r].why)
    <3>1. end[s] \in [Roles -> Ends] /\ end[s]["responder"] \in Ends
      BY <1>1 DEF PairingType
    <3>2. /\ e(s).pc = "gone" /\ e(s).peer = end[s]["responder"].peer
          /\ e(s).confirm = end[s]["responder"].confirm /\ e(s).why = end[s]["responder"].why
      BY <3>1 DEF Ends
    <3> HIDE DEF e
    <3>. QED
      BY <1>1, <3>1, <3>2
  <2> HIDE DEF g
  <2>3. \A s \in Sessions : end'[s] = g(s)
    BY <2>1
  <2>4. Table' /\ \A m \in Nodes : pairing_confirm'[m] \subseteq pairing_confirm[m]
    BY <1>1, <2>1 DEF Table
  <2>. QED
    BY <2>1, <2>2, <2>3, <2>4, VanishFlow
<1>4. CASE Tick(n)
  <2>1. UNCHANGED <<call, stream, verdict, end>> /\ GcPairingTasks(n, {})
    BY <1>4 DEF Tick, net
  <2>2. Table' /\ \A m \in Nodes : pairing_confirm'[m] \subseteq pairing_confirm[m]
    BY <1>1, <2>1, GcFacts, SMTT(30)
  <2>. QED
    BY <2>1, <2>2, VanishFlow
<1>. QED
  BY <1>2, <1>3, <1>4

\* Before the first frame nothing depends on who the machines are.
LEMMA OpenStream ==
    ASSUME NEW s \in Sessions, NEW r \in Roles, stream[s][r] \in Streams, StreamInv(s, r),
           stream'[s] = stream[s],
           \A q \in Roles : end[s][q].pc \in Opening /\ end'[s][q].pc \in Opening
    PROVE  StreamInv(s, r)'
<1> DEFINE d == stream[s][r]
<1>1. Other(r) \in Roles
  BY RoleFacts
<1>2. d.send_counter = 0 /\ d.recv_counter = 0 /\ ~d.header_read
  BY <1>1 DEF StreamInv, SentAt, ReadAt
<1>3. Orderly(d, Script(s, Other(r))')
  BY <1>2, OrderlyKept DEF StreamInv
<1>4. SentAt(end'[s][Other(r)].pc, d.send_counter) /\ ReadAt(end'[s][r].pc, d.recv_counter, d.header_read)
  BY <1>1, <1>2 DEF SentAt, ReadAt, Opening
<1>5. stream'[s][r] = d
  OBVIOUS
<1> HIDE DEF d
<1>. QED
  BY <1>3, <1>4, <1>5 DEF StreamInv, Orderly, Half, Frames

LEMMA OpenOutcome ==
    ASSUME NEW s \in Sessions, NEW r \in Roles, OutcomeInv(s, r), verdict'[s] = verdict[s],
           end[s][r].pc \in Opening, end'[s][r].pc \in Opening,
           end'[s][r].peer = end[s][r].peer, end'[s][r].why = end[s][r].why
    PROVE  OutcomeInv(s, r)'
<1>1. Other(r) \in Roles
  BY RoleFacts
<1>2. end'[s][r].pc \notin {"early", "verify"}
  BY DEF Opening
<1>. QED
  BY <1>1, <1>2 DEF OutcomeInv, Reported

LEMMA StartFlow ==
    ASSUME FlowInv, PairingInv', NEW s \in Sessions, NEW n \in Nodes, NEW m \in Nodes, StartPairing(s, n, m)
    PROVE  FlowInv'
<1>1. /\ PairingType /\ PairingType' /\ SessionInv(s) /\ ProgressInv(s) /\ Table
      /\ "initiator" \in Roles /\ "responder" \in Roles
  BY DEF FlowInv, PairingInv, Roles
<1> DEFINE c == [initiator |-> n, responder |-> None, expected |-> m]
           also == {<<s, "initiator">>}
<1>2. /\ call[s] = None /\ call' = [call EXCEPT ![s] = c] /\ Move(s, "initiator", "connecting")
      /\ GcPairingTasks(n, also) /\ UNCHANGED <<stream, verdict>>
  BY DEF StartPairing
<1>3. c \in Calls /\ c.initiator = n
  BY DEF Calls
<1>4. c # None
  BY <1>3, NoneAssumption
<1> HIDE DEF c
<1>5. call'[s] = c /\ \A t \in Sessions \ {s} : call'[t] = call[t]
  BY <1>1, <1>2 DEF PairingType
<1>6. end[s]["initiator"].pc = "idle" /\ end[s]["responder"].pc = "idle"
  BY <1>1, <1>2 DEF SessionInv, ProgressInv
<1>7. /\ end'[s]["initiator"].pc = "connecting" /\ end'[s]["responder"] = end[s]["responder"]
      /\ end'[s]["initiator"].peer = end[s]["initiator"].peer
      /\ end'[s]["initiator"].confirm = end[s]["initiator"].confirm
      /\ end'[s]["initiator"].why = end[s]["initiator"].why
      /\ \A t \in Sessions \ {s} : end'[t] = end[t]
  BY <1>1, <1>2, MoveDetail, SMTT(30) DEF Running
<1>8. also \in SUBSET (Sessions \X Roles)
  BY <1>1, SMTT(30)
<1>9. /\ Table'
      /\ \A k \in Nodes : \A e \in pairing_confirm'[k] : e \in pairing_confirm[k] \/ (k = n /\ e \in also)
  BY <1>1, <1>2, <1>8, GcFacts
<1>10. \A r \in Roles : end[s][r].pc \in Opening /\ end'[s][r].pc \in Opening
  BY <1>6, <1>7 DEF Opening, Roles
<1>11. ASSUME NEW r \in Roles
       PROVE  StreamInv(s, r)'
  <2>1. stream[s][r] \in Streams /\ StreamInv(s, r) /\ stream'[s] = stream[s]
    BY <1>1, <1>2, SMTT(30) DEF PairingType, ProgressInv
  <2>. QED
    BY <1>10, <2>1, OpenStream
<1>12. ASSUME NEW r \in Roles
       PROVE  OutcomeInv(s, r)'
  BY <1>1, <1>2, <1>7, <1>10, OpenOutcome DEF ProgressInv, Roles
<1>13. ASSUME NEW r \in Roles
       PROVE  TableInv(s, r)'
  <2>1. \A k \in Nodes : <<s, r>> \notin pairing_confirm[k]
    BY <1>1, <1>2 DEF ProgressInv, TableInv
  <2>2. \A k \in Nodes : <<s, r>> \in pairing_confirm'[k] => k = n /\ r = "initiator"
    BY <1>9, <2>1
  <2>3. verdict'[s]["initiator"] = "none"
    BY <1>1, <1>2, <1>10 DEF ProgressInv, OutcomeInv
  <2>4. NodeOf(s, "initiator")' = n /\ call'[s] # None
    BY <1>3, <1>4, <1>5 DEF NodeOf
  <2>. QED
    BY <2>2, <2>3, <2>4 DEF TableInv
<1>14. ProgressInv(s)'
  BY <1>6, <1>7, <1>11, <1>12, <1>13 DEF ProgressInv
<1>15. \A t \in Sessions \ {s} : \A r \in Roles, k \in Nodes : <<t, r>> \in pairing_confirm'[k] => <<t, r>> \in pairing_confirm[k]
  BY <1>9
<1>. QED
  BY <1>2, <1>5, <1>7, <1>9, <1>14, <1>15, OnlySession

LEMMA ConnectFlow ==
    ASSUME FlowInv, PairingInv', NEW s \in Sessions, NEW p \in Nodes, Connect(s, p)
    PROVE  FlowInv'
<1>1. /\ PairingType /\ SessionInv(s) /\ ProgressInv(s) /\ Table
      /\ "initiator" \in Roles /\ "responder" \in Roles
  BY DEF FlowInv, PairingInv, Roles
<1>2. /\ end[s]["initiator"].pc = "connecting"
      /\ call' = [call EXCEPT ![s].responder = p]
      /\ end' = [end EXCEPT ![s]["initiator"].pc = "hello2", ![s]["responder"].pc = "queued"]
      /\ UNCHANGED <<stream, verdict, pairing_confirm>>
  BY DEF Connect
<1>3. call[s] \in Calls /\ ~Linked(s) /\ end[s]["responder"].pc = "idle"
  BY <1>1, <1>2 DEF SessionInv, PairingType, Linked, ProgressInv
<1> DEFINE c == [call[s] EXCEPT !.responder = p]
<1>4. c \in Calls /\ c.initiator = call[s].initiator
  BY <1>3 DEF Calls
<1>5. call' = [call EXCEPT ![s] = c]
  BY <1>2
<1> HIDE DEF c
<1>6. call'[s] = c /\ c # None /\ \A t \in Sessions \ {s} : call'[t] = call[t]
  BY <1>1, <1>4, <1>5, NoneAssumption DEF PairingType
<1> DEFINE i == [end[s]["initiator"] EXCEPT !.pc = "hello2"]
           j == [end[s]["responder"] EXCEPT !.pc = "queued"]
<1>7. /\ i.pc = "hello2" /\ i.peer = end[s]["initiator"].peer
      /\ i.confirm = end[s]["initiator"].confirm /\ i.why = end[s]["initiator"].why
      /\ j.pc = "queued" /\ j.peer = end[s]["responder"].peer
      /\ j.confirm = end[s]["responder"].confirm /\ j.why = end[s]["responder"].why
  <2>1. end[s]["initiator"] \in Ends /\ end[s]["responder"] \in Ends
    BY <1>1 DEF PairingType
  <2>. QED
    BY <2>1 DEF Ends
<1>8. end' = [end EXCEPT ![s]["initiator"] = i, ![s]["responder"] = j]
  BY <1>1, <1>2 DEF PairingType
<1> HIDE DEF i, j
<1>9. /\ end'[s]["initiator"] = i /\ end'[s]["responder"] = j
      /\ \A t \in Sessions \ {s} : end'[t] = end[t]
  BY <1>1, <1>8 DEF PairingType
<1>10. \A r \in Roles : end[s][r].pc \in Opening /\ end'[s][r].pc \in Opening
  BY <1>2, <1>3, <1>7, <1>9 DEF Opening, Roles
<1>11. ASSUME NEW r \in Roles
       PROVE  StreamInv(s, r)'
  <2>1. stream[s][r] \in Streams /\ StreamInv(s, r) /\ stream'[s] = stream[s]
    BY <1>1, <1>2 DEF PairingType, ProgressInv
  <2>. QED
    BY <1>10, <2>1, OpenStream
<1>12. ASSUME NEW r \in Roles
       PROVE  OutcomeInv(s, r)'
  BY <1>1, <1>2, <1>7, <1>9, <1>10, OpenOutcome, ZenonT(30) DEF ProgressInv, Roles
<1>13. ASSUME NEW r \in Roles
       PROVE  TableInv(s, r)'
  <2>1. r = "responder" => \A k \in Nodes : <<s, r>> \notin pairing_confirm[k]
    BY <1>1, <1>3 DEF ProgressInv, TableInv
  <2>2. r = "initiator" => NodeOf(s, r)' = NodeOf(s, r)
    BY <1>4, <1>6 DEF NodeOf
  <2>. QED
    BY <1>1, <1>2, <1>6, <2>1, <2>2 DEF TableInv, Roles, ProgressInv
<1>14. ProgressInv(s)'
  BY <1>7, <1>9, <1>11, <1>12, <1>13 DEF ProgressInv
<1>15. Table'
  BY <1>1, <1>2 DEF Table
<1>. QED
  BY <1>2, <1>6, <1>9, <1>14, <1>15, OnlySession, ZenonT(30)

\* handle_incoming_pairing.
LEMMA IncomingFlow ==
    ASSUME FlowInv, PairingInv', NEW s \in Sessions, HandleIncomingPairing(s)
    PROVE  FlowInv'
<1> DEFINE n == NodeOf(s, "responder")
           also == {<<s, "responder">>}
<1>1. /\ PairingType /\ SessionInv(s) /\ ProgressInv(s) /\ Table
      /\ "initiator" \in Roles /\ "responder" \in Roles
  BY DEF FlowInv, PairingInv, Roles
<1>2. /\ end[s]["responder"].pc = "queued" /\ Move(s, "responder", "hello1")
      /\ GcPairingTasks(n, also) /\ UNCHANGED <<call, stream, verdict>>
  BY DEF HandleIncomingPairing, net
<1>3. Linked(s)
  BY <1>1, <1>2 DEF SessionInv, TaskInv, Running
<1>4. n \in Nodes
  BY <1>1, <1>3, HelloFacts
<1> HIDE DEF n
<1>5. /\ end'[s]["responder"].pc = "hello1" /\ end'[s]["initiator"] = end[s]["initiator"]
      /\ end'[s]["responder"].peer = end[s]["responder"].peer
      /\ end'[s]["responder"].confirm = end[s]["responder"].confirm
      /\ end'[s]["responder"].why = end[s]["responder"].why
      /\ \A t \in Sessions \ {s} : end'[t] = end[t]
  BY <1>1, <1>2, MoveDetail, SMTT(30) DEF Running
<1>6. also \in SUBSET (Sessions \X Roles)
  BY <1>1, SMTT(30)
<1>7. /\ Table'
      /\ \A k \in Nodes : \A e \in pairing_confirm'[k] : e \in pairing_confirm[k] \/ (k = n /\ e \in also)
  BY <1>1, <1>2, <1>4, <1>6, GcFacts, ZenonT(30)
<1>8. Settles(s) /\ Stable(s) /\ call'[s] = call[s]
  BY <1>2, <1>5 DEF Settles, Stable, Linked
<1>9. ASSUME NEW r \in Roles
      PROVE  StreamInv(s, r)' /\ OutcomeInv(s, r)'
  <2>1. stream[s][r] \in Streams /\ StreamInv(s, r) /\ OutcomeInv(s, r)
    BY <1>1 DEF ProgressInv, PairingType
  <2>2. \A q \in Roles : Calm(end[s][q].pc, end'[s][q].pc)
    BY <1>2, <1>5 DEF Calm, Opening, Roles
  <2>3. StreamInv(s, r)'
    BY <1>2, <1>8, <2>1, <2>2, StreamCalm
  <2>4. /\ end'[s][r].pc \in {"early", "verify"} => end[s][r].pc \in {"early", "verify"}
        /\ end'[s][r].pc \in Opening \cup {"hello"} => end[s][r].pc \in Opening \cup {"hello"}
    BY <2>2, CalmFacts, SMTT(30)
  <2>5. /\ end'[s][r].peer = end[s][r].peer /\ end'[s][r].confirm = end[s][r].confirm
        /\ end'[s][r].why = end[s][r].why /\ verdict'[s][r] = verdict[s][r]
    BY <1>2, <1>5 DEF Roles
  <2>. QED
    BY <1>8, <2>1, <2>3, <2>4, <2>5, OutcomeKept
<1>10. ASSUME NEW r \in Roles
       PROVE  TableInv(s, r)'
  <2>1. CASE r = "initiator"
    <3>1. TableInv(s, r) /\ \A k \in Nodes : <<s, r>> \in pairing_confirm'[k] => <<s, r>> \in pairing_confirm[k]
      BY <1>1, <1>7, <2>1 DEF ProgressInv
    <3>. QED
      BY <1>2, <1>8, <3>1, TableCalm
  <2>2. CASE r = "responder"
    <3>1. verdict'[s][r] = "none"
      BY <1>1, <1>2, <2>2 DEF ProgressInv, OutcomeInv, Opening
    <3>2. call'[s] # None /\ Linked(s)'
      BY <1>3, <1>8, NoneAssumption DEF Linked, Calls, Stable
    <3>3. NodeOf(s, r)' = n
      BY <1>8, <2>2 DEF NodeOf, n
    <3>4. \A k \in Nodes : <<s, r>> \in pairing_confirm'[k] => k = n
      BY <1>1, <1>7, <2>2 DEF ProgressInv, TableInv, n
    <3>. QED
      BY <3>1, <3>2, <3>3, <3>4 DEF TableInv
  <2>. QED
    BY <2>1, <2>2 DEF Roles
<1>11. ProgressInv(s)'
  BY <1>1, <1>2, <1>5, <1>9, <1>10 DEF ProgressInv
<1>12. \A t \in Sessions \ {s} : \A r \in Roles, k \in Nodes : <<t, r>> \in pairing_confirm'[k] => <<t, r>> \in pairing_confirm[k]
  BY <1>7
<1>. QED
  BY <1>2, <1>5, <1>7, <1>11, <1>12, OnlySession

\* A step of the task at end r of s.
LEMMA OneEnd ==
    ASSUME FlowInv, PairingInv', NEW s \in Sessions, NEW r \in Roles,
           UNCHANGED <<call, verdict, pairing_confirm>>,
           \A q \in Roles \ {r} : end'[s][q] = end[s][q],
           \A t \in Sessions \ {s} : end'[t] = end[t] /\ stream'[t] = stream[t],
           end[s][r].pc # "idle", end'[s][r].pc \notin {"idle", "connecting"},
           \A q \in Roles : StreamInv(s, q)', OutcomeInv(s, r)'
    PROVE  FlowInv'
<1>1. ProgressInv(s) /\ Table' /\ "initiator" \in Roles /\ "responder" \in Roles
  BY DEF FlowInv, Table, Roles
<1>2. Settles(s) /\ Stable(s) /\ call'[s] = call[s]
  BY <1>1 DEF Settles, Stable, Linked
<1>3. end'[s]["initiator"].pc \in {"idle", "connecting"} => end'[s]["responder"].pc = "idle"
  BY <1>1 DEF ProgressInv
<1>4. ASSUME NEW q \in Roles
      PROVE  OutcomeInv(s, q)' /\ TableInv(s, q)'
  <2>1. OutcomeInv(s, q) /\ TableInv(s, q)
    BY <1>1 DEF ProgressInv
  <2>2. TableInv(s, q)'
    BY <1>2, <2>1, TableCalm
  <2>3. CASE q # r
    <3>1. end'[s][q] = end[s][q] /\ verdict'[s][q] = verdict[s][q]
      BY <2>3
    <3>. QED
      BY <1>2, <2>1, <2>2, <3>1, OutcomeKept
  <2>. QED
    BY <2>2, <2>3
<1>5. ProgressInv(s)'
  BY <1>3, <1>4 DEF ProgressInv
<1>. QED
  BY <1>1, <1>5, OnlySession

\* End r of s sends its next message.
LEMMA Sends ==
    ASSUME FlowInv, NEW s \in Sessions, NEW r \in Roles, NEW m \in Hellos \cup Confirms,
           m \in Script(s, r)[stream[s][Other(r)].send_counter],
           SendTo(s, Other(r), stream[s], m), Settles(s), PairingType',
           \A q \in Roles \ {r} : end'[s][q] = end[s][q],
           SentAt(end'[s][r].pc, stream[s][Other(r)].send_counter + 1),
           ReadAt(end'[s][r].pc, stream[s][r].recv_counter, stream[s][r].header_read)
    PROVE  /\ \A q \in Roles : StreamInv(s, q)'
           /\ \A t \in Sessions \ {s} : stream'[t] = stream[t]
<1> DEFINE q == Other(r)
           d == stream[s][q]
           e == Send(d, m)
<1>1. q \in Roles /\ q # r /\ Other(q) = r /\ \A x \in Roles : x \in {q, r}
  BY DEF Roles, Other
<1>2. stream[s] \in [Roles -> Streams] /\ StreamInv(s, q) /\ StreamInv(s, r)
  BY <1>1 DEF FlowInv, PairingInv, PairingType, ProgressInv
<1>3. stream' = [stream EXCEPT ![s] = [stream[s] EXCEPT ![q] = e]]
  BY DEF SendTo
<1>4. d \in Streams /\ Orderly(d, Script(s, r)) /\ m \in Script(s, r)[d.send_counter]
  BY <1>1, <1>2 DEF StreamInv
<1>5. /\ Orderly(e, Script(s, r)) /\ e.send_counter = d.send_counter + 1
      /\ e.recv_counter = d.recv_counter /\ e.header_read = d.header_read
  BY <1>4, OrderlySend
<1> HIDE DEF e
<1>6. /\ stream'[s][q] = e /\ stream'[s][r] = stream[s][r]
      /\ \A t \in Sessions \ {s} : stream'[t] = stream[t]
  BY <1>1, <1>2, <1>3 DEF FlowInv, PairingInv, PairingType
<1>7. stream'[s][q] \in Streams /\ stream'[s][r] \in Streams
  BY <1>1, ZenonT(30) DEF PairingType
<1>8. StreamInv(s, q)'
  <2>1. ReadAt(end'[s][q].pc, e.recv_counter, e.header_read)
    BY <1>1, <1>2, <1>5 DEF StreamInv
  <2>2. SentAt(end'[s][Other(q)].pc, e.send_counter)
    BY <1>1, <1>5
  <2>. QED
    BY <1>1, <1>5, <1>6, <1>7, <2>1, <2>2, StreamKept
<1>9. StreamInv(s, r)'
  <2>1. Orderly(stream[s][r], Script(s, Other(r))) /\ SentAt(end'[s][Other(r)].pc, stream[s][r].send_counter)
    BY <1>1, <1>2 DEF StreamInv
  <2>. QED
    BY <1>6, <1>7, <2>1, StreamKept
<1>. QED
  BY <1>1, <1>6, <1>8, <1>9

\* The handshake is done and the Hello goes out.
LEMMA HelloFlow ==
    ASSUME FlowInv, PairingInv', NEW s \in Sessions, NEW r \in Roles,
           end[s][r].pc \in {"hello1", "hello2"}, Move(s, r, "hello"),
           SendTo(s, Other(r), stream[s], Hello(s, r)),
           UNCHANGED <<call, verdict, pairing_confirm>>
    PROVE  FlowInv'
<1>1. /\ PairingType /\ PairingType' /\ SessionInv(s) /\ StreamInv(s, Other(r)) /\ StreamInv(s, r) /\ OutcomeInv(s, r)
      /\ Other(Other(r)) = r
  BY RoleFacts DEF FlowInv, PairingInv, ProgressInv
<1>2. Linked(s)
  BY <1>1 DEF SessionInv, TaskInv, Running
<1>3. Hello(s, r) \in Hellos
  BY <1>2, HelloFacts
<1>4. stream[s][Other(r)].send_counter = 0 /\ stream[s][r].recv_counter = 0 /\ ~stream[s][r].header_read
  BY <1>1 DEF StreamInv, SentAt, ReadAt, Opening
<1>5. Hello(s, r) \in Script(s, r)[stream[s][Other(r)].send_counter]
  BY <1>3, <1>4, SMTT(30) DEF Script
<1>6. /\ end'[s][r].pc = "hello" /\ end'[s][r].peer = end[s][r].peer
      /\ end'[s][r].confirm = end[s][r].confirm /\ end'[s][r].why = end[s][r].why
      /\ \A q \in Roles \ {r} : end'[s][q] = end[s][q]
      /\ \A t \in Sessions \ {s} : end'[t] = end[t]
  BY <1>1, MoveDetail DEF Running
<1>7. SentAt("hello", 0 + 1) /\ ReadAt("hello", 0, FALSE)
  BY SMTT(30) DEF SentAt, ReadAt, Opening
<1>8. Settles(s)
  BY DEF Settles
<1>9. /\ \A q \in Roles : StreamInv(s, q)'
      /\ \A t \in Sessions \ {s} : stream'[t] = stream[t]
  <2>1. SentAt(end'[s][r].pc, stream[s][Other(r)].send_counter + 1)
    BY <1>4, <1>6, <1>7
  <2>2. ReadAt(end'[s][r].pc, stream[s][r].recv_counter, stream[s][r].header_read)
    BY <1>4, <1>6, <1>7 DEF ReadAt
  <2>. QED
    BY <1>1, <1>3, <1>5, <1>6, <1>8, <2>1, <2>2, Sends
<1>10. OutcomeInv(s, r)'
  BY <1>1, <1>6, <1>8, OutcomeKept DEF Opening
<1>. QED
  BY <1>6, <1>9, <1>10, OneEnd

LEMMA ConnectingFlow ==
    ASSUME FlowInv, PairingInv', NEW s \in Sessions, Connecting(s)
    PROVE  FlowInv'
<1>1. "initiator" \in Roles /\ "responder" \in Roles
      /\ Other("initiator") = "responder" /\ Other("responder") = "initiator"
  BY DEF Roles, Other
<1>2. CASE ConnectFails(s)
  BY <1>1, <1>2, EndsCalmly DEF ConnectFails, net
<1>3. CASE AcceptHandshake(s)
  BY <1>1, <1>3, HelloFlow DEF AcceptHandshake
<1>4. CASE FinishHandshake(s)
  BY <1>1, <1>4, HelloFlow DEF FinishHandshake
<1>. QED
  BY <1>2, <1>3, <1>4, IncomingFlow DEF Connecting

\* End r of s receives: the frame opens and holds the next message.
LEMMA Receives ==
    ASSUME FlowInv, NEW s \in Sessions, NEW r \in Roles, RecvMsg(s, r)
    PROVE  /\ Opens(stream[s][r])
           /\ Received(stream[s][r]) \in Script(s, Other(r))[stream[s][r].recv_counter]
           /\ \A t \in Sessions \ {s} : stream'[t] = stream[t]
           /\ (/\ PairingType' /\ \A q \in Roles \ {r} : end'[s][q] = end[s][q]
               /\ ReadAt(end'[s][r].pc, stream[s][r].recv_counter + 1, FALSE)
               /\ \A n : SentAt(end[s][r].pc, n) => SentAt(end'[s][r].pc, n))
                 => \A q \in Roles : StreamInv(s, q)'
<1> DEFINE q == Other(r)
           d == stream[s][r]
           e == Recv(d)
<1>1. q \in Roles /\ q # r /\ Other(q) = r /\ \A x \in Roles : x \in {q, r}
  BY DEF Roles, Other
<1>2. stream[s] \in [Roles -> Streams] /\ StreamInv(s, q) /\ StreamInv(s, r)
  BY <1>1 DEF FlowInv, PairingInv, PairingType, ProgressInv
<1>3. stream' = [stream EXCEPT ![s][r] = e] /\ CanRecv(d) /\ UNCHANGED <<call, verdict>>
  BY DEF RecvMsg
<1>4. d \in Streams /\ Orderly(d, Script(s, q))
  BY <1>2 DEF StreamInv
<1>5. /\ Opens(d) /\ Received(d) \in Script(s, q)[d.recv_counter] /\ Orderly(e, Script(s, q))
      /\ e.send_counter = d.send_counter /\ e.recv_counter = d.recv_counter + 1 /\ e.header_read = FALSE
  BY <1>3, <1>4, OrderlyRecv
<1> HIDE DEF e
<1>6. /\ stream'[s][r] = e /\ stream'[s][q] = stream[s][q]
      /\ \A t \in Sessions \ {s} : stream'[t] = stream[t]
  BY <1>1, <1>2, <1>3 DEF FlowInv, PairingInv, PairingType
<1>7. Settles(s)
  BY <1>3 DEF Settles
<1>8. ASSUME PairingType', \A x \in Roles \ {r} : end'[s][x] = end[s][x],
             ReadAt(end'[s][r].pc, d.recv_counter + 1, FALSE),
             \A n : SentAt(end[s][r].pc, n) => SentAt(end'[s][r].pc, n)
      PROVE  StreamInv(s, q)' /\ StreamInv(s, r)'
  <2>1. stream'[s][q] \in Streams /\ stream'[s][r] \in Streams
    BY <1>1, <1>8, ZenonT(30) DEF PairingType
  <2>2. StreamInv(s, r)'
    <3>1. SentAt(end'[s][q].pc, e.send_counter) /\ ReadAt(end'[s][r].pc, e.recv_counter, e.header_read)
      BY <1>1, <1>2, <1>5, <1>8 DEF StreamInv
    <3>. QED
      BY <1>5, <1>6, <1>7, <2>1, <3>1, StreamKept
  <2>3. StreamInv(s, q)'
    <3>1. /\ Orderly(stream[s][q], Script(s, r)) /\ SentAt(end'[s][r].pc, stream[s][q].send_counter)
          /\ ReadAt(end'[s][q].pc, stream[s][q].recv_counter, stream[s][q].header_read)
      BY <1>1, <1>2, <1>8 DEF StreamInv
    <3>. QED
      BY <1>1, <1>6, <1>7, <2>1, <3>1, StreamKept
  <2>. QED
    BY <2>2, <2>3
<1>. QED
  BY <1>1, <1>5, <1>6, <1>8

LEMMA ReceiveHelloFlow ==
    ASSUME FlowInv, PairingInv', NEW s \in Sessions, NEW r \in Roles, ReceiveHello(s, r)
    PROVE  FlowInv'
<1> DEFINE hello == Received(stream[s][r])
<1>1. PairingType /\ PairingType' /\ StreamInv(s, r) /\ OutcomeInv(s, r)
  BY DEF FlowInv, PairingInv, ProgressInv
<1>2. end[s][r].pc = "hello" /\ RecvMsg(s, r) /\ UNCHANGED <<call, verdict, pairing_confirm>>
  BY DEF ReceiveHello, RecvMsg
<1>3. stream[s][r].recv_counter = 0 /\ Settles(s)
  BY <1>1, <1>2 DEF StreamInv, ReadAt, Settles
<1>4. /\ Opens(stream[s][r]) /\ hello \in Hellos
      /\ \A t \in Sessions \ {s} : stream'[t] = stream[t]
  <2>1. /\ Opens(stream[s][r]) /\ Received(stream[s][r]) \in Script(s, Other(r))[stream[s][r].recv_counter]
        /\ \A t \in Sessions \ {s} : stream'[t] = stream[t]
    BY <1>2, Receives
  <2>2. Script(s, Other(r))[0] = Hellos
    BY DEF Script
  <2>. QED
    BY <1>3, <2>1, <2>2
<1>5. hello.kind = "hello" /\ hello # None
  BY <1>4, NoneAssumption DEF Hellos
<1>6. \/ Fail(s, r, "peer")
      \/ end' = [end EXCEPT ![s][r].pc = "proposed", ![s][r].peer = hello]
  BY <1>4, <1>5 DEF ReceiveHello
<1> HIDE DEF hello
<1>7. /\ end'[s][r].pc \in {"failed", "proposed"}
      /\ end'[s][r].pc = "failed" => end'[s][r].peer = end[s][r].peer /\ end'[s][r].why = "peer"
      /\ end'[s][r].pc = "proposed" => end'[s][r].peer # None /\ end'[s][r].why = end[s][r].why
      /\ \A q \in Roles \ {r} : end'[s][q] = end[s][q]
      /\ \A t \in Sessions \ {s} : end'[t] = end[t]
  <2>1. CASE Fail(s, r, "peer")
    <3>1. "peer" \in Reasons
      BY DEF Reasons
    <3>. QED
      BY <1>1, <2>1, <3>1, FailDetail, ZenonT(30)
  <2>2. CASE end' = [end EXCEPT ![s][r].pc = "proposed", ![s][r].peer = hello]
    <3> DEFINE e == [end[s][r] EXCEPT !.pc = "proposed", !.peer = hello]
    <3>1. end[s][r] \in Ends
      BY <1>1, SMTT(30) DEF PairingType
    <3>2. e \in Ends /\ e.pc = "proposed" /\ e.peer = hello /\ e.why = end[s][r].why
      BY <1>4, <3>1 DEF Ends, Running
    <3>3. end' = [end EXCEPT ![s][r] = e]
      BY <1>1, <2>2 DEF PairingType
    <3> HIDE DEF e
    <3>4. /\ end'[s][r] = e
          /\ \A q \in Roles \ {r} : end'[s][q] = end[s][q]
          /\ \A t \in Sessions \ {s} : end'[t] = end[t]
      BY <1>1, <3>2, <3>3, EndSet, ZenonT(30)
    <3>. QED
      BY <1>5, <3>2, <3>4
  <2>. QED
    BY <1>6, <2>1, <2>2
<1>8. \A q \in Roles : StreamInv(s, q)'
  <2>1. ReadAt(end'[s][r].pc, stream[s][r].recv_counter + 1, FALSE)
    BY <1>3, <1>7, SMTT(30) DEF ReadAt, Opening
  <2>2. \A n : SentAt(end[s][r].pc, n) => SentAt(end'[s][r].pc, n)
    BY <1>2, <1>7 DEF SentAt, Opening
  <2>. QED
    BY <1>1, <1>2, <1>7, <2>1, <2>2, Receives
<1>9. OutcomeInv(s, r)'
  <2>1. Reported(s, r)'
    <3>1. Other(r) \in Roles
      BY RoleFacts
    <3>. QED
      BY <1>1, <1>2, <1>7, <3>1 DEF OutcomeInv, Reported
  <2>. QED
    BY <1>1, <1>2, <1>7, <2>1 DEF OutcomeInv, Opening
<1>. QED
  BY <1>2, <1>4, <1>7, <1>8, <1>9, OneEnd

LEMMA ReceivePartFlow ==
    ASSUME FlowInv, PairingInv', NEW s \in Sessions, NEW r \in Roles, ReceivePart(s, r)
    PROVE  FlowInv'
<1> DEFINE q == Other(r)
           d == stream[s][r]
           e == ReadHeader(d)
<1>1. /\ PairingType /\ PairingType' /\ StreamInv(s, r) /\ StreamInv(s, q) /\ OutcomeInv(s, r)
      /\ q \in Roles /\ q # r /\ Other(q) = r
  BY RoleFacts DEF FlowInv, PairingInv, ProgressInv
<1>2. /\ end[s][r].pc = "proposed" /\ CanReadHeader(d) /\ stream' = [stream EXCEPT ![s][r] = e]
      /\ UNCHANGED <<call, end, verdict, pairing_confirm>>
  BY DEF ReceivePart
<1>3. d \in Streams /\ Orderly(d, Script(s, q)) /\ Settles(s)
  BY <1>1, <1>2, SMTT(30) DEF PairingType, StreamInv, Settles
<1>4. /\ Orderly(e, Script(s, q)) /\ e.send_counter = d.send_counter /\ e.recv_counter = d.recv_counter
  BY <1>2, <1>3, OrderlyHeader
<1> HIDE DEF e
<1>5. /\ stream'[s][r] = e /\ stream'[s][q] = stream[s][q]
      /\ \A t \in Sessions \ {s} : stream'[t] = stream[t]
  BY <1>1, <1>2 DEF PairingType
<1>6. stream'[s][q] \in Streams /\ stream'[s][r] \in Streams /\ stream[s][q] \in Streams
  BY <1>1, SMTT(30) DEF PairingType
<1>7. StreamInv(s, r)'
  <2>1. SentAt(end'[s][q].pc, e.send_counter) /\ ReadAt(end'[s][r].pc, e.recv_counter, e.header_read)
    BY <1>1, <1>2, <1>4 DEF StreamInv, ReadAt, Opening
  <2>. QED
    BY <1>3, <1>4, <1>5, <1>6, <2>1, StreamKept
<1>8. StreamInv(s, q)'
  <2>1. \A x \in Roles : Calm(end[s][x].pc, end'[s][x].pc)
    BY <1>2 DEF Calm
  <2>. QED
    BY <1>1, <1>3, <1>5, <1>6, <2>1, StreamCalm
<1>9. OutcomeInv(s, r)'
  BY <1>1, <1>2, <1>3, OutcomeKept
<1>10. \A x \in Roles : StreamInv(s, x)'
  BY <1>7, <1>8 DEF Roles, Other
<1>. QED
  BY <1>2, <1>5, <1>9, <1>10, OneEnd

LEMMA ReceiveConfirmFlow ==
    ASSUME FlowInv, PairingInv', NEW s \in Sessions, NEW r \in Roles, ReceiveConfirm(s, r)
    PROVE  FlowInv'
<1> DEFINE confirm == Received(stream[s][r])
           p == IF end[s][r].pc = "proposed" THEN "early" ELSE "verify"
<1>1. PairingType /\ PairingType' /\ StreamInv(s, r) /\ OutcomeInv(s, r) /\ Other(r) \in Roles
  BY RoleFacts DEF FlowInv, PairingInv, ProgressInv
<1>2. /\ end[s][r].pc \in {"proposed", "awaiting"} /\ RecvMsg(s, r)
      /\ UNCHANGED <<call, verdict, pairing_confirm>>
  BY DEF ReceiveConfirm, RecvMsg
<1>3. stream[s][r].recv_counter = 1 /\ Settles(s)
  BY <1>1, <1>2 DEF StreamInv, ReadAt, Settles
<1>4. /\ Opens(stream[s][r]) /\ confirm \in Truthful(s, Other(r))
      /\ \A t \in Sessions \ {s} : stream'[t] = stream[t]
  <2>1. /\ Opens(stream[s][r]) /\ Received(stream[s][r]) \in Script(s, Other(r))[stream[s][r].recv_counter]
        /\ \A t \in Sessions \ {s} : stream'[t] = stream[t]
    BY <1>2, Receives
  <2>2. Script(s, Other(r))[1] = Truthful(s, Other(r))
    BY SMTT(30) DEF Script
  <2>. QED
    BY <1>3, <2>1, <2>2
<1>5. confirm.kind = "confirm" /\ confirm \in Confirms
  BY <1>4 DEF Truthful, Confirms
<1>6. \/ Fail(s, r, "peer_declined") /\ ~confirm.accepted
      \/ confirm.accepted /\ end' = [end EXCEPT ![s][r].confirm = confirm, ![s][r].pc = p]
  BY <1>1, <1>4, <1>5 DEF ReceiveConfirm, PairingType, Ends
<1> HIDE DEF confirm
<1>7. p \in {"early", "verify"} /\ (p = "early" <=> end[s][r].pc = "proposed")
  BY DEF p
<1> HIDE DEF p
<1>8. /\ end'[s][r].pc \in {"failed", p} /\ end'[s][r].peer = end[s][r].peer
      /\ end'[s][r].pc = "failed" => end'[s][r].why = "peer_declined" /\ ~confirm.accepted
      /\ end'[s][r].pc = p => end'[s][r].confirm = confirm /\ confirm.accepted /\ end'[s][r].why = end[s][r].why
      /\ \A q \in Roles \ {r} : end'[s][q] = end[s][q]
      /\ \A t \in Sessions \ {s} : end'[t] = end[t]
  <2>1. CASE Fail(s, r, "peer_declined") /\ ~confirm.accepted
    <3>1. "peer_declined" \in Reasons
      BY DEF Reasons
    <3>. QED
      BY <1>1, <1>7, <2>1, <3>1, FailDetail, ZenonT(30)
  <2>2. CASE confirm.accepted /\ end' = [end EXCEPT ![s][r].confirm = confirm, ![s][r].pc = p]
    <3> DEFINE e == [end[s][r] EXCEPT !.confirm = confirm, !.pc = p]
    <3>1. end[s][r] \in Ends
      BY <1>1, SMTT(30) DEF PairingType
    <3>2. e \in Ends /\ e.pc = p /\ e.confirm = confirm /\ e.why = end[s][r].why /\ e.peer = end[s][r].peer
      BY <1>5, <1>7, <3>1 DEF Ends, Running
    <3>3. end' = [end EXCEPT ![s][r] = e]
      BY <1>1, <2>2 DEF PairingType
    <3> HIDE DEF e
    <3>4. /\ end'[s][r] = e
          /\ \A q \in Roles \ {r} : end'[s][q] = end[s][q]
          /\ \A t \in Sessions \ {s} : end'[t] = end[t]
      BY <1>1, <3>2, <3>3, EndSet, ZenonT(30)
    <3>. QED
      BY <1>7, <2>2, <3>2, <3>4
  <2>. QED
    BY <1>6, <2>1, <2>2
<1>9. \A q \in Roles : StreamInv(s, q)'
  <2>1. ReadAt(end'[s][r].pc, stream[s][r].recv_counter + 1, FALSE)
    BY <1>7, <1>8 DEF ReadAt, Opening
  <2>2. \A n : SentAt(end[s][r].pc, n) => SentAt(end'[s][r].pc, n)
    BY <1>2, <1>7, <1>8 DEF SentAt, Opening
  <2>. QED
    BY <1>1, <1>2, <1>8, <2>1, <2>2, Receives
<1>10. OutcomeInv(s, r)'
  <2>1. Reported(s, r)'
    BY <1>1, <1>2, <1>4, <1>7, <1>8 DEF OutcomeInv, Reported, Truthful
  <2>2. NodeOf(s, Other(r))' = NodeOf(s, Other(r)) /\ Agreed(s)' = Agreed(s)
    BY <1>1, <1>2, NamesKept
  <2>3. end'[s][r].pc \in {"early", "verify"} => end'[s][r].confirm.sig = Signature(NodeOf(s, Other(r)), Agreed(s))'
    BY <1>4, <1>7, <1>8, <2>2 DEF Truthful, Signature
  <2>. QED
    BY <1>1, <1>2, <1>7, <1>8, <2>1, <2>3 DEF OutcomeInv, Opening
<1>11. end[s][r].pc # "idle" /\ end'[s][r].pc \notin {"idle", "connecting"}
  BY <1>2, <1>7, <1>8
<1>. QED
  BY <1>2, <1>4, <1>8, <1>9, <1>10, <1>11, OneEnd, ZenonT(30)

\* The user's answer is taken: the Confirm that goes out is truthful.
LEMMA VerdictFlow ==
    ASSUME FlowInv, PairingInv', NEW s \in Sessions, NEW r \in Roles,
           end[s][r].pc \in {"proposed", "early"}, NEW c \in Truthful(s, r),
           SendTo(s, Other(r), stream[s], c), UNCHANGED <<call, verdict, pairing_confirm>>,
           \/ Fail(s, r, "declined") /\ verdict[s][r] = "decline"
           \/ Move(s, r, IF end[s][r].pc = "early" THEN "verify" ELSE "awaiting")
    PROVE  FlowInv'
<1> DEFINE p == IF end[s][r].pc = "early" THEN "verify" ELSE "awaiting"
<1>1. /\ PairingType /\ PairingType' /\ StreamInv(s, Other(r)) /\ StreamInv(s, r) /\ OutcomeInv(s, r)
      /\ Other(r) \in Roles /\ Other(Other(r)) = r
  BY RoleFacts DEF FlowInv, PairingInv, ProgressInv
<1>2. /\ p \in {"verify", "awaiting"} /\ (p = "verify" => end[s][r].pc = "early")
      /\ (p = "awaiting" => end[s][r].pc = "proposed")
  OBVIOUS
<1>3. (Fail(s, r, "declined") /\ verdict[s][r] = "decline") \/ Move(s, r, p)
  OBVIOUS
<1> HIDE DEF p
<1>4. stream[s][Other(r)].send_counter = 1 /\ (end[s][r].pc = "proposed" => stream[s][r].recv_counter = 1)
  BY <1>1 DEF StreamInv, SentAt, ReadAt
<1>5. c \in Hellos \cup Confirms /\ c \in Script(s, r)[1]
  BY SMTT(30) DEF Script, Truthful
<1>6. /\ end'[s][r].pc \in {"failed", p}
      /\ end'[s][r].peer = end[s][r].peer /\ end'[s][r].confirm = end[s][r].confirm
      /\ \/ end'[s][r].why = "declined" /\ verdict[s][r] = "decline"
         \/ end'[s][r].why = end[s][r].why
      /\ \A q \in Roles \ {r} : end'[s][q] = end[s][q]
      /\ \A t \in Sessions \ {s} : end'[t] = end[t]
  <2>1. CASE Fail(s, r, "declined") /\ verdict[s][r] = "decline"
    <3>1. "declined" \in Reasons
      BY DEF Reasons
    <3>. QED
      BY <1>1, <2>1, <3>1, FailDetail, SMTT(30)
  <2>2. CASE Move(s, r, p)
    <3>1. p \in Running \cup Over
      BY <1>2 DEF Running
    <3>. QED
      BY <1>1, <2>2, <3>1, MoveDetail, ZenonT(30)
  <2>. QED
    BY <1>3, <2>1, <2>2
<1>7. Settles(s)
  BY DEF Settles
<1>8. /\ \A q \in Roles : StreamInv(s, q)'
      /\ \A t \in Sessions \ {s} : stream'[t] = stream[t]
  <2>1. SentAt(end'[s][r].pc, stream[s][Other(r)].send_counter + 1)
    BY <1>2, <1>4, <1>6, SMTT(30) DEF SentAt, Opening
  <2>2. ReadAt(end'[s][r].pc, stream[s][r].recv_counter, stream[s][r].header_read)
    BY <1>2, <1>4, <1>6 DEF ReadAt, Opening
  <2>3. c \in Script(s, r)[stream[s][Other(r)].send_counter]
    BY <1>4, <1>5
  <2>. QED
    BY <1>1, <1>5, <1>6, <1>7, <2>1, <2>2, <2>3, Sends, ZenonT(30)
<1>9. OutcomeInv(s, r)'
  <2>1. Reported(s, r)'
    BY <1>1, <1>6 DEF OutcomeInv, Reported
  <2>2. NodeOf(s, Other(r))' = NodeOf(s, Other(r)) /\ Agreed(s)' = Agreed(s)
    BY <1>1, NamesKept
  <2>. QED
    BY <1>1, <1>2, <1>6, <2>1, <2>2 DEF OutcomeInv, Opening
<1>10. end[s][r].pc # "idle" /\ end'[s][r].pc \notin {"idle", "connecting"}
  BY <1>2, <1>6
<1>. QED
  BY <1>6, <1>8, <1>9, <1>10, OneEnd

LEMMA TakeVerdictFlow ==
    ASSUME FlowInv, PairingInv', NEW s \in Sessions, NEW r \in Roles, TakeVerdict(s, r)
    PROVE  FlowInv'
<1>1. /\ PairingInv /\ PairingType /\ TaskInv(s, r) /\ Other(r) \in Roles
  BY RoleFacts DEF FlowInv, PairingInv, SessionInv
<1>2. [stream[s] EXCEPT ![r] = CancelRead(stream[s][r])] = stream[s]
  BY <1>1, SameStreams DEF CancelRead
<1>3. end[s][r].pc \in {"proposed", "early"} /\ UNCHANGED <<call, verdict, pairing_confirm>>
  BY DEF TakeVerdict
<1>4. Linked(s) /\ end[s][r].peer = Hello(s, Other(r)) /\ end[s][r].peer # None
  BY <1>1, <1>3 DEF TaskInv
<1>5. CASE /\ verdict[s][r] = "accept"
           /\ end' = [end EXCEPT ![s][r].pc = IF @ = "early" THEN "verify" ELSE "awaiting"]
           /\ SendTo(s, Other(r), stream[s], Confirm(TRUE, Signature(NodeOf(s, r), Transcript(s, r))))
  <2>1. Transcript(s, r) \in Hellos \X Hellos /\ NodeOf(s, r) \in Nodes
    BY <1>1, <1>4, HelloFacts DEF Transcript, CanonicalTranscript
  <2>2. Transcript(s, r) = Agreed(s)
    BY <1>1, <1>4, OneTranscript DEF Agreed
  <2> DEFINE c == Confirm(TRUE, Signature(NodeOf(s, r), Transcript(s, r)))
  <2>3. c \in Confirms
    BY <2>1 DEF Confirm, Confirms, Signature, Signatures
  <2>4. c \in Truthful(s, r)
    BY <2>2, <2>3 DEF Truthful, Confirm
  <2> HIDE DEF c
  <2>5. Move(s, r, IF end[s][r].pc = "early" THEN "verify" ELSE "awaiting")
    BY <1>5 DEF Move
  <2>6. SendTo(s, Other(r), stream[s], c)
    BY <1>5 DEF c
  <2>. QED
    BY <1>3, <2>4, <2>5, <2>6, VerdictFlow, ZenonT(30)
<1>6. CASE /\ verdict[s][r] = "decline" /\ Fail(s, r, "declined")
           /\ SendTo(s, Other(r), stream[s], Confirm(FALSE, None))
  <2> DEFINE c == Confirm(FALSE, None)
  <2>1. c \in Truthful(s, r)
    BY <1>6 DEF Truthful, Confirm, Confirms
  <2> HIDE DEF c
  <2>2. SendTo(s, Other(r), stream[s], c)
    BY <1>6 DEF c
  <2>. QED
    BY <1>3, <1>6, <2>1, <2>2, VerdictFlow, ZenonT(30)
<1>7. CASE Fail(s, r, "io") /\ UNCHANGED stream
  BY <1>3, <1>7, EndsCalmly
<1>. QED
  BY <1>2, <1>5, <1>6, <1>7 DEF TakeVerdict

\* The signature that arrived is the one this end checks for.
LEMMA PersistFlow ==
    ASSUME FlowInv, PairingInv', NEW s \in Sessions, NEW r \in Roles, Persist(s, r)
    PROVE  FlowInv'
<1>1. PairingInv /\ TaskInv(s, r) /\ OutcomeInv(s, r) /\ Other(r) \in Roles
  BY RoleFacts DEF FlowInv, PairingInv, SessionInv, ProgressInv
<1>2. end[s][r].pc = "verify" /\ UNCHANGED <<call, stream, verdict, pairing_confirm>>
  BY DEF Persist, net
<1>3. Linked(s) /\ end[s][r].peer = Hello(s, Other(r)) /\ end[s][r].peer # None
  BY <1>1, <1>2 DEF TaskInv
<1>4. end[s][r].peer.id = NodeOf(s, Other(r)) /\ Transcript(s, r) = Agreed(s)
  BY <1>1, <1>3, HelloFacts, OneTranscript DEF Agreed
<1>5. end[s][r].confirm.sig = Signature(end[s][r].peer.id, Transcript(s, r))
  BY <1>1, <1>2, <1>4 DEF OutcomeInv
<1>6. Move(s, r, "completed") \/ Fail(s, r, "store")
  BY <1>5 DEF Persist
<1>. QED
  BY <1>2, <1>6, EndsCalmly

\* The user answers: the entry is spent, and it was unanswered.
LEMMA ConfirmPairingFlow ==
    ASSUME FlowInv, PairingInv', NEW n \in Nodes, NEW s \in Sessions, NEW r \in Roles, NEW yes \in BOOLEAN,
           ConfirmPairing(n, s, r, yes)
    PROVE  FlowInv'
<1> DEFINE v == IF yes THEN "accept" ELSE "decline"
<1>1. /\ PairingType /\ PairingType' /\ Table /\ ProgressInv(s) /\ TableInv(s, r)
      /\ "initiator" \in Roles /\ "responder" \in Roles
  BY DEF FlowInv, PairingInv, ProgressInv, Roles
<1>2. /\ <<s, r>> \in pairing_confirm[n] /\ end[s][r].peer # None
      /\ pairing_confirm' = [pairing_confirm EXCEPT ![n] = @ \ {<<s, r>>}]
      /\ verdict' = [verdict EXCEPT ![s][r] = v] /\ UNCHANGED <<call, stream, end>>
  BY DEF ConfirmPairing, net
<1>3. verdict[s][r] = "none" /\ NodeOf(s, r) = n
  BY <1>1, <1>2 DEF TableInv
<1>4. /\ verdict'[s][r] = v /\ \A q \in Roles \ {r} : verdict'[s][q] = verdict[s][q]
      /\ \A t \in Sessions \ {s} : verdict'[t] = verdict[t]
  BY <1>1, <1>2 DEF PairingType
<1>5. /\ pairing_confirm'[n] = pairing_confirm[n] \ {<<s, r>>} /\ Table'
      /\ \A k \in Nodes : pairing_confirm'[k] \subseteq pairing_confirm[k]
  BY <1>1, <1>2 DEF Table
<1>6. Settles(s) /\ Stable(s)
  BY <1>1, <1>2, <1>3, <1>4 DEF Settles, Stable, Linked
<1>7. ASSUME NEW q \in Roles
      PROVE  StreamInv(s, q)' /\ OutcomeInv(s, q)' /\ TableInv(s, q)'
  <2>1. /\ StreamInv(s, q) /\ OutcomeInv(s, q) /\ TableInv(s, q) /\ stream[s][q] \in Streams
        /\ Other(q) \in Roles
    BY <1>1, RoleFacts DEF ProgressInv, PairingType
  <2>2. StreamInv(s, q)'
    <3>1. \A x \in Roles : Calm(end[s][x].pc, end'[s][x].pc)
      BY <1>2 DEF Calm
    <3>. QED
      BY <1>2, <1>6, <2>1, <3>1, StreamCalm
  <2>3. OutcomeInv(s, q)'
    <3>1. NodeOf(s, Other(q))' = NodeOf(s, Other(q)) /\ Agreed(s)' = Agreed(s)
      BY <1>2, <2>1, NamesKept
    <3>2. Reported(s, q)'
      BY <1>2, <1>6, <2>1 DEF OutcomeInv, Reported, Settles
    <3>3. verdict'[s][q] # "none" => end[s][q].peer # None
      BY <1>2, <1>4, <2>1 DEF OutcomeInv
    <3>. QED
      BY <1>2, <2>1, <3>1, <3>2, <3>3 DEF OutcomeInv
  <2>4. TableInv(s, q)'
    <3>1. CASE q # r
      BY <1>2, <1>4, <1>5, <1>6, <2>1, <3>1, TableCalm, ZenonT(30)
    <3>2. CASE q = r
      <4>1. \A k \in Nodes : <<s, q>> \notin pairing_confirm'[k]
        BY <1>3, <1>5, <2>1, <3>2 DEF TableInv
      <4>. QED
        BY <4>1 DEF TableInv
    <3>. QED
      BY <3>1, <3>2
  <2>. QED
    BY <2>2, <2>3, <2>4
<1>8. ProgressInv(s)'
  BY <1>1, <1>2, <1>7 DEF ProgressInv
<1>. QED
  BY <1>2, <1>4, <1>5, <1>8, OnlySession

LEMMA FlowInit == Init => FlowInv
<1> SUFFICES ASSUME Init
             PROVE  FlowInv
  OBVIOUS
<1>1. /\ end = [s \in Sessions |-> [r \in Roles |-> Idle]]
      /\ stream = [s \in Sessions |-> [r \in Roles |-> FreshStream]]
      /\ pairing_confirm = [n \in Nodes |-> {}]
      /\ verdict = [s \in Sessions |-> [r \in Roles |-> "none"]]
  BY DEF Init
<1>2. Idle.pc = "idle" /\ Idle.peer = None /\ Idle.why = None
  BY DEF Idle
<1>3. None \notin Reasons
  BY NoneAssumption
<1>4. ASSUME NEW s \in Sessions, NEW r \in Roles
      PROVE  StreamInv(s, r) /\ OutcomeInv(s, r) /\ TableInv(s, r)
  <2>1. /\ end[s][r] = Idle /\ end[s][Other(r)] = Idle /\ stream[s][r] = FreshStream
        /\ verdict[s][r] = "none"
    BY <1>1, RoleFacts
  <2>2. \A F : Orderly(FreshStream, F)
    <3> SUFFICES ASSUME NEW F
                 PROVE  Orderly(FreshStream, F)
      OBVIOUS
    <3>1. /\ FreshStream.wire = <<>> /\ FreshStream.send_counter = 0 /\ FreshStream.recv_counter = 0
          /\ Half(FreshStream) = 0
      BY DEF FreshStream, Half
    <3>2. Frames(<<>>, 0, 0, 0, F)
      BY SMTT(30) DEF Frames
    <3>. QED
      BY <3>1, <3>2 DEF Orderly
  <2>3. StreamInv(s, r)
    BY <1>2, <2>1, <2>2, SMTT(30) DEF StreamInv, SentAt, ReadAt, Opening, FreshStream
  <2>4. OutcomeInv(s, r)
    BY <1>2, <1>3, <2>1 DEF OutcomeInv, Reported, Opening, Reasons
  <2>5. TableInv(s, r)
    BY <1>1 DEF TableInv
  <2>. QED
    BY <2>3, <2>4, <2>5
<1>5. Table /\ \A s \in Sessions : end[s]["responder"].pc = "idle"
  BY <1>1, <1>2 DEF Table, Roles
<1>. QED
  BY <1>4, <1>5, PairingInitInv DEF FlowInv, ProgressInv

LEMMA FlowStep == FlowInv /\ [Next]_vars => FlowInv'
<1> SUFFICES ASSUME FlowInv, [Next]_vars
             PROVE  FlowInv'
  OBVIOUS
<1>1. PairingInv' /\ Table
  BY PairingStepInv DEF FlowInv
<1>2. ASSUME UNCHANGED <<net, end, pairing_confirm, verdict>>
      PROVE  FlowInv'
  BY <1>1, <1>2, VanishFlow DEF net, Table
<1>3. ASSUME NEW s \in Sessions, NEW r \in Roles, EndStep(s, r)
      PROVE  FlowInv'
  <2>1. CASE SessionTimesOut(s, r) \/ StreamEnds(s, r)
    <3>1. /\ end[s][r].pc # "idle" /\ UNCHANGED <<call, stream, verdict, pairing_confirm>>
          /\ Fail(s, r, "timeout") \/ Fail(s, r, "io")
      BY <2>1 DEF SessionTimesOut, StreamEnds, Running, net
    <3>. QED
      BY <1>1, <3>1, EndsCalmly
  <2>. QED
    BY <1>1, <1>3, <2>1, ReceiveHelloFlow, ReceivePartFlow, ReceiveConfirmFlow, TakeVerdictFlow, PersistFlow, ZenonT(30)
       DEF EndStep
<1>4. CASE \E n, m \in Nodes : RevokeTrust(n, m)
  BY <1>2, <1>4 DEF RevokeTrust
<1>5. CASE UNCHANGED vars
  BY <1>2, <1>5 DEF vars
<1>. QED
  BY <1>1, <1>3, <1>4, <1>5, StartFlow, ConnectFlow, ConnectingFlow, ConfirmPairingFlow, RestartFlow, ZenonT(30) DEF Next

\* A session fails for what really happened, for any number of machines and
\* sessions and however reads, clicks, ends and restarts interleave: no select!
\* of run_session_inner loses bytes of a frame, puts a message in the wrong place
\* or has a good signature refused, and "declined" is somebody's click.
THEOREM FailuresAlwaysReal == Spec => []FailuresAreReal
<1>1. FlowInv => FailuresAreReal
  BY ZenonT(30) DEF FlowInv, ProgressInv, OutcomeInv, Reported, FailuresAreReal
<1>. QED
  BY <1>1, FlowInit, FlowStep, PTL DEF Spec

\* An end that awaits a Confirm its peer has sent can read it: the early Confirm
\* and the read that the verdict cancels leave nothing behind
\* (run_session_inner, PendingFrame).
THEOREM ConfirmsNeverLost == Spec => []NoVainWait
<1>1. FlowInv => NoVainWait
  <2> SUFFICES ASSUME FlowInv, NEW s \in Sessions, NEW r \in Roles, end[s][r].pc = "awaiting",
                      end[s][Other(r)].pc \in {"awaiting", "verify", "completed"}
               PROVE  CanRecv(stream[s][r])
    BY DEF NoVainWait
  <2>1. StreamInv(s, r) /\ stream[s][r] \in Streams
    BY DEF FlowInv, PairingInv, PairingType, ProgressInv
  <2>2. stream[s][r].recv_counter = 1 /\ stream[s][r].send_counter = 2
    BY <2>1 DEF StreamInv, SentAt, ReadAt
  <2>3. Orderly(stream[s][r], Script(s, Other(r)))
    BY <2>1 DEF StreamInv
  <2>. QED
    BY <2>1, <2>2, <2>3, OrderlyWaits, SMTT(30)
<1>. QED
  BY <1>1, FlowInit, FlowStep, PTL DEF Spec
=============================================================================
