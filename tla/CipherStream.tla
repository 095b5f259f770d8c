---------------------------- MODULE CipherStream ----------------------------
(***************************************************************************)
(* One direction of an encrypted connection (synbad-crypto/src/cipher.rs). *)
(* A frame travels as a length header and a body sealed with the sender's  *)
(* counter as the nonce; the bytes arrive in order but not together.  The  *)
(* receiver keeps what it read of a frame in PendingFrame, outside the     *)
(* future that reads, and opens a body only with its own counter.          *)
(***************************************************************************)
EXTENDS Naturals, Sequences

\* CipherStream::new: both counters start at zero, no frame is pending.
FreshStream == [wire |-> <<>>, send_counter |-> 0, recv_counter |-> 0, header_read |-> FALSE]

Header(d, m) == [part |-> "header", nonce |-> d.send_counter, msg |-> m]
Body(d, m) == [part |-> "body", nonce |-> d.send_counter, msg |-> m]

\* CipherStream::send.
Send(d, m) ==
    [d EXCEPT !.wire = @ \o <<Header(d, m), Body(d, m)>>, !.send_counter = @ + 1]

\* PendingFrame::read got as far as the header.
CanReadHeader(d) == ~d.header_read /\ d.wire # <<>>
ReadHeader(d) == [d EXCEPT !.wire = Tail(@), !.header_read = TRUE]

\* Mutant of CancelRead: the progress dies with the future, as read_exact's would.
ForgetHeader(d) == [d EXCEPT !.header_read = FALSE]

\* The future of recv is dropped: the progress is not in it.
CancelRead(d) == d

\* The rest of the frame is there; what recv then sees and leaves behind.
RestOfFrame(d) == IF d.header_read THEN d.wire ELSE Tail(d.wire)
CanRecv(d) == Len(d.wire) >= IF d.header_read THEN 1 ELSE 2

\* The bytes read as a header were one, and the body opens with our counter.
Opens(d) ==
    /\ ~d.header_read => Head(d.wire).part = "header"
    /\ Head(RestOfFrame(d)).part = "body"
    /\ Head(RestOfFrame(d)).nonce = d.recv_counter

Received(d) == Head(RestOfFrame(d)).msg

\* Mutant of Recv: the counter of opened frames stands still.
SameCounter(d) == [d EXCEPT !.wire = Tail(RestOfFrame(d)), !.header_read = FALSE]

\* CipherStream::recv and CipherReader::recv.
Recv(d) ==
    [d EXCEPT !.wire = Tail(RestOfFrame(d)), !.header_read = FALSE, !.recv_counter = @ + 1]
=============================================================================
