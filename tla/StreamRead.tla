----------------------------- MODULE StreamRead -----------------------------
(***************************************************************************)
(* How what a peer sends after the head reaches its reader without the     *)
(* HTTP/1 dispatcher in between: the body of an HTTP/2 response            *)
(* (body/incoming.rs, Kind::H2), an HTTP/2 tunnel (H2Upgraded in           *)
(* proto/http2.rs) and an upgraded HTTP/1 connection (Rewind in            *)
(* upgrade.rs, which first gives back what was read with the head).  Bytes *)
(* are numbered in the order they are sent.                                *)
(***************************************************************************)
EXTENDS Naturals, Sequences, SequencesExt

CONSTANTS
  Totals,     \* lengths of what is sent
  Window,     \* flow-control window of an HTTP/2 stream
  MaxEmpty,   \* bound: empty data frames
  ReadSizes,  \* room in the reader's buffer
  Unknown     \* a length that is not known

ASSUME StreamAssumption ==
  /\ Totals \subseteq Nat /\ Window \in Nat \ {0} /\ MaxEmpty \in Nat
  /\ ReadSizes \subseteq Nat \ {0} /\ Unknown \notin Nat

VARIABLES
  kind,       \* "body", "tunnel" or "socket"
  total,      \* what the peer has to send
  declared,   \* content-length of the response
  peer,       \* [given, empties, eos, trailers, reset]
  queue,      \* h2's pending_recv; the socket's receive buffer
  credit,     \* the window as the peer sees it
  unclaimed,  \* released by the reader, not announced yet
  pre,        \* Rewind::pre
  tbuf,       \* H2Upgraded::buf
  hint,       \* Incoming's content_length
  done,       \* data_done
  got,        \* ghost: what the reader has
  gotTrailers,
  seen        \* "head", "live", "end" or "err"

svars == <<kind, total, declared, peer, queue, credit, unclaimed, pre, tbuf, hint, done, got, gotTrailers, seen>>

Reasons == {"NO_ERROR", "CANCEL", "STREAM_CLOSED", "io"}
NoReset == "none"

SInit ==
  /\ kind \in {"body", "tunnel", "socket"} /\ total \in Totals
  /\ declared \in {Unknown} \cup (IF kind = "body" THEN {total} ELSE {})
  /\ peer = [given |-> 0, empties |-> 0, eos |-> FALSE, trailers |-> FALSE, reset |-> NoReset]
  /\ queue = <<>> /\ credit = Window /\ unclaimed = 0
  /\ pre = <<>> /\ tbuf = <<>> /\ hint = Unknown /\ done = FALSE
  /\ got = <<>> /\ gotTrailers = FALSE /\ seen = "head"

Numbered(a, n) == [i \in 1 .. n |-> a + i]
Least(m, n) == IF m < n THEN m ELSE n
Prefix(s, n) == SubSeq(s, 1, Least(n, Len(s)))
Rest(s, n) == SubSeq(s, n + 1, Len(s))
Held == Len(FlattenSeq(queue)) + Len(tbuf)

-----------------------------------------------------------------------------
(* The peer, and h2's receive half.                                        *)

Reader == UNCHANGED <<kind, total, declared, pre, tbuf, hint, done, got, gotTrailers, seen>>
Sending == ~peer.eos /\ peer.reset = NoReset

\* A DATA frame within the window, with or without END_STREAM.
PeerSends(n, last) ==
  /\ Sending /\ (kind # "socket" => n <= credit) /\ peer.given + n <= total
  /\ n = 0 => kind # "socket" /\ (last \/ peer.empties < MaxEmpty)
  /\ last => kind # "socket" /\ peer.given + n = total
  /\ queue' = Append(queue, Numbered(peer.given, n))
  /\ credit' = IF kind = "socket" THEN credit ELSE credit - n
  /\ peer' = [peer EXCEPT !.given = @ + n, !.eos = last,
                          !.empties = IF n = 0 /\ ~last THEN @ + 1 ELSE @]
  /\ UNCHANGED unclaimed /\ Reader

\* Trailers, an end of stream without data, or the end of the socket.
PeerEnds(trailers) ==
  /\ Sending /\ peer.given = total /\ (trailers => kind = "body")
  /\ peer' = [peer EXCEPT !.eos = TRUE, !.trailers = trailers]
  /\ UNCHANGED <<queue, credit, unclaimed>> /\ Reader

\* RST_STREAM, also after the end of a response that came early; the loss of the connection.
PeerResets(reason) ==
  /\ peer.reset = NoReset /\ seen \in {"head", "live"} /\ (kind = "socket" => reason = "io" /\ ~peer.eos)
  /\ peer' = [peer EXCEPT !.reset = reason]
  /\ UNCHANGED <<queue, credit, unclaimed>> /\ Reader

\* h2 announces released capacity once it is worth a WINDOW_UPDATE.
WindowUpdate ==
  /\ unclaimed > 0 /\ unclaimed >= credit \div 2
  /\ credit' = credit + unclaimed /\ unclaimed' = 0
  /\ UNCHANGED <<peer, queue>> /\ Reader

\* RecvStream::is_end_stream.
IsEndStream == peer.eos /\ peer.reset = NoReset /\ queue = <<>> /\ ~peer.trailers

-----------------------------------------------------------------------------
(* The hand-over.                                                          *)

\* Incoming::h2: a stream that is over has length zero.
Hint == IF declared = Unknown /\ IsEndStream THEN 0 ELSE declared

\* ResponseFuture of the client gives the stream away; Upgraded::new takes
\* what Buffered had read behind the head of a 101.
Open ==
  /\ seen = "head" /\ seen' = "live"
  /\ hint' = IF kind = "body" THEN Hint ELSE Unknown
  /\ \E k \in IF kind = "socket" THEN 0 .. Len(queue) ELSE {0} :
       pre' = FlattenSeq(SubSeq(queue, 1, k)) /\ queue' = Rest(queue, k)
  /\ UNCHANGED <<kind, total, declared, peer, credit, unclaimed, tbuf, done, got, gotTrailers>>

Stays == UNCHANGED <<kind, total, declared, peer, credit>>

\* RecvStream::poll_data finds nothing queued: the reason of a reset, or None.
Drained == queue = <<>> /\ (peer.eos \/ peer.reset # NoReset)
Fails == Drained /\ ~peer.trailers /\ peer.reset # NoReset

-----------------------------------------------------------------------------
(* Incoming::poll_frame, Kind::H2.                                         *)

BodyData ==
  /\ kind = "body" /\ seen = "live" /\ ~done /\ queue # <<>>
  /\ got' = got \o Head(queue) /\ queue' = Tail(queue)
  /\ unclaimed' = unclaimed + Len(Head(queue))
  /\ hint' = IF hint = Unknown THEN hint ELSE hint - Len(Head(queue))
  /\ UNCHANGED <<pre, tbuf, done, gotTrailers, seen>> /\ Stays

\* A reset ends the body; NO_ERROR does not fail it.
BodyReset ==
  /\ kind = "body" /\ seen = "live" /\ ~done /\ Fails
  /\ seen' = IF peer.reset = "NO_ERROR" THEN "end" ELSE "err"
  /\ UNCHANGED <<queue, unclaimed, pre, tbuf, hint, done, got, gotTrailers>> /\ Stays

BodyDataDone ==
  /\ kind = "body" /\ seen = "live" /\ ~done /\ Drained /\ ~Fails
  /\ done' = TRUE
  /\ UNCHANGED <<queue, unclaimed, pre, tbuf, hint, got, gotTrailers, seen>> /\ Stays

\* poll_trailers, which a reset may have reached in the meantime.
BodyTrailers ==
  /\ kind = "body" /\ seen = "live" /\ done
  /\ IF peer.trailers /\ ~gotTrailers THEN gotTrailers' = TRUE /\ UNCHANGED seen
     ELSE /\ seen' = IF peer.reset \in {NoReset, "NO_ERROR"} THEN "end" ELSE "err"
          /\ UNCHANGED gotTrailers
  /\ UNCHANGED <<queue, unclaimed, pre, tbuf, hint, done, got>> /\ Stays

-----------------------------------------------------------------------------
(* Upgraded::poll_read.                                                    *)

\* Mutant of RewindRead: what does not fit is not put back.
RewindReadLoses(n) ==
  /\ kind # "body" /\ seen = "live" /\ pre # <<>>
  /\ got' = got \o Prefix(pre, n) /\ pre' = <<>>
  /\ UNCHANGED <<queue, unclaimed, tbuf, hint, done, gotTrailers, seen>> /\ Stays

\* Rewind::poll_read with a prefix that is not empty.
RewindRead(n) ==
  /\ kind # "body" /\ seen = "live" /\ pre # <<>>
  /\ got' = got \o Prefix(pre, n) /\ pre' = Rest(pre, Least(n, Len(pre)))
  /\ UNCHANGED <<queue, unclaimed, tbuf, hint, done, gotTrailers, seen>> /\ Stays

\* The inner poll_read of an HTTP/1 socket.
SocketRead(n) ==
  /\ kind = "socket" /\ seen = "live" /\ pre = <<>> /\ queue # <<>>
  /\ got' = got \o Prefix(Head(queue), n)
  /\ queue' = IF n >= Len(Head(queue)) THEN Tail(queue) ELSE <<Rest(Head(queue), n)>> \o Tail(queue)
  /\ UNCHANGED <<unclaimed, pre, tbuf, hint, done, gotTrailers, seen>> /\ Stays

\* H2Upgraded::poll_read skips an empty frame that is not the last.
TunnelSkip ==
  /\ kind = "tunnel" /\ seen = "live" /\ tbuf = <<>> /\ queue # <<>>
  /\ Head(queue) = <<>> /\ ~(peer.eos /\ peer.reset = NoReset /\ Tail(queue) = <<>>)
  /\ queue' = Tail(queue)
  /\ UNCHANGED <<unclaimed, pre, tbuf, hint, done, got, gotTrailers, seen>> /\ Stays

\* Mutant of TunnelRead: the capacity of the whole buffer is released.
TunnelReadFreesAll(n) ==
  LET from == IF tbuf = <<>> THEN Head(queue) ELSE tbuf
  IN  /\ kind = "tunnel" /\ seen = "live"
      /\ IF tbuf = <<>> THEN queue # <<>> /\ Head(queue) # <<>> /\ queue' = Tail(queue)
         ELSE UNCHANGED queue
      /\ got' = got \o Prefix(from, n) /\ tbuf' = Rest(from, Least(n, Len(from)))
      /\ unclaimed' = unclaimed + Len(from)
      /\ UNCHANGED <<pre, hint, done, gotTrailers, seen>> /\ Stays

\* H2Upgraded::poll_read gives what fits and keeps the rest.
TunnelRead(n) ==
  LET from == IF tbuf = <<>> THEN Head(queue) ELSE tbuf
  IN  /\ kind = "tunnel" /\ seen = "live"
      /\ IF tbuf = <<>> THEN queue # <<>> /\ Head(queue) # <<>> /\ queue' = Tail(queue)
         ELSE UNCHANGED queue
      /\ got' = got \o Prefix(from, n) /\ tbuf' = Rest(from, Least(n, Len(from)))
      /\ unclaimed' = unclaimed + Least(n, Len(from))
      /\ UNCHANGED <<pre, hint, done, gotTrailers, seen>> /\ Stays

\* A read of nothing is the end: None, NO_ERROR or CANCEL, or an empty last frame.
StreamEnds ==
  /\ kind # "body" /\ seen = "live" /\ pre = <<>> /\ tbuf = <<>>
  /\ \/ Drained
     \/ kind = "tunnel" /\ queue = <<<<>>>> /\ peer.eos /\ peer.reset = NoReset
  /\ seen' = IF peer.reset \in {NoReset, "NO_ERROR", "CANCEL"} THEN "end" ELSE "err"
  /\ queue' = <<>>
  /\ UNCHANGED <<unclaimed, pre, tbuf, hint, done, got, gotTrailers>> /\ Stays

-----------------------------------------------------------------------------
Reads ==
  \/ Open \/ BodyData \/ BodyReset \/ BodyDataDone \/ BodyTrailers
  \/ \E n \in ReadSizes : RewindRead(n) \/ SocketRead(n) \/ TunnelRead(n)
  \/ TunnelSkip \/ StreamEnds

SNext ==
  \/ \E n \in 0 .. Window, last \in BOOLEAN : PeerSends(n, last)
  \/ \E trailers \in BOOLEAN : PeerEnds(trailers)
  \/ \E reason \in Reasons : PeerResets(reason)
  \/ WindowUpdate \/ Reads

SSpec == SInit /\ [][SNext]_svars

-----------------------------------------------------------------------------
(* Properties.                                                             *)

\* Code: Rewind::poll_read, H2Upgraded::poll_read, Upgraded::new.  Whatever
\* the sizes of frames and reads, and wherever the head ended in the read
\* buffer, every byte is with the reader or still held for it, once and in
\* order.
BytesInOrder == got \o pre \o tbuf \o FlattenSeq(queue) = Numbered(0, peer.given)

\* Code: poll_frame, poll_read.  A reader is told of a clean end only if the
\* peer ended the stream or reset it without an error (a tunnel also takes
\* CANCEL), and only after everything that had arrived; a body that came
\* with trailers has given them.
CleanEndIsWhole ==
  seen = "end" =>
    /\ \/ peer.eos /\ peer.reset = NoReset
       \/ peer.reset = "NO_ERROR"
       \/ peer.reset = "CANCEL" /\ kind = "tunnel"
    /\ Len(got) = peer.given
    /\ peer.trailers => gotTrailers

\* Code: release_capacity.  What the reader has not taken stays within the
\* window, and none of the window is lost or given out twice: a stream longer
\* than its window goes on as long as it is read.
WindowKept ==
  kind # "socket" => credit + unclaimed + Held = Window

\* Code: Incoming::h2, sub_if, size_hint.  A body that names its length
\* names what is still to come, also when it is opened late.
HintHonest ==
  kind = "body" /\ seen = "live" /\ hint # Unknown =>
    /\ hint \in Nat
    /\ hint = total - Len(got)

\* Code: the readers of bodies, tunnels and upgraded sockets.  A reader gets
\* the bytes of the stream in order and to the end it is told of, as many as
\* a body announced.
StreamExact == BytesInOrder /\ CleanEndIsWhole /\ HintHonest
=============================================================================
