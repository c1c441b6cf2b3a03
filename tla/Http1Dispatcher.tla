--------------------------- MODULE Http1Dispatcher ---------------------------
(***************************************************************************)
(* proto/http1/dispatch.rs: the task that drives one HTTP/1 connection,    *)
(* composed of the connection (Http1Conn), the request channel             *)
(* (DispatchChannel, Bounded), the response bodies handed to callers       *)
(* (body/incoming.rs, Kind::H1), the request bodies, and the server.       *)
(*                                                                         *)
(* One action is one iteration of a loop of the task (poll_read,           *)
(* poll_write) or one call that touches another thread's state; callers,   *)
(* body consumers, body producers and the server take steps in between.    *)
(* The task runs while disp.pc # "parked" and is polled again when woken;  *)
(* conn.armed is the set of wakers it left behind.                         *)
(***************************************************************************)
EXTENDS Http1Conn, DispatchChannel

CONSTANTS
  Sized,       \* requests whose body has a known length
  Streamed,    \* requests whose body has no known length
  Servers,     \* the servers there are: the tokens each may send
  MaxIn,       \* bound: tokens the server sends in all
  FrameSizes,  \* sizes of the data frames of request bodies
  MaxFrames    \* bound: polls of request bodies that do not end them

ASSUME DispatcherAssumption ==
  /\ Bounded
  /\ Sized \subseteq Req /\ Streamed \subseteq Req /\ Sized \cap Streamed = {}
  /\ Servers \subseteq SUBSET Tokens
  /\ MaxIn \in Nat /\ MaxFrames \in Nat /\ FrameSizes \subseteq Nat

VARIABLES
  conn,      \* Dispatcher::conn, its buffers, its socket and armed wakers
  disp,      \* the Dispatcher and where its task is
  body,      \* per request: the channel of its response body
  woken,     \* the task is scheduled
  server,    \* what it may send, and how much it has sent (bound)
  complete   \* ghost: requests whose response arrived to its last byte

dvars == <<conn, disp, body, woken, server, complete, vars>>

Parts == {"parked", "read", "readbody", "write", "want", "head", "flush", "loop", "finish",
          "shutdown", "err", "close2", "close3", "ended", "drop", "gone"}

NoBody == [slot |-> 0, tx |-> "none", rx |-> "none"]

DInit ==
  /\ Init
  /\ conn = NewConn
  /\ disp = [pc |-> "parked", again |-> FALSE, wready |-> FALSE, closing |-> FALSE,
             tx |-> None, rx |-> None, frames |-> 0, result |-> "none"]
  /\ body = [r \in Req |-> NoBody]
  /\ woken = TRUE
  /\ server \in [sends : Servers, sent : {0}]
  /\ complete = {}

Listening == \E r \in held : promise[r] = "pending"
Fire(w) == /\ woken' = (woken \/ w \in conn.armed)
           /\ conn' = [conn EXCEPT !.armed = @ \ {w}]
Local == UNCHANGED <<body, woken, server, complete>>
Channel == UNCHANGED vars

\* Dispatcher::poll_catch begins: the executor polls the future.
Poll ==
  /\ disp.pc = "parked" /\ woken
  /\ woken' = FALSE
  /\ disp' = [disp EXCEPT !.pc = "read", !.again = FALSE]
  /\ UNCHANGED <<conn, body, server, complete, vars>>

-----------------------------------------------------------------------------
(* poll_read.                                                              *)

ReadClosing ==
  /\ disp.pc = "read" /\ disp.closing
  /\ disp' = [disp EXCEPT !.pc = "write"]
  /\ UNCHANGED conn /\ Local /\ Channel

\* poll_read_head, Client::poll_ready: nobody waits for a response.
ReadHeadUnwanted ==
  /\ disp.pc = "read" /\ ~disp.closing
  /\ CanReadHead(conn) /\ ~Listening
  /\ disp' = [disp EXCEPT !.closing = TRUE]
  /\ conn' = Close(conn)
  /\ Local /\ Channel

\* poll_read_head, no head yet.
ReadHeadPending ==
  /\ disp.pc = "read" /\ ~disp.closing
  /\ CanReadHead(conn) /\ Listening
  /\ ParseHead(conn).how = "pending"
  /\ conn' = Arm(ParseHead(conn).c, "cancel")
  /\ disp' = [disp EXCEPT !.pc = "write"]
  /\ Local /\ Channel

\* poll_read_head, a head: the response goes to the callback.
ReadHead(r) ==
  LET p == ParseHead(conn)
      t == p.c.rbuf[1]
  IN  /\ disp.pc = "read" /\ ~disp.closing
      /\ CanReadHead(conn) /\ Listening
      /\ p.how = "some" /\ t \in Heads
      /\ SendOk(r)
      /\ conn' = [AcceptHead(p.c, t) EXCEPT !.armed = @ \ {"cancel", "slot", "closed"}]
      /\ IF Decoder(t) = "none"
         THEN complete' = complete \cup {r} /\ UNCHANGED <<disp, body>>
         ELSE /\ disp' = [disp EXCEPT !.tx = r]
              /\ body' = [body EXCEPT ![r] = [slot |-> 0, tx |-> "open", rx |-> "live"]]
              /\ UNCHANGED complete
      /\ UNCHANGED <<woken, server>>

\* poll_read_head and on_read_head_error: end of stream, i/o error or a
\* message that does not parse.
ReadHeadError(r) ==
  LET p == ParseHead(conn)
  IN  /\ disp.pc = "read" /\ ~disp.closing
      /\ CanReadHead(conn) /\ Listening
      /\ p.how \in {"zero", "err"} \/ (p.how = "some" /\ p.c.rbuf[1] \in Pieces)
      /\ SendErr(r)
      /\ conn' = Close(p.c)
      /\ disp' = [disp EXCEPT !.closing = TRUE]
      /\ Local

ReadingBody == disp.pc = "read" /\ ~disp.closing /\ ~CanReadHead(conn) /\ disp.tx # None

\* The body is complete: its sender is dropped.
ReadBodyDone ==
  /\ ReadingBody /\ ~CanReadBody(conn)
  /\ body' = [body EXCEPT ![disp.tx].tx = "clean"]
  /\ disp' = [disp EXCEPT !.tx = None]
  /\ UNCHANGED <<conn, woken, server, complete>> /\ Channel

\* Mutant of ReadBodyFull: no waker is left for the free slot.
ReadBodyFullDeaf ==
  /\ ReadingBody /\ CanReadBody(conn)
  /\ body[disp.tx].rx # "dropped" /\ body[disp.tx].slot = 1
  /\ conn' = Arm(conn, "closed")
  /\ disp' = [disp EXCEPT !.pc = "write"]
  /\ Local /\ Channel

\* Sender::poll_ready: the consumer has not taken the last chunk.
ReadBodyFull ==
  /\ ReadingBody /\ CanReadBody(conn)
  /\ body[disp.tx].rx # "dropped" /\ body[disp.tx].slot = 1
  /\ conn' = Arm(Arm(conn, "slot"), "closed")
  /\ disp' = [disp EXCEPT !.pc = "write"]
  /\ Local /\ Channel

\* Sender::poll_ready: the consumer is gone.
ReadBodyUnwanted ==
  /\ ReadingBody /\ CanReadBody(conn)
  /\ body[disp.tx].rx = "dropped"
  /\ conn' = DrainOrCloseRead(conn)
  /\ disp' = [disp EXCEPT !.tx = None]
  /\ Local /\ Channel

\* Mutant of ReadBodyReady: no waker is left for the consumer's leaving.
ReadBodyReadyDeaf ==
  /\ ReadingBody /\ CanReadBody(conn)
  /\ body[disp.tx].rx # "dropped" /\ body[disp.tx].slot = 0
  /\ disp' = [disp EXCEPT !.pc = "readbody"]
  /\ UNCHANGED conn /\ Local /\ Channel

\* Sender::poll_ready: go on to read.
ReadBodyReady ==
  /\ ReadingBody /\ CanReadBody(conn)
  /\ body[disp.tx].rx # "dropped" /\ body[disp.tx].slot = 0
  /\ conn' = Arm(conn, "closed")
  /\ disp' = [disp EXCEPT !.pc = "readbody"]
  /\ Local /\ Channel

\* Conn::poll_read_body and what is done with the frame.  The consumer may
\* have gone since poll_ready.
ReadBodyFrame ==
  LET d == PollReadBody(conn)
      r == disp.tx
  IN  /\ disp.pc = "readbody"
      /\ complete' = IF d.fin THEN complete \cup {r} ELSE complete
      /\ \/ /\ d.how = "pending"
            /\ conn' = d.c
            /\ disp' = [disp EXCEPT !.pc = "write"]
            /\ UNCHANGED body
         \/ /\ d.how \in {"data", "trail"} /\ body[r].rx # "dropped"
            /\ conn' = d.c
            /\ disp' = [disp EXCEPT !.pc = "read"]
            /\ body' = IF d.how = "data" THEN [body EXCEPT ![r].slot = 1] ELSE body
         \/ /\ d.how \in {"data", "trail"} /\ body[r].rx = "dropped"
            /\ conn' = IF CanReadBody(d.c) THEN CloseRead(d.c) ELSE d.c
            /\ disp' = [disp EXCEPT !.pc = "read", !.tx = None]
            /\ UNCHANGED body
         \/ /\ d.how \in {"end", "err"}
            /\ conn' = d.c
            /\ disp' = [disp EXCEPT !.pc = "read", !.tx = None]
            /\ body' = [body EXCEPT ![r].tx = IF d.how = "end" THEN "clean" ELSE "error"]
      /\ UNCHANGED <<woken, server>> /\ Channel

\* Conn::poll_read_keep_alive.
ReadKeepAlive ==
  LET k == PollReadKeepAlive(conn)
  IN  /\ disp.pc = "read" /\ ~disp.closing
      /\ ~CanReadHead(conn) /\ disp.tx = None
      /\ conn' = k.c
      /\ disp' = [disp EXCEPT !.pc = IF k.how = "ok" THEN "write" ELSE "err"]
      /\ Local /\ Channel

-----------------------------------------------------------------------------
(* poll_write.                                                             *)

\* poll_write returns: to poll_flush, or the second time to poll_loop.
Returns(ready) ==
  [disp EXCEPT !.wready = ready,
               !.pc = CASE ~disp.again -> "flush"
                        [] disp.again /\ ready -> "loop"
                        [] OTHER -> "finish"]

WriteClosing ==
  /\ disp.pc = "write" /\ disp.closing
  /\ disp' = Returns(TRUE)
  /\ UNCHANGED conn /\ Local /\ Channel

WantsMsg == disp.rx = None /\ CanWriteHead(conn) /\ held = {}

\* Client::poll_msg: a request, or one whose caller left (which ends the
\* connection).
WriteMsg ==
  /\ disp.pc = "write" /\ ~disp.closing /\ WantsMsg
  /\ RecvItem
  /\ \/ /\ held' # {}
        /\ conn' = Arm(conn, "cancel")
        /\ disp' = [disp EXCEPT !.pc = "head"]
     \/ /\ held' = {}
        /\ conn' = Close(conn)
        /\ disp' = [Returns(TRUE) EXCEPT !.closing = TRUE]
  /\ Local

\* Client::poll_msg: nothing queued; then taker.want().
WriteMsgEmpty ==
  /\ disp.pc = "write" /\ ~disp.closing /\ WantsMsg
  /\ RecvEmpty
  /\ conn' = Arm(conn, "recv")
  /\ disp' = [disp EXCEPT !.pc = "want"]
  /\ Local

WriteMsgWant ==
  /\ disp.pc = "want"
  /\ RecvWant
  /\ disp' = Returns(FALSE)
  /\ UNCHANGED conn /\ Local

\* Client::poll_msg: every handle is gone.
WriteMsgEnd ==
  /\ disp.pc = "write" /\ ~disp.closing /\ WantsMsg
  /\ RecvEnd
  /\ conn' = Close(conn)
  /\ disp' = [Returns(TRUE) EXCEPT !.closing = TRUE]
  /\ Local

\* Client::set_length: the encoders a request may get.
Encoders(r) ==
  CASE r \in Sized -> {[enc |-> "length", len |-> ReqLen]}
    [] r \in Streamed -> {[enc |-> "length", len |-> 0]}
                         \cup {[enc |-> "chunked", len |-> 0] : v \in {conn.version} \cap {11}}
    [] OTHER -> {[enc |-> "length", len |-> 0]}

\* Conn::write_head.
WriteHeadOf(r) ==
  /\ disp.pc = "head"
  /\ Serialize(r)
  /\ \E e \in Encoders(r) : conn' \in WriteHead([conn EXCEPT !.armed = @ \ {"frame"}], e)
  /\ disp' = [disp EXCEPT !.pc = "write", !.frames = 0,
                          !.rx = IF r \in Sized \cup Streamed THEN r ELSE None]
  /\ Local

\* No room in the buffer: flush first.
WriteFull ==
  /\ disp.pc = "write" /\ ~disp.closing /\ ~WantsMsg
  /\ ~CanBufferBody(conn)
  /\ \E f \in PollFlush(conn) :
       /\ conn' = f.c
       /\ disp' = CASE f.how = "ready"   -> disp
                    [] f.how = "pending" -> Returns(FALSE)
                    [] f.how = "err"     -> [disp EXCEPT !.pc = "err"]
  /\ Local /\ Channel

WritingBody == /\ disp.pc = "write" /\ ~disp.closing /\ ~WantsMsg
               /\ CanBufferBody(conn) /\ disp.rx # None

\* The framing has no room for (more of) the body.
WriteBodyRefused ==
  /\ WritingBody /\ ~CanWriteBody(conn)
  /\ disp' = [disp EXCEPT !.rx = None]
  /\ UNCHANGED conn /\ Local /\ Channel

\* The body is not ready.
WriteBodyPending ==
  /\ WritingBody /\ CanWriteBody(conn)
  /\ "frame" \in conn.armed \/ disp.frames < MaxFrames
  /\ conn' = Arm(conn, "frame")
  /\ disp' = [Returns(FALSE) EXCEPT !.frames = IF "frame" \in conn.armed THEN @ ELSE @ + 1]
  /\ Local /\ Channel

\* A data frame, not the last.
WriteBodyData(n) ==
  /\ WritingBody /\ CanWriteBody(conn)
  /\ "frame" \notin conn.armed /\ disp.frames < MaxFrames
  /\ conn' = IF n = 0 THEN conn ELSE WriteBody(conn, n)
  /\ disp' = [disp EXCEPT !.frames = @ + 1]
  /\ Local /\ Channel

\* The last data frame (is_end_stream after it).
WriteBodyLast(n) ==
  LET e == IF n = 0 THEN EndBody(conn) ELSE [how |-> "ok", c |-> WriteBodyAndEnd(conn, n)]
  IN  /\ WritingBody /\ CanWriteBody(conn)
      /\ "frame" \notin conn.armed
      /\ conn' = e.c
      /\ disp' = [disp EXCEPT !.rx = None, !.pc = IF e.how = "ok" THEN @ ELSE "err"]
      /\ Local /\ Channel

WriteBodyTrailers ==
  /\ WritingBody /\ CanWriteBody(conn)
  /\ "frame" \notin conn.armed
  /\ conn' \in WriteTrailers(conn)
  /\ disp' = [disp EXCEPT !.rx = None]
  /\ Local /\ Channel

\* The body fails.
WriteBodyError ==
  /\ WritingBody /\ CanWriteBody(conn)
  /\ "frame" \notin conn.armed
  /\ disp' = [disp EXCEPT !.rx = None, !.pc = "err"]
  /\ UNCHANGED conn /\ Local /\ Channel

\* No body (any more): the end of the body, or nothing to write.
WriteNoBody ==
  LET e == EndBody(conn)
  IN  /\ disp.pc = "write" /\ ~disp.closing /\ ~WantsMsg
      /\ CanBufferBody(conn) /\ disp.rx = None
      /\ \/ /\ CanWriteBody(conn)
            /\ conn' = e.c
            /\ disp' = [disp EXCEPT !.pc = IF e.how = "ok" THEN @ ELSE "err"]
         \/ /\ ~CanWriteBody(conn)
            /\ disp' = Returns(FALSE)
            /\ UNCHANGED conn
      /\ Local /\ Channel

\* poll_frame returns None.
WriteBodyEnd ==
  LET e == EndBody(conn)
  IN  /\ WritingBody /\ CanWriteBody(conn)
      /\ "frame" \notin conn.armed
      /\ conn' = e.c
      /\ disp' = [disp EXCEPT !.rx = None, !.pc = IF e.how = "ok" THEN @ ELSE "err"]
      /\ Local /\ Channel

-----------------------------------------------------------------------------
(* poll_loop, poll_inner, poll_catch, and the end of the task.             *)

\* Mutant of Flush: nothing is flushed before the request body is whole.
FlushWhole ==
  /\ disp.pc = "flush"
  /\ \E f \in IF disp.rx = None THEN PollFlush(conn) ELSE {[how |-> "pending", c |-> conn]} :
       /\ conn' = IF f.how = "err" THEN f.c ELSE [f.c EXCEPT !.notify = FALSE]
       /\ disp' = CASE f.how = "err" -> [disp EXCEPT !.pc = "err"]
                    [] f.how # "err" /\ f.c.notify -> [disp EXCEPT !.pc = "loop"]
                    [] OTHER -> [disp EXCEPT !.pc = "finish"]
  /\ Local /\ Channel

\* poll_flush, then can_write_again and wants_read_again.
Flush ==
  /\ disp.pc = "flush"
  /\ \E f \in PollFlush(conn) :
       LET writeAgain == /\ ~disp.closing /\ disp.rx # None /\ CanWriteBody(f.c)
                         /\ disp.wready \/ f.how = "ready"
           readAgain  == f.c.notify
       IN  /\ conn' = IF f.how = "err" THEN f.c ELSE [f.c EXCEPT !.notify = FALSE]
           /\ disp' = CASE f.how = "err" -> [disp EXCEPT !.pc = "err"]
                        [] f.how # "err" /\ readAgain -> [disp EXCEPT !.pc = "loop"]
                        [] f.how # "err" /\ ~readAgain /\ writeAgain ->
                             [disp EXCEPT !.pc = "write", !.again = TRUE]
                        [] OTHER -> [disp EXCEPT !.pc = "finish"]
  /\ Local /\ Channel

\* The next of 16 iterations, or yield with a wake-up of its own.
LoopAgain ==
  /\ disp.pc = "loop"
  /\ disp' = [disp EXCEPT !.pc = "read", !.again = FALSE]
  /\ UNCHANGED conn /\ Local /\ Channel

LoopYield ==
  /\ disp.pc = "loop"
  /\ disp' = [disp EXCEPT !.pc = "parked", !.again = FALSE]
  /\ woken' = TRUE
  /\ UNCHANGED <<conn, body, server, complete>> /\ Channel

\* Mutant of IsDone: a closed read half does not end the task.
IsDoneLate == disp.closing

\* Dispatcher::is_done: "a client that cannot read may was well be done".
IsDone == disp.closing \/ conn.reading = "Closed"

\* poll_inner after poll_loop.
Finish ==
  /\ disp.pc = "finish"
  /\ disp' = CASE ~IsDone -> [disp EXCEPT !.pc = "parked", !.again = FALSE]
               [] IsDone /\ conn.upgrade /\ ~conn.error ->
                    [disp EXCEPT !.pc = "ended", !.result = "upgrade"]
               [] IsDone /\ conn.upgrade /\ conn.error -> [disp EXCEPT !.pc = "err"]
               [] IsDone /\ ~conn.upgrade -> [disp EXCEPT !.pc = "shutdown"]
  /\ UNCHANGED conn /\ Local /\ Channel

\* Conn::poll_shutdown; a transport with bytes of its own may have to wait.
Shutdown ==
  /\ disp.pc = "shutdown"
  /\ \/ /\ conn.peer # "reset"
        /\ disp' = IF conn.error THEN [disp EXCEPT !.pc = "err"]
                   ELSE [disp EXCEPT !.pc = "ended", !.result = "shutdown"]
        /\ UNCHANGED conn
     \/ /\ conn.peer = "reset"
        /\ disp' = [disp EXCEPT !.pc = "err"]
        /\ UNCHANGED conn
     \/ /\ conn.peer # "reset" /\ conn.full
        /\ disp' = [disp EXCEPT !.pc = "parked", !.again = FALSE]
        /\ conn' = Arm(conn, "write")
  /\ Local /\ Channel

\* Mutant of FailBody: the sender of an unfinished body is just dropped.
FailBodySilent == IF disp.tx = None THEN body ELSE [body EXCEPT ![disp.tx].tx = "clean"]

\* A body sender is left over: it sends an error (poll_catch, SenderGuard).
FailBody == IF disp.tx = None THEN body ELSE [body EXCEPT ![disp.tx].tx = "error"]

\* poll_catch on an error, recv_msg(Err) with a callback.
CatchCallback(r) ==
  /\ disp.pc = "err"
  /\ SendErr(r)
  /\ body' = FailBody
  /\ disp' = [disp EXCEPT !.pc = "ended", !.tx = None, !.result = "shutdown"]
  /\ UNCHANGED <<conn, woken, server, complete>>

\* ... without one: Receiver::close and try_recv.
CatchClose ==
  /\ disp.pc = "err" /\ held = {}
  /\ CloseCancel
  /\ body' = FailBody
  /\ disp' = [disp EXCEPT !.pc = "close2", !.tx = None]
  /\ UNCHANGED <<conn, woken, server, complete>>

CatchCloseInner ==
  /\ disp.pc = "close2"
  /\ CloseInner
  /\ disp' = [disp EXCEPT !.pc = "close3"]
  /\ UNCHANGED conn /\ Local

CatchTryRecv ==
  /\ disp.pc = "close3"
  /\ CloseTryRecv
  /\ disp' = [disp EXCEPT !.pc = "ended", !.result = IF queue # <<>> THEN "shutdown" ELSE "error"]
  /\ UNCHANGED conn /\ Local

\* ... rx_closed: nobody to tell.
CatchClosed ==
  /\ disp.pc = "err" /\ held = {} /\ rx = "ended"
  /\ body' = FailBody
  /\ disp' = [disp EXCEPT !.pc = "ended", !.tx = None, !.result = "error"]
  /\ UNCHANGED <<conn, woken, server, complete>> /\ Channel

\* The runtime drops the task between two polls.
Aborted ==
  /\ disp.pc = "parked"
  /\ disp' = [disp EXCEPT !.pc = "ended", !.result = "aborted"]
  /\ UNCHANGED conn /\ Local /\ Channel

\* Drop of the Dispatcher: the callback, the Receiver, the body sender.
DropCallback(r) ==
  /\ disp.pc = "ended"
  /\ SendErr(r)
  /\ UNCHANGED <<conn, disp>> /\ Local

DropReceiver ==
  /\ disp.pc = "ended" /\ held = {}
  /\ DropCancel
  /\ disp' = [disp EXCEPT !.pc = "drop"]
  /\ UNCHANGED conn /\ Local

DropRest ==
  /\ disp.pc = "drop"
  /\ DropInner
  /\ body' = FailBody
  /\ disp' = [disp EXCEPT !.pc = "gone", !.tx = None, !.rx = None]
  /\ UNCHANGED <<conn, woken, server, complete>>

-----------------------------------------------------------------------------
(* The others.                                                             *)

\* A caller in try_send_request, or dropping its handle; a push and the drop
\* wake poll_recv.
Caller(h) ==
  /\ \/ (\E r \in Req : TrySend(h, r)) /\ UNCHANGED <<conn, woken>>
     \/ TrySendPush(h) /\ Fire("recv")
     \/ DropHandle(h) /\ Fire("recv")
  /\ UNCHANGED <<disp, body, server, complete>>

\* A caller drops the response future.
CallerLeaves(r) ==
  /\ Abandon(r)
  /\ IF r \in held THEN Fire("cancel") ELSE UNCHANGED <<conn, woken>>
  /\ UNCHANGED <<disp, body, server, complete>>

\* Incoming::poll_frame of a consumer.
ConsumerChunk(r) ==
  /\ body[r].rx = "live" /\ body[r].slot = 1
  /\ body' = [body EXCEPT ![r].slot = 0]
  /\ Fire("slot")
  /\ UNCHANGED <<disp, server, complete>> /\ Channel

ConsumerEnd(r) ==
  /\ body[r].rx = "live" /\ body[r].slot = 0 /\ body[r].tx \in {"clean", "error"}
  /\ body' = [body EXCEPT ![r].rx = IF body[r].tx = "clean" THEN "ended" ELSE "failed"]
  /\ UNCHANGED <<conn, disp, woken, server, complete>> /\ Channel

\* A consumer drops the response body.
ConsumerLeaves(r) ==
  /\ body[r].rx = "live"
  /\ body' = [body EXCEPT ![r].rx = "dropped"]
  /\ IF disp.tx = r THEN Fire("closed") ELSE UNCHANGED <<conn, woken>>
  /\ UNCHANGED <<disp, server, complete>> /\ Channel

\* A request body that was pending has more.
ProducerReady ==
  /\ "frame" \in conn.armed
  /\ Fire("frame")
  /\ UNCHANGED <<disp, body, server, complete>> /\ Channel

Alive == disp.pc # "gone"

\* The server sends, closes, resets; its receive window opens.
ServerSend(t) ==
  /\ Alive /\ conn.peer = "open" /\ server.sent < MaxIn
  /\ server' = [server EXCEPT !.sent = @ + 1]
  /\ woken' = (woken \/ "read" \in conn.armed)
  /\ conn' = [conn EXCEPT !.in = Append(@, t), !.armed = @ \ {"read"}]
  /\ UNCHANGED <<disp, body, complete>> /\ Channel

ServerEnd(how) ==
  /\ Alive /\ conn.peer = "open"
  /\ woken' = (woken \/ {"read", "write"} \cap conn.armed # {})
  /\ conn' = [conn EXCEPT !.peer = how, !.armed = @ \ {"read", "write"},
                          !.in = IF how = "reset" THEN <<>> ELSE @]
  /\ UNCHANGED <<disp, body, server, complete>> /\ Channel

ServerDrains ==
  /\ Alive /\ conn.full
  /\ woken' = (woken \/ "write" \in conn.armed)
  /\ conn' = [conn EXCEPT !.full = FALSE, !.armed = @ \ {"write"}]
  /\ UNCHANGED <<disp, body, server, complete>> /\ Channel

-----------------------------------------------------------------------------
ReadStep ==
  \/ ReadClosing \/ ReadHeadUnwanted \/ ReadHeadPending
  \/ \E r \in Req : ReadHead(r) \/ ReadHeadError(r)
  \/ ReadBodyDone \/ ReadBodyFull \/ ReadBodyUnwanted \/ ReadBodyReady \/ ReadBodyFrame
  \/ ReadKeepAlive

WriteStep ==
  \/ WriteClosing \/ WriteMsg \/ WriteMsgEmpty \/ WriteMsgWant \/ WriteMsgEnd
  \/ \E r \in Req : WriteHeadOf(r)
  \/ WriteFull \/ WriteBodyRefused \/ WriteBodyPending
  \/ \E n \in FrameSizes : WriteBodyData(n) \/ WriteBodyLast(n)
  \/ WriteBodyTrailers \/ WriteBodyError \/ WriteBodyEnd \/ WriteNoBody

LoopStep == Flush \/ LoopAgain \/ LoopYield \/ Finish \/ Shutdown

EndStep ==
  \/ CatchClose \/ CatchCloseInner \/ CatchTryRecv \/ CatchClosed \/ DropReceiver \/ DropRest
  \/ \E r \in Req : CatchCallback(r) \/ DropCallback(r)

TaskStep == Poll \/ ReadStep \/ WriteStep \/ LoopStep \/ EndStep

ServerStep == (\E t \in server.sends : ServerSend(t)) \/ ServerEnd("eof") \/ ServerEnd("reset") \/ ServerDrains

ConsumerStep(r) == ConsumerChunk(r) \/ ConsumerEnd(r) \/ ConsumerLeaves(r)

DNext ==
  \/ TaskStep \/ Aborted
  \/ ServerStep \/ ProducerReady
  \/ \E h \in Handle : Caller(h)
  \/ \E r \in Req : CallerLeaves(r) \/ ConsumerStep(r)

DSafety == DInit /\ [][DNext]_dvars

\* The executor polls a woken task and drops a finished one; callers finish
\* a call they began; consumers read until they leave; request bodies go on;
\* the server reads what it is sent and some day closes.
DFairness ==
  /\ WF_dvars(TaskStep)
  /\ \A h \in Handle : WF_dvars(TrySendPush(h) /\ Caller(h))
  /\ \A r \in Req : WF_dvars(ConsumerChunk(r) \/ ConsumerEnd(r))
  /\ WF_dvars(ProducerReady) /\ WF_dvars(ServerDrains)
  /\ WF_dvars(ServerEnd("eof") \/ ServerEnd("reset"))

DSpec == DSafety /\ DFairness

-----------------------------------------------------------------------------
(* Properties.                                                             *)

\* The type invariant of Dispatcher and Conn; a decoder and an encoder exist
\* exactly in the Body states.
DTypeOK ==
  /\ disp.pc \in Parts
  /\ disp.tx \in Req \cup {None} /\ disp.rx \in Req \cup {None}
  /\ conn.reading \in {"Init", "Body", "KeepAlive", "Closed"}
  /\ conn.writing \in {"Init", "Body", "KeepAlive", "Closed"}
  /\ conn.ka \in {"Idle", "Busy", "Disabled"}
  /\ conn.rbuf \in Seq(Tokens)
  /\ conn.reading = "Body" <=> conn.dec # "none"
  /\ conn.writing = "Body" <=> conn.enc # "none"

\* Code: SenderGuard, poll_read, poll_read_body.  A consumer sees the clean
\* end of a response body only if the body arrived to its last byte: a lost
\* or aborted connection never looks like a complete response.
CleanEndIsComplete == \A r \in Req : body[r].rx = "ended" => r \in complete

\* Code: encode_and_end, end_body, try_keep_alive.  The next request head is
\* written only behind a request that was serialized completely, whatever
\* its body did (short, failed, trailers refused): the framing of the
\* outgoing stream is never lost.
FramingKept == disp.pc = "head" => conn.out # "part"

\* Code: keep_alive &= msg.keep_alive, try_keep_alive.  Once the server sent
\* Connection: close or 101, no further request is written.
NoReuseAfterClose == disp.pc = "head" => ~conn.said

\* Code: the assertions `!self.can_read_body()` of poll_read_keep_alive,
\* require_empty_read and mid_message_detect_eof.  Whenever poll_read starts
\* over in the middle of a body there is a sender to give it to, also after
\* consumers left at any moment.
BodyHasReader == disp.pc = "read" /\ CanReadBody(conn) => disp.tx # None

\* Code: recv_msg, "Getting here is likely a bug!", and on_read_head_error,
\* "read eof".  A response head is looked for only while a request is in
\* flight, and an end of stream there is an error for its caller.
ResponseHasCaller ==
  disp.pc = "read" /\ ~disp.closing /\ CanReadHead(conn) => held # {} /\ conn.ka # "Idle"

\* Code: require_empty_read, and the test
\* client_read_bytes_before_writing_request.  Bytes read before a request is
\* written are not taken for its response.  Violated: poll_write's own flush
\* can make the connection idle and take the next request before poll_read
\* looks at the read buffer.
NothingReadBeforeWrite == disp.pc = "head" => conn.rbuf = <<>>

Arriving == conn.in # <<>> \/ conn.peer # "open"

\* Work the task could do: bytes to flush, a response head or the loss of
\* its caller, body bytes or the loss of their consumer, bytes or the end of
\* the stream while idle or waiting for the request body, body to write.
HasWork ==
  \/ conn.wh + conn.wq > 0 /\ ~conn.full
  \/ CanReadHead(conn) /\ (~Listening \/ conn.rbuf # <<>> \/ Arriving)
  \/ /\ disp.tx # None /\ CanReadBody(conn)
     /\ \/ body[disp.tx].rx = "dropped"
        \/ body[disp.tx].slot = 0 /\ (conn.rbuf # <<>> \/ Arriving)
  \/ ~IsMidMessage(conn) /\ (conn.rbuf # <<>> \/ Arriving)
  \/ conn.reading = "KeepAlive" /\ conn.rbuf = <<>> /\ Arriving
  \/ disp.rx # None /\ CanWriteBody(conn) /\ {"frame", "write"} \cap conn.armed = {}

Asleep == disp.pc = "parked" /\ ~woken

\* Code: poll_loop ("we yield and rely on the wake-up from the connection
\* futures"), maybe_notify.  The task never sleeps on work that it could do
\* and of which no waker will tell it.
NoLostWakeup == Asleep => ~HasWork

\* Code: State::idle, "the Dispatcher should try the poll loop one more time,
\* so as to poll the pending requests stream".  A task that sleeps with an
\* idle, flushed connection has polled the request channel, so that the next
\* request wakes it.  Violated with WriteStrategy::Queue.
IdleListens == Asleep /\ ~IsMidMessage(conn) /\ conn.wh + conn.wq = 0 => "recv" \in conn.armed

\* Code: poll_read and the body Sender.  A consumer that keeps reading
\* reaches the end of its body, clean or not.
BodySettles == \A r \in Req : body[r].rx = "live" ~> body[r].rx # "live"

\* Code: the assertions of poll_read, poll_read_keep_alive and recv_msg.  What
\* the dispatcher takes for granted of the connection when it starts over
\* holds: a decoder and an encoder in the Body states only, a reader for a
\* body in progress, a waiting caller for a response head.
AssertionsHold == DTypeOK /\ BodyHasReader /\ ResponseHasCaller
=============================================================================
