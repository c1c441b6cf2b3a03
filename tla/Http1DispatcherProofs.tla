------------------------ MODULE Http1DispatcherProofs ------------------------
(***************************************************************************)
(* The HTTP/1 dispatcher uses the request channel as DispatchChannel       *)
(* allows: every step of the composed system is a step of the channel or   *)
(* leaves it alone.  What is proved of the channel alone therefore holds   *)
(* of the connection task, for every server, body, buffer size and number  *)
(* of requests.                                                            *)
(***************************************************************************)
EXTENDS Http1Dispatcher, DispatchChannelProofs, Http1ConnProofs

-----------------------------------------------------------------------------
\* poll_read touches the channel only through its callback.
LEMMA ReadUsesChannel == ReadStep => [Next]_vars
  BY DEF ReadStep, ReadClosing, ReadHeadUnwanted, ReadHeadPending, ReadHead, ReadHeadError,
         ReadBodyDone, ReadBodyFull, ReadBodyUnwanted, ReadBodyReady, ReadBodyFrame,
         ReadKeepAlive, Channel, Next, CallbackStep

\* poll_write takes requests off it and serializes them.
LEMMA WriteUsesChannel == WriteStep => [Next]_vars
  BY DEF WriteStep, WriteClosing, WriteMsg, WriteMsgEmpty, WriteMsgWant, WriteMsgEnd, WriteHeadOf,
         WriteFull, WriteBodyRefused, WriteBodyPending, WriteBodyData, WriteBodyLast,
         WriteBodyTrailers, WriteBodyError, WriteBodyEnd, WriteNoBody, Channel,
         Next, CallbackStep, ReceiverStep

\* poll_catch and Drop close it.
LEMMA EndUsesChannel == EndStep => [Next]_vars
  BY DEF EndStep, CatchClose, CatchCloseInner, CatchTryRecv, CatchClosed, DropReceiver, DropRest,
         CatchCallback, DropCallback, Channel, Next, CallbackStep, ReceiverStep

\* poll_loop, the executor, the server and the bodies leave it alone; the
\* callers use it.
LEMMA OthersUseChannel ==
  ASSUME DNext
  PROVE  [Next]_vars
<1>1. CASE TaskStep
  <2>1. CASE Poll  BY <2>1 DEF Poll
  <2>2. CASE LoopStep
    BY <2>2 DEF LoopStep, Flush, LoopAgain, LoopYield, Finish, Shutdown, Channel
  <2> QED  BY <1>1, <2>1, <2>2, ReadUsesChannel, WriteUsesChannel, EndUsesChannel DEF TaskStep
<1>2. CASE Aborted  BY <1>2 DEF Aborted, Channel
<1>3. CASE ServerStep
  BY <1>3 DEF ServerStep, ServerSend, ServerEnd, ServerDrains, Channel
<1>4. CASE ProducerReady  BY <1>4 DEF ProducerReady, Channel
<1>5. ASSUME NEW h \in Handle, Caller(h)
      PROVE  Next
  <2>1. \A r \in Req : TrySend(h, r) => Bounded  BY DEF TrySend
  <2> QED  BY <1>5, <2>1 DEF Caller, Next, HandleStep
<1>6. ASSUME NEW r \in Req, CallerLeaves(r)
      PROVE  Next
  BY <1>6 DEF CallerLeaves, Next
<1>7. ASSUME NEW r \in Req, ConsumerStep(r)
      PROVE  UNCHANGED vars
  BY <1>7 DEF ConsumerStep, ConsumerChunk, ConsumerEnd, ConsumerLeaves, Channel
<1> QED  BY <1>1, <1>2, <1>3, <1>4, <1>5, <1>6, <1>7 DEF DNext

-----------------------------------------------------------------------------
\* The connection task is a correct user of the channel: the composed
\* specification implements the channel's.
THEOREM UsesChannel == DSafety => Safety
<1>1. DInit => Init  BY DEF DInit
<1>2. [DNext]_dvars => [Next]_vars
  <2>1. UNCHANGED dvars => UNCHANGED vars  BY DEF dvars
  <2> QED  BY <2>1, OthersUseChannel
<1> QED  BY <1>1, <1>2, PTL DEF DSafety, Safety

\* On an HTTP/1 connection a request that try_send_request hands back was
\* never serialized, is not queued and is not in flight (TrySendError).
THEOREM DispatcherSafeRetry == DSafety => []ReturnedIsUnsent
  BY UsesChannel, SafeRetry, PTL

\* On an HTTP/1 connection no callback is lost or duplicated, whatever the
\* server, the bodies and the runtime do (Callback, Envelope).
THEOREM DispatcherNoLostCallback == DSafety => []OneCallback
  BY UsesChannel, NoLostCallback, PTL

\* The HTTP/1 connection task keeps the safety half of what try_send_request
\* promises its caller.
THEOREM DispatcherImplementsPromise == DSafety => Promise!PSafety
  BY UsesChannel, ImplementsPromise, PTL

-----------------------------------------------------------------------------
(* The dispatcher and its connection.                                      *)

\* The task will not poll the connection again.
Over == {"close2", "close3", "ended", "drop", "gone"}

\* The types of the task and of a response body.
DispRec ==
  [pc : Parts, again : BOOLEAN, wready : BOOLEAN, closing : BOOLEAN,
   tx : Req \cup {None}, rx : Req \cup {None}, frames : Nat,
   result : {"none", "upgrade", "shutdown", "error", "aborted"}]

BodyRec == [slot : {0, 1}, tx : {"none", "open", "clean", "error"},
            rx : {"none", "live", "ended", "failed", "dropped"}]

\* Between two steps of a task that is at p, with body sender t, callbacks h
\* and complete responses q: a head is written on a free connection; a body
\* is read for somebody; a body in progress has its sender, a response that
\* is awaited its callback; and a sender that outlives the body being read
\* belongs to a complete response.
Link(p, t, c, h, q) ==
  /\ p = "head" => c.reading = "Init" /\ c.writing = "Init"
  /\ p = "readbody" => t # None /\ c.reading = "Body"
  /\ c.reading = "Body" /\ t = None => p \in Over
  /\ c.reading = "Init" /\ c.writing # "Init" /\ h = {} => p \in Over
  /\ t # None /\ c.reading # "Body" => t \in q

\* A body sender is dropped without an error only behind a complete response.
CleanEnds == \A r \in Req : body[r].tx = "clean" \/ body[r].rx = "ended" => r \in complete

\* The inductive invariant of the dispatcher and its connection.
DInv ==
  /\ ConnOK(conn)
  /\ disp \in DispRec
  /\ body \in [Req -> BodyRec]
  /\ server \in [sends : SUBSET Tokens, sent : Nat]
  /\ Link(disp.pc, disp.tx, conn, held, complete)
  /\ CleanEnds

\* What leaves the two halves of the connection alone keeps the link.
LEMMA LinkSame ==
  ASSUME NEW p, NEW t, NEW c, NEW h, NEW q, Link(p, t, c, h, q), NEW d, SameState(c, d)
  PROVE  Link(p, t, d, h, q)
BY DEF Link, SameState

\* So does what may end a message, when the task goes on elsewhere.
LEMMA LinkSettles ==
  ASSUME NEW p, NEW t, NEW c, NEW h, NEW q, Link(p, t, c, h, q), p \notin Over,
         NEW d, Settles(c, d), NEW o, o \notin {"head", "readbody"}
  PROVE  Link(o, t, d, h, q)
BY DEF Link, Settles

\* The connection starts consistent.
LEMMA InitDInv ==
  ASSUME DInit
  PROVE  DInv
<1>1. ConnOK(conn)
  BY NewConnOK DEF DInit
<1>2. disp \in DispRec /\ disp.pc = "parked" /\ disp.tx = None
  BY DEF DInit, DispRec, Parts
<1>3. body \in [Req -> BodyRec] /\ \A r \in Req : body[r].tx = "none" /\ body[r].rx = "none"
  BY DEF DInit, NoBody, BodyRec
<1>4. server \in [sends : SUBSET Tokens, sent : Nat]
  BY DispatcherAssumption DEF DInit
<1>5. conn.reading = "Init" /\ conn.writing = "Init"
  BY DEF DInit, NewConn
<1>6. Link(disp.pc, disp.tx, conn, held, complete)
  BY <1>2, <1>5 DEF Link
<1>7. CleanEnds
  BY <1>3 DEF CleanEnds
<1> QED  BY <1>1, <1>2, <1>3, <1>4, <1>6, <1>7 DEF DInv

\* The server and the producer of the request body touch buffers and wakers.
LEMMA ServerDInv ==
  ASSUME DInv, ServerStep \/ ProducerReady
  PROVE  DInv'
<1>0. UNCHANGED <<disp, body, complete, held>>
  BY DEF ServerStep, ServerSend, ServerEnd, ServerDrains, ProducerReady, Channel, vars
<1>1. ConnOK(conn') /\ SameState(conn, conn')
  <2>1. ASSUME NEW t \in server.sends, ServerSend(t)
        PROVE  ConnOK(conn') /\ SameState(conn, conn')
    <3>1. conn' = Arrives(conn, t) /\ t \in Tokens
      BY <2>1 DEF ServerSend, Arrives, DInv
    <3> QED  BY <3>1, ArrivesOK DEF DInv
  <2>2. ASSUME NEW how \in {"eof", "reset"}, ServerEnd(how)
        PROVE  ConnOK(conn') /\ SameState(conn, conn')
    <3>1. conn' = Leaves(conn, how)
      BY <2>2 DEF ServerEnd, Leaves
    <3> QED  BY <3>1, LeavesOK DEF DInv
  <2>3. CASE ServerDrains
    <3>1. conn' = Drains(conn)
      BY <2>3 DEF ServerDrains, Drains
    <3> QED  BY <3>1, DrainsOK DEF DInv
  <2>4. CASE ProducerReady
    <3>1. conn' = Disarm(conn, {"frame"})
      BY <2>4 DEF ProducerReady, Fire, Disarm
    <3> QED  BY <3>1, DisarmOK DEF DInv
  <2> QED  BY <2>1, <2>2, <2>3, <2>4 DEF ServerStep
<1>2. server' \in [sends : SUBSET Tokens, sent : Nat]
  <2>1. server \in [sends : SUBSET Tokens, sent : Nat]
    BY DEF DInv
  <2>2. server' = server \/ server' = [server EXCEPT !.sent = @ + 1]
    BY DEF ServerStep, ServerSend, ServerEnd, ServerDrains, ProducerReady
  <2> QED  BY <2>1, <2>2
<1>3. Link(disp.pc, disp.tx, conn', held, complete)
  BY <1>1, LinkSame DEF DInv
<1> QED  BY <1>0, <1>1, <1>2, <1>3 DEF DInv, CleanEnds

\* Callers and their futures wake the task.
LEMMA CallerDInv ==
  ASSUME DInv, \/ \E h \in Handle : Caller(h)
               \/ \E r \in Req : CallerLeaves(r)
  PROVE  DInv'
<1>0. UNCHANGED <<disp, body, complete, server, held>>
  BY DEF Caller, TrySend, TrySendPush, DropHandle, CallerLeaves, Abandon
<1>1. ConnOK(conn') /\ SameState(conn, conn')
  <2>1. conn' = conn \/ \E w \in Wakers : conn' = Disarm(conn, {w})
    BY DEF Caller, CallerLeaves, Fire, Disarm, Wakers
  <2>2. SameState(conn, conn)
    BY DEF SameState
  <2> QED  BY <2>1, <2>2, DisarmOK DEF DInv
<1>2. Link(disp.pc, disp.tx, conn', held, complete)
  BY <1>1, LinkSame DEF DInv
<1> QED  BY <1>0, <1>1, <1>2 DEF DInv, CleanEnds

\* Incoming::poll_frame and Incoming's drop: a consumer is told of a clean
\* end only by the sender of a complete body.
LEMMA ConsumerDInv ==
  ASSUME DInv, NEW r \in Req, ConsumerStep(r)
  PROVE  DInv'
<1>0. UNCHANGED <<disp, complete, server, held>>
  BY DEF ConsumerStep, ConsumerChunk, ConsumerEnd, ConsumerLeaves, Channel, vars
<1>1. ConnOK(conn') /\ SameState(conn, conn')
  <2>1. conn' = conn \/ \E w \in Wakers : conn' = Disarm(conn, {w})
    BY DEF ConsumerStep, ConsumerChunk, ConsumerEnd, ConsumerLeaves, Fire, Disarm, Wakers
  <2>2. SameState(conn, conn)
    BY DEF SameState
  <2> QED  BY <2>1, <2>2, DisarmOK DEF DInv
<1>2. Link(disp.pc, disp.tx, conn', held, complete)
  BY <1>1, LinkSame DEF DInv
<1>3. body \in [Req -> BodyRec] /\ CleanEnds
  BY DEF DInv
<1>4. body' \in [Req -> BodyRec] /\ CleanEnds'
  <2>1. CASE ConsumerChunk(r)
    <3>1. body' = [body EXCEPT ![r].slot = 0]
      BY <2>1 DEF ConsumerChunk
    <3> QED  BY <1>0, <1>3, <3>1 DEF BodyRec, CleanEnds
  <2>2. CASE ConsumerEnd(r)
    <3> PICK k : k = IF body[r].tx = "clean" THEN "ended" ELSE "failed"
      OBVIOUS
    <3>1. body' = [body EXCEPT ![r].rx = k]
      BY <2>2 DEF ConsumerEnd
    <3>2. k \in {"ended", "failed"} /\ (k = "ended" => body[r].tx = "clean")
      OBVIOUS
    <3> QED  BY <1>0, <1>3, <3>1, <3>2 DEF BodyRec, CleanEnds
  <2>3. CASE ConsumerLeaves(r)
    <3>1. body' = [body EXCEPT ![r].rx = "dropped"]
      BY <2>3 DEF ConsumerLeaves
    <3> QED  BY <1>0, <1>3, <3>1 DEF BodyRec, CleanEnds
  <2> QED  BY <2>1, <2>2, <2>3 DEF ConsumerStep
<1> QED  BY <1>0, <1>1, <1>2, <1>4 DEF DInv

\* A step that changes the task and its connection, nothing else.
LEMMA LocalDInv ==
  ASSUME DInv, UNCHANGED <<body, server, complete>>,
         ConnOK(conn'), disp' \in DispRec, Link(disp'.pc, disp'.tx, conn', held', complete)
  PROVE  DInv'
BY DEF DInv, CleanEnds

\* poll_loop and poll_inner.
LEMMA LoopDInv ==
  ASSUME DInv, LoopStep \/ Poll \/ Aborted
  PROVE  DInv'
<1>0. UNCHANGED <<body, server, complete, held>>
  BY DEF LoopStep, Flush, LoopAgain, LoopYield, Finish, Shutdown, Poll, Aborted, Local, Channel, vars
<1>1. /\ ConnOK(conn) /\ disp \in DispRec /\ Link(disp.pc, disp.tx, conn, held, complete)
  BY DEF DInv
<1>2. Settles(conn, conn)
  BY DEF Settles
<1>3. CASE Flush
  <2>1. PICK f \in PollFlush(conn) :
          /\ conn' = IF f.how = "err" THEN f.c ELSE [f.c EXCEPT !.notify = FALSE]
          /\ \/ \E p \in {"err", "loop", "finish"} : disp' = [disp EXCEPT !.pc = p]
             \/ disp' = [disp EXCEPT !.pc = "write", !.again = TRUE]
    <3>1. PICK f \in PollFlush(conn) :
          LET writeAgain == /\ ~disp.closing /\ disp.rx # None /\ CanWriteBody(f.c)
                            /\ disp.wready \/ f.how = "ready"
              readAgain  == f.c.notify
          IN  /\ conn' = IF f.how = "err" THEN f.c ELSE [f.c EXCEPT !.notify = FALSE]
              /\ disp' = CASE f.how = "err" -> [disp EXCEPT !.pc = "err"]
                           [] f.how # "err" /\ readAgain -> [disp EXCEPT !.pc = "loop"]
                           [] f.how # "err" /\ ~readAgain /\ writeAgain ->
                                [disp EXCEPT !.pc = "write", !.again = TRUE]
                           [] OTHER -> [disp EXCEPT !.pc = "finish"]
      BY <1>3 DEF Flush
    <3> QED  BY <3>1, Zenon
  <2>2. ConnOK(f.c) /\ Settles(conn, f.c)
    BY <1>1, PollFlushOK
  <2>3. ConnOK(Quiet(f.c)) /\ SameState(f.c, Quiet(f.c))
    BY <2>2, QuietOK
  <2>4. conn' = f.c \/ conn' = Quiet(f.c)
    BY <2>1 DEF Quiet
  <2>5. ConnOK(conn') /\ Settles(conn, conn')
    BY <2>2, <2>3, <2>4 DEF Settles, SameState
  <2>6. disp' \in DispRec /\ disp'.pc \in {"err", "loop", "finish", "write"} /\ disp'.tx = disp.tx
    BY <1>1, <2>1 DEF DispRec, Parts
  <2>7. disp.pc \notin Over
    BY <1>3 DEF Flush, Over
  <2>8. Link(disp'.pc, disp'.tx, conn', held', complete)
    BY <1>0, <1>1, <2>5, <2>6, <2>7, LinkSettles
  <2> QED  BY <1>0, <2>5, <2>6, <2>8, LocalDInv
<1>4. CASE LoopAgain \/ LoopYield \/ Finish \/ Shutdown \/ Poll \/ Aborted
  <2>1. /\ disp' \in DispRec /\ disp'.tx = disp.tx
        /\ disp'.pc \in {"read", "parked", "ended", "shutdown", "err"}
    <3>1. \/ \E p \in {"read", "parked"} : disp' = [disp EXCEPT !.pc = p, !.again = FALSE]
          \/ \E p \in {"err", "shutdown"} : disp' = [disp EXCEPT !.pc = p]
          \/ \E x \in {"upgrade", "shutdown", "aborted"} : disp' = [disp EXCEPT !.pc = "ended", !.result = x]
      BY <1>4, Zenon DEF LoopAgain, LoopYield, Finish, Shutdown, Poll, Aborted
    <3> QED  BY <1>1, <3>1 DEF DispRec, Parts
  <2>2. ConnOK(conn') /\ SameState(conn, conn')
    <3>1. conn' = conn \/ conn' = Arm(conn, "write")
      BY <1>4 DEF LoopAgain, LoopYield, Finish, Shutdown, Poll, Aborted
    <3>2. SameState(conn, conn) /\ "write" \in Wakers
      BY DEF SameState, Wakers
    <3> QED  BY <1>1, <3>1, <3>2, ArmOK
  <2>3. disp.pc \notin Over
    BY <1>4 DEF LoopAgain, LoopYield, Finish, Shutdown, Poll, Aborted, Over
  <2>4. Settles(conn, conn')
    BY <2>2 DEF Settles, SameState
  <2>5. Link(disp'.pc, disp'.tx, conn', held', complete)
    BY <1>0, <1>1, <2>1, <2>3, <2>4, LinkSettles
  <2> QED  BY <1>0, <2>1, <2>2, <2>5, LocalDInv
<1> QED  BY <1>3, <1>4 DEF LoopStep

\* Leaving a body sender behind with an error claims nothing.
LEMMA FailBodyOK ==
  ASSUME DInv, body' = FailBody, complete' = complete
  PROVE  body' \in [Req -> BodyRec] /\ CleanEnds'
<1>1. body \in [Req -> BodyRec] /\ CleanEnds /\ disp.tx \in Req \cup {None}
  BY DEF DInv, DispRec
<1>2. CASE disp.tx = None
  BY <1>1, <1>2 DEF FailBody, CleanEnds
<1>3. CASE disp.tx # None
  <2>1. disp.tx \in Req /\ body' = [body EXCEPT ![disp.tx].tx = "error"]
    BY <1>1, <1>3 DEF FailBody
  <2> PICK t \in Req : t = disp.tx
    BY <2>1
  <2>2. body' = [body EXCEPT ![t].tx = "error"]
    BY <2>1
  <2> QED  BY <1>1, <2>2 DEF CleanEnds, BodyRec
<1> QED  BY <1>2, <1>3

\* poll_catch and the drop of the task: it is over, whatever was going on.
LEMMA EndDInv ==
  ASSUME DInv, EndStep
  PROVE  DInv'
<1>0. UNCHANGED <<server, complete, conn>>
  BY DEF EndStep, CatchClose, CatchCloseInner, CatchTryRecv, CatchClosed, DropReceiver, DropRest,
         CatchCallback, DropCallback, Local
<1>1. /\ ConnOK(conn) /\ disp \in DispRec /\ Link(disp.pc, disp.tx, conn, held, complete)
  BY DEF DInv
<1>2. body' = body \/ body' = FailBody
  BY DEF EndStep, CatchClose, CatchCloseInner, CatchTryRecv, CatchClosed, DropReceiver, DropRest,
         CatchCallback, DropCallback, Local
<1>3. body' \in [Req -> BodyRec] /\ CleanEnds'
  BY <1>0, <1>2, FailBodyOK DEF DInv, CleanEnds
<1>4. disp' \in DispRec /\ disp'.pc \in Over /\ disp'.tx \in {disp.tx, None}
  <2>1. \/ \E p \in Over : disp' = [disp EXCEPT !.pc = p]
        \/ \E p \in Over : disp' = [disp EXCEPT !.pc = p, !.tx = None]
        \/ \E x \in {"shutdown", "error"} : disp' = [disp EXCEPT !.pc = "ended", !.result = x]
        \/ \E x \in {"shutdown", "error"} : disp' = [disp EXCEPT !.pc = "ended", !.tx = None, !.result = x]
        \/ disp' = [disp EXCEPT !.pc = "gone", !.tx = None, !.rx = None]
        \/ disp' = disp /\ disp.pc = "ended"
    BY DEF EndStep, CatchClose, CatchCloseInner, CatchTryRecv, CatchClosed, DropReceiver, DropRest,
           CatchCallback, DropCallback, Over
  <2> QED  BY <1>1, <2>1 DEF DispRec, Parts, Over
<1>5. Link(disp'.pc, disp'.tx, conn, held', complete)
  BY <1>1, <1>4 DEF Link, Over
<1> QED  BY <1>0, <1>1, <1>3, <1>4, <1>5 DEF DInv

\* A step of the task that at most ends a message on the connection.
LEMMA SettlesDInv ==
  ASSUME DInv, UNCHANGED <<body, server, complete, held>>, disp.pc \notin Over,
         ConnOK(conn'), Settles(conn, conn'),
         disp' \in DispRec, disp'.tx = disp.tx, disp'.pc \notin {"head", "readbody"}
  PROVE  DInv'
<1>1. Link(disp'.pc, disp'.tx, conn', held', complete)
  BY LinkSettles DEF DInv
<1> QED  BY <1>1, LocalDInv

\* Where poll_write returns to.
LEMMA ReturnsOK ==
  ASSUME disp \in DispRec, NEW b \in BOOLEAN
  PROVE  /\ Returns(b) \in DispRec /\ Returns(b).tx = disp.tx
         /\ Returns(b).pc \in {"flush", "loop", "finish"}
         /\ Returns(b).frames = disp.frames
<1> DEFINE p == CASE ~disp.again -> "flush"
                  [] disp.again /\ b -> "loop"
                  [] OTHER -> "finish"
<1>1. Returns(b) = [disp EXCEPT !.wready = b, !.pc = p]
  BY DEF Returns
<1>2. p \in {"flush", "loop", "finish"}
  OBVIOUS
<1> HIDE DEF p
<1> QED  BY <1>1, <1>2 DEF DispRec, Parts

\* poll_write between messages: a request, none yet, or the end of all.
LEMMA TakeDInv ==
  ASSUME DInv, WriteMsg \/ WriteMsgEmpty \/ WriteMsgWant \/ WriteMsgEnd
  PROVE  DInv'
<1>0. UNCHANGED <<body, server, complete>> /\ disp.pc \notin Over
  BY DEF WriteMsg, WriteMsgEmpty, WriteMsgWant, WriteMsgEnd, Local, Over
<1>1. /\ ConnOK(conn) /\ disp \in DispRec /\ Link(disp.pc, disp.tx, conn, held, complete)
  BY DEF DInv
<1>2. WantsMsg => conn.reading = "Init" /\ conn.writing = "Init"
  BY <1>1 DEF WantsMsg, CanWriteHead, ConnOK
<1>3. disp.tx # None /\ conn.reading # "Body" => disp.tx \in complete
  BY <1>1 DEF Link
<1>4. /\ Returns(TRUE) \in DispRec /\ Returns(TRUE).tx = disp.tx
      /\ Returns(TRUE).pc \in {"flush", "loop", "finish"}
      /\ Returns(FALSE) \in DispRec /\ Returns(FALSE).tx = disp.tx
      /\ Returns(FALSE).pc \in {"flush", "loop", "finish"}
  BY <1>1, ReturnsOK
<1>5. ASSUME WantsMsg, conn' = Close(conn), disp' = [Returns(TRUE) EXCEPT !.closing = TRUE]
      PROVE  DInv'
  <2>1. disp' \in DispRec /\ disp'.tx = disp.tx
    BY <1>4, <1>5 DEF DispRec
  <2>2. ConnOK(conn') /\ conn'.reading = "Closed"
    BY <1>1, <1>5, CloseOK
  <2>3. disp'.pc \in {"flush", "loop", "finish"}
    BY <1>4, <1>5 DEF DispRec
  <2>4. Link(disp'.pc, disp'.tx, conn', held', complete)
    BY <1>2, <1>3, <1>5, <2>1, <2>2, <2>3 DEF Link
  <2> QED  BY <1>0, <2>1, <2>2, <2>4, LocalDInv
<1>6. CASE WriteMsg
  <2>1. CASE held' # {} /\ conn' = Arm(conn, "cancel") /\ disp' = [disp EXCEPT !.pc = "head"]
    <3>1. disp' \in DispRec /\ disp'.tx = disp.tx /\ disp'.pc = "head"
      BY <1>1, <2>1 DEF DispRec, Parts
    <3>2. ConnOK(conn') /\ SameState(conn, conn')
      <4>1. "cancel" \in Wakers
        BY DEF Wakers
      <4> QED  BY <1>1, <2>1, <4>1, ArmOK
    <3>3. conn'.reading = "Init" /\ conn'.writing = "Init"
      BY <1>2, <1>6, <3>2 DEF WriteMsg, SameState
    <3>4. disp.tx # None => disp.tx \in complete
      BY <1>2, <1>3, <1>6 DEF WriteMsg
    <3>5. Link(disp'.pc, disp'.tx, conn', held', complete)
      BY <2>1, <3>1, <3>3, <3>4 DEF Link
    <3> QED  BY <1>0, <3>1, <3>2, <3>5, LocalDInv
  <2> QED  BY <1>5, <1>6, <2>1 DEF WriteMsg
<1>7. CASE WriteMsgEmpty
  <2>1. disp' \in DispRec /\ disp'.tx = disp.tx /\ disp'.pc = "want" /\ held' = held
    BY <1>1, <1>7 DEF WriteMsgEmpty, RecvEmpty, DispRec, Parts
  <2>2. ConnOK(conn') /\ SameState(conn, conn')
    <3>1. conn' = Arm(conn, "recv") /\ "recv" \in Wakers
      BY <1>7 DEF WriteMsgEmpty, Wakers
    <3> QED  BY <1>1, <3>1, ArmOK
  <2>3. Settles(conn, conn')
    BY <2>2 DEF Settles, SameState
  <2> QED  BY <1>0, <2>1, <2>2, <2>3, SettlesDInv
<1>8. CASE WriteMsgWant
  <2>1. held' = held /\ conn' = conn /\ disp' = Returns(FALSE)
    BY <1>8 DEF WriteMsgWant, RecvWant
  <2>2. ConnOK(conn') /\ Settles(conn, conn')
    BY <1>1, <2>1 DEF Settles
  <2> QED  BY <1>0, <1>4, <2>1, <2>2, SettlesDInv
<1>9. CASE WriteMsgEnd
  BY <1>5, <1>9 DEF WriteMsgEnd
<1> QED  BY <1>6, <1>7, <1>8, <1>9

\* Conn::write_head: the response to the request is awaited by its callback.
LEMMA WriteHeadDInv ==
  ASSUME DInv, NEW r \in Req, WriteHeadOf(r)
  PROVE  DInv'
<1>0. UNCHANGED <<body, server, complete, held>> /\ r \in held
  BY DEF WriteHeadOf, Serialize, Local
<1>1. /\ ConnOK(conn) /\ disp \in DispRec /\ Link(disp.pc, disp.tx, conn, held, complete)
  BY DEF DInv
<1>2. conn.reading = "Init" /\ conn.writing = "Init" /\ (disp.tx # None => disp.tx \in complete)
  BY <1>1 DEF WriteHeadOf, Link
<1> PICK c : c = Disarm(conn, {"frame"})
  OBVIOUS
<1>3. ConnOK(c) /\ c.reading = "Init" /\ c.writing = "Init"
  BY <1>1, <1>2, DisarmOK DEF SameState
<1>4. PICK f \in {"length", "chunked"}, n \in Nat : conn' \in WriteHead(c, [enc |-> f, len |-> n])
  <2>1. PICK e \in Encoders(r) : conn' \in WriteHead(c, e)
    BY DEF WriteHeadOf, Disarm
  <2>2. \E f \in {"length", "chunked"}, n \in {ReqLen, 0} : e = [enc |-> f, len |-> n]
    BY DEF Encoders
  <2>3. ReqLen \in Nat
    BY ConnAssumption
  <2> QED  BY <2>1, <2>2, <2>3
<1>5. Writes(c, conn')
  BY <1>3, <1>4, WriteHeadOK
<1>6. ConnOK(conn') /\ conn'.reading = "Init" /\ conn'.writing # "Init"
  BY <1>3, <1>5 DEF Writes
<1>7. disp' \in DispRec /\ disp'.tx = disp.tx /\ disp'.pc = "write"
  <2> PICK x : x = IF r \in Sized \cup Streamed THEN r ELSE None
    OBVIOUS
  <2>1. x \in Req \cup {None}
    OBVIOUS
  <2>2. disp' = [disp EXCEPT !.pc = "write", !.frames = 0, !.rx = x]
    BY DEF WriteHeadOf
  <2> QED  BY <1>1, <2>1, <2>2 DEF DispRec, Parts
<1>8. Link(disp'.pc, disp'.tx, conn', held', complete)
  BY <1>0, <1>2, <1>6, <1>7 DEF Link
<1> QED  BY <1>0, <1>6, <1>7, <1>8, LocalDInv

\* The rest of poll_write: flushing for room and the request body.
LEMMA WriteBodyDInv ==
  ASSUME DInv,
         \/ WriteClosing \/ WriteFull \/ WriteBodyRefused \/ WriteBodyPending
         \/ \E n \in FrameSizes : WriteBodyData(n) \/ WriteBodyLast(n)
         \/ WriteBodyTrailers \/ WriteBodyError \/ WriteBodyEnd \/ WriteNoBody
  PROVE  DInv'
<1> USE DEF WritingBody
<1>0. UNCHANGED <<body, server, complete, held>> /\ disp.pc = "write"
  BY DEF WriteClosing, WriteFull, WriteBodyRefused, WriteBodyPending, WriteBodyData, WriteBodyLast,
         WriteBodyTrailers, WriteBodyError, WriteBodyEnd, WriteNoBody, Local, Channel, vars
<1>1. ConnOK(conn) /\ disp \in DispRec /\ disp.pc \notin Over /\ disp.frames \in Nat
  BY <1>0 DEF DInv, Over, DispRec
<1>2. /\ Returns(TRUE) \in DispRec /\ Returns(TRUE).tx = disp.tx
      /\ Returns(TRUE).pc \in {"flush", "loop", "finish"} /\ Returns(TRUE).frames \in Nat
      /\ Returns(FALSE) \in DispRec /\ Returns(FALSE).tx = disp.tx
      /\ Returns(FALSE).pc \in {"flush", "loop", "finish"} /\ Returns(FALSE).frames \in Nat
  BY <1>1, ReturnsOK
<1>3. Settles(conn, conn)
  BY DEF Settles
<1> DEFINE Goes == /\ disp' \in DispRec /\ disp'.tx = disp.tx
                   /\ disp'.pc \in {"write", "flush", "loop", "finish", "err"}
           Keeps == ConnOK(conn') /\ Settles(conn, conn')
<1>4. Goes /\ Keeps => DInv'
  BY <1>0, <1>1, SettlesDInv
<1>5. ASSUME CanWriteBody(conn), Writes(conn, conn')
      PROVE  Keeps
  BY <1>5 DEF CanWriteBody, Writes, Settles
<1>6. ASSUME \/ disp' = disp
             \/ \E p \in {"write", "err"} : disp' = [disp EXCEPT !.pc = p]
             \/ disp' = [disp EXCEPT !.rx = None]
             \/ \E p \in {"write", "err"} : disp' = [disp EXCEPT !.rx = None, !.pc = p]
             \/ disp' = [disp EXCEPT !.frames = @ + 1]
             \/ disp' = Returns(TRUE) \/ disp' = Returns(FALSE)
      PROVE  Goes
  <2>1. CASE disp' = disp
    BY <1>0, <1>1, <2>1
  <2>2. ASSUME NEW p \in {"write", "err"},
               disp' = [disp EXCEPT !.pc = p] \/ disp' = [disp EXCEPT !.rx = None, !.pc = p]
        PROVE  Goes
    BY <1>1, <2>2 DEF DispRec, Parts
  <2>3. CASE disp' = [disp EXCEPT !.rx = None]
    BY <1>0, <1>1, <2>3 DEF DispRec
  <2>4. CASE disp' = [disp EXCEPT !.frames = @ + 1]
    BY <1>0, <1>1, <2>4 DEF DispRec
  <2>5. CASE disp' = Returns(TRUE) \/ disp' = Returns(FALSE)
    BY <1>2, <2>5
  <2> QED  BY <1>6, <2>1, <2>2, <2>3, <2>4, <2>5
<1> HIDE DEF Goes
<1>7. CASE WriteClosing
  <2>1. Goes
    BY <1>6, <1>7 DEF WriteClosing
  <2> QED  BY <1>1, <1>3, <1>4, <1>7, <2>1 DEF WriteClosing
<1>8. CASE WriteFull
  <2>1. PICK f \in PollFlush(conn) :
          /\ conn' = f.c
          /\ disp' = CASE f.how = "ready"   -> disp
                       [] f.how = "pending" -> Returns(FALSE)
                       [] f.how = "err"     -> [disp EXCEPT !.pc = "err"]
    BY <1>8 DEF WriteFull
  <2>2. f.how \in {"ready", "pending", "err"} /\ Keeps
    BY <1>1, <2>1, PollFlushOK
  <2>3. disp' = disp \/ disp' = Returns(FALSE) \/ disp' = [disp EXCEPT !.pc = "err"]
    BY <2>1, <2>2
  <2>4. Goes
    BY <1>6, <2>3
  <2> QED  BY <1>4, <2>2, <2>4
<1>9. CASE WriteBodyRefused \/ WriteBodyError
  <2>1. disp' = [disp EXCEPT !.rx = None] \/ disp' = [disp EXCEPT !.rx = None, !.pc = "err"]
    BY <1>9 DEF WriteBodyRefused, WriteBodyError
  <2>2. Goes
    BY <1>6, <2>1
  <2> QED  BY <1>1, <1>3, <1>4, <1>9, <2>2 DEF WriteBodyRefused, WriteBodyError
<1>10. CASE WriteBodyPending
  <2> PICK k : k = Returns(FALSE)
    OBVIOUS
  <2> DEFINE m == IF "frame" \in conn.armed THEN k.frames ELSE k.frames + 1
  <2>5. \A i \in Nat : i + 1 \in Nat
    OBVIOUS
  <2>1. m \in Nat
    BY <1>2, <2>5, Zenon
  <2>2. disp' = [k EXCEPT !.frames = m]
    BY <1>10 DEF WriteBodyPending
  <2> HIDE DEF m
  <2>3. Goes
    BY <1>2, <2>1, <2>2 DEF DispRec, Goes
  <2>4. Keeps
    <3>1. conn' = Arm(conn, "frame") /\ "frame" \in Wakers
      BY <1>10 DEF WriteBodyPending, Wakers
    <3>2. ConnOK(conn') /\ SameState(conn, conn')
      BY <1>1, <3>1, ArmOK
    <3> QED  BY <3>2 DEF Settles, SameState
  <2> QED  BY <1>4, <2>3, <2>4
<1>11. ASSUME NEW n \in FrameSizes, WriteBodyData(n)
       PROVE  DInv'
  <2>1. n \in Nat /\ CanWriteBody(conn)
    BY <1>11, DispatcherAssumption DEF WriteBodyData
  <2>2. Goes
    BY <1>6, <1>11 DEF WriteBodyData
  <2>3. Writes(conn, WriteBody(conn, n))
    BY <1>1, <2>1, WriteBodyOK DEF CanWriteBody
  <2>4. conn' = conn \/ conn' = WriteBody(conn, n)
    BY <1>11 DEF WriteBodyData
  <2>5. Keeps
    BY <1>1, <1>3, <1>5, <2>1, <2>3, <2>4
  <2> QED  BY <1>4, <2>2, <2>5
<1>12. ASSUME NEW n \in FrameSizes, WriteBodyLast(n)
       PROVE  DInv'
  <2>1. n \in Nat /\ CanWriteBody(conn)
    BY <1>12, DispatcherAssumption DEF WriteBodyLast
  <2>2. /\ conn' = EndBody(conn).c \/ conn' = WriteBodyAndEnd(conn, n)
        /\ \E p \in {"write", "err"} : disp' = [disp EXCEPT !.rx = None, !.pc = p]
    BY <1>0, <1>12 DEF WriteBodyLast
  <2>3. Goes
    BY <1>6, <2>2
  <2>4. Writes(conn, EndBody(conn).c) /\ Writes(conn, WriteBodyAndEnd(conn, n))
    BY <1>1, <2>1, EndBodyOK, WriteBodyAndEndOK DEF CanWriteBody
  <2>5. Keeps
    BY <1>5, <2>1, <2>2, <2>4
  <2> QED  BY <1>4, <2>3, <2>5
<1>13. CASE WriteBodyTrailers
  <2>1. CanWriteBody(conn) /\ conn' \in WriteTrailers(conn) /\ disp' = [disp EXCEPT !.rx = None]
    BY <1>13 DEF WriteBodyTrailers
  <2>2. Writes(conn, conn')
    BY <1>1, <2>1, WriteTrailersOK DEF CanWriteBody
  <2> QED  BY <1>4, <1>5, <1>6, <2>1, <2>2
<1>14. CASE WriteBodyEnd
  <2>1. /\ CanWriteBody(conn) /\ conn' = EndBody(conn).c
        /\ \E p \in {"write", "err"} : disp' = [disp EXCEPT !.rx = None, !.pc = p]
    BY <1>0, <1>14 DEF WriteBodyEnd
  <2>2. Writes(conn, conn')
    BY <1>1, <2>1, EndBodyOK DEF CanWriteBody
  <2> QED  BY <1>4, <1>5, <1>6, <2>1, <2>2
<1>15. CASE WriteNoBody
  <2>1. CASE CanWriteBody(conn) /\ conn' = EndBody(conn).c
    <3>1. \E p \in {"write", "err"} : disp' = [disp EXCEPT !.pc = p]
      BY <1>0, <1>15, <2>1 DEF WriteNoBody
    <3>2. Writes(conn, conn')
      BY <1>1, <2>1, EndBodyOK DEF CanWriteBody
    <3> QED  BY <1>4, <1>5, <1>6, <2>1, <3>1, <3>2
  <2>2. CASE ~CanWriteBody(conn) /\ conn' = conn
    <3>1. disp' = Returns(FALSE)
      BY <1>15, <2>2 DEF WriteNoBody
    <3> QED  BY <1>1, <1>3, <1>4, <1>6, <2>2, <3>1
  <2> QED  BY <1>15, <2>1, <2>2 DEF WriteNoBody
<1> QED  BY <1>7, <1>8, <1>9, <1>10, <1>11, <1>12, <1>13, <1>14, <1>15

\* poll_read_head: a response goes to its callback, and a body gets its
\* sender.
LEMMA ReadHeadDInv ==
  ASSUME DInv, NEW r \in Req, ReadHead(r)
  PROVE  DInv'
<1>0. disp.pc = "read" /\ conn.reading = "Init" /\ conn.writing # "Init" /\ server' = server
  BY DEF ReadHead, CanReadHead
<1>1. /\ ConnOK(conn) /\ disp \in DispRec /\ Link(disp.pc, disp.tx, conn, held, complete)
      /\ body \in [Req -> BodyRec] /\ CleanEnds
  BY DEF DInv
<1> PICK p : p = ParseHead(conn)
  OBVIOUS
<1> PICK t : t = p.c.rbuf[1]
  OBVIOUS
<1>2. ConnOK(p.c) /\ SameState(conn, p.c) /\ p.c.rbuf # <<>> /\ t \in Heads
  BY <1>1, ParseHeadOK DEF ReadHead
<1>3. p.c.reading = "Init" /\ p.c.writing # "Init"
  BY <1>0, <1>2 DEF SameState
<1> PICK a : a = AcceptHead(p.c, t)
  OBVIOUS
<1>4. /\ ConnOK(a)
      /\ a.reading = "Body" <=> Decoder(t) # "none"
      /\ a.reading = "Init" => a.writing = "Init"
  BY <1>2, <1>3, AcceptHeadOK
<1>5. conn' = Disarm(a, {"cancel", "slot", "closed"})
  BY DEF ReadHead, Disarm
<1>6. ConnOK(conn') /\ SameState(a, conn')
  BY <1>4, <1>5, DisarmOK
<1>7. /\ conn'.reading = "Body" <=> Decoder(t) # "none"
      /\ conn'.reading = "Init" => conn'.writing = "Init"
  BY <1>4, <1>6 DEF SameState
<1>8. CASE Decoder(t) = "none"
  <2>1. complete' = complete \cup {r} /\ disp' = disp /\ body' = body
    BY <1>8 DEF ReadHead
  <2>2. Link(disp'.pc, disp'.tx, conn', held', complete')
    BY <1>0, <1>1, <1>7, <1>8, <2>1 DEF Link
  <2>3. CleanEnds'
    BY <1>1, <2>1 DEF CleanEnds
  <2> QED  BY <1>0, <1>1, <1>6, <2>1, <2>2, <2>3 DEF DInv
<1>9. CASE Decoder(t) # "none"
  <2>1. /\ complete' = complete /\ disp' = [disp EXCEPT !.tx = r]
        /\ body' = [body EXCEPT ![r] = [slot |-> 0, tx |-> "open", rx |-> "live"]]
    BY <1>9 DEF ReadHead
  <2>2. disp' \in DispRec /\ disp'.pc = "read" /\ disp'.tx = r /\ r # None
    BY <1>0, <1>1, <2>1, ChannelAssumption DEF DispRec
  <2>3. Link(disp'.pc, disp'.tx, conn', held', complete')
    BY <1>7, <1>9, <2>2 DEF Link
  <2>4. body' \in [Req -> BodyRec] /\ CleanEnds'
    BY <1>1, <2>1 DEF CleanEnds, BodyRec
  <2> QED  BY <1>0, <1>6, <2>2, <2>3, <2>4 DEF DInv
<1> QED  BY <1>8, <1>9

\* poll_read without a message to read: it waits, or gives up.
LEMMA ReadIdleDInv ==
  ASSUME DInv,
         \/ ReadClosing \/ ReadHeadUnwanted \/ ReadHeadPending \/ ReadKeepAlive
         \/ \E r \in Req : ReadHeadError(r)
  PROVE  DInv'
<1>0. UNCHANGED <<body, server, complete>> /\ disp.pc = "read"
  BY DEF ReadClosing, ReadHeadUnwanted, ReadHeadPending, ReadKeepAlive, ReadHeadError, Local
<1>1. /\ ConnOK(conn) /\ disp \in DispRec /\ Link(disp.pc, disp.tx, conn, held, complete)
      /\ disp.pc \notin Over
  BY <1>0 DEF DInv, Over
<1> PICK p : p = ParseHead(conn)
  OBVIOUS
<1>2. ConnOK(p.c) /\ SameState(conn, p.c)
  BY <1>1, ParseHeadOK
<1>3. disp' \in DispRec /\ disp'.tx = disp.tx /\ disp'.pc \in {"read", "write", "err"}
  <2>1. \/ \E x \in {"write", "err"} : disp' = [disp EXCEPT !.pc = x]
        \/ disp' = [disp EXCEPT !.closing = TRUE]
    BY DEF ReadClosing, ReadHeadUnwanted, ReadHeadPending, ReadKeepAlive, ReadHeadError
  <2> QED  BY <1>0, <1>1, <2>1 DEF DispRec, Parts
<1>4. ASSUME NEW c, ConnOK(c), SameState(conn, c), CanReadHead(conn), conn' = Close(c)
      PROVE  DInv'
  <2>1. ConnOK(conn') /\ conn'.reading = "Closed"
    BY <1>4, CloseOK
  <2>2. disp.tx # None => disp.tx \in complete
    BY <1>1, <1>4 DEF CanReadHead, Link
  <2>3. Link(disp'.pc, disp'.tx, conn', held', complete)
    BY <1>3, <2>1, <2>2 DEF Link
  <2> QED  BY <1>0, <1>3, <2>1, <2>3, LocalDInv
<1>5. CASE ReadHeadUnwanted
  <2>1. SameState(conn, conn)
    BY DEF SameState
  <2> QED  BY <1>1, <1>4, <1>5, <2>1 DEF ReadHeadUnwanted
<1>6. ASSUME NEW r \in Req, ReadHeadError(r)
      PROVE  DInv'
  BY <1>2, <1>4, <1>6 DEF ReadHeadError
<1>7. CASE ReadClosing
  <2>1. conn' = conn /\ held' = held
    BY <1>7 DEF ReadClosing, Channel, vars
  <2>2. ConnOK(conn') /\ Settles(conn, conn')
    BY <1>1, <2>1 DEF Settles
  <2> QED  BY <1>0, <1>1, <1>3, <2>1, <2>2, SettlesDInv
<1>8. CASE ReadHeadPending
  <2>1. conn' = Arm(p.c, "cancel") /\ held' = held /\ "cancel" \in Wakers
    BY <1>8 DEF ReadHeadPending, Channel, vars, Wakers
  <2>2. ConnOK(conn') /\ SameState(p.c, conn')
    BY <1>2, <2>1, ArmOK
  <2>3. Settles(conn, conn')
    BY <1>2, <2>2 DEF SameState, Settles
  <2> QED  BY <1>0, <1>1, <1>3, <2>1, <2>2, <2>3, SettlesDInv
<1>9. CASE ReadKeepAlive
  <2> PICK k : k = PollReadKeepAlive(conn)
    OBVIOUS
  <2>1. conn' = k.c /\ held' = held /\ disp.tx = None
    BY <1>9 DEF ReadKeepAlive, Channel, vars
  <2>2. ConnOK(k.c) /\ (k.c.reading = "Closed" \/ SameState(conn, k.c))
    BY <1>1, PollReadKeepAliveOK
  <2>3. conn.reading # "Body"
    BY <1>1, <2>1 DEF Link
  <2>4. Settles(conn, conn')
    BY <2>1, <2>2, <2>3 DEF SameState, Settles
  <2> QED  BY <1>0, <1>1, <1>3, <2>1, <2>2, <2>4, SettlesDInv
<1> QED  BY <1>5, <1>6, <1>7, <1>8, <1>9

\* poll_read in the middle of a body: the sender is dropped only when the
\* body is complete, has failed, or nobody wants it.
LEMMA ReadBodyDInv ==
  ASSUME DInv, ReadBodyDone \/ ReadBodyFull \/ ReadBodyUnwanted \/ ReadBodyReady
  PROVE  DInv'
<1> USE DEF ReadingBody
<1>0. UNCHANGED <<server, complete, held>> /\ disp.pc = "read" /\ disp.tx # None
  BY DEF ReadBodyDone, ReadBodyFull, ReadBodyUnwanted, ReadBodyReady, Local, Channel, vars
<1>1. /\ ConnOK(conn) /\ disp \in DispRec /\ Link(disp.pc, disp.tx, conn, held, complete)
      /\ body \in [Req -> BodyRec] /\ CleanEnds /\ disp.pc \notin Over
  BY <1>0 DEF DInv, Over
<1>2. disp.tx \in Req
  BY <1>0, <1>1 DEF DispRec
<1>3. CASE ReadBodyDone
  <2>1. /\ conn' = conn /\ disp' = [disp EXCEPT !.tx = None]
        /\ body' = [body EXCEPT ![disp.tx].tx = "clean"] /\ conn.reading # "Body"
    BY <1>3 DEF ReadBodyDone, CanReadBody
  <2>2. disp' \in DispRec /\ disp'.tx = None /\ disp'.pc = "read"
    BY <1>0, <1>1, <2>1 DEF DispRec
  <2> PICK t \in Req : t = disp.tx
    BY <1>2
  <2>3. body' = [body EXCEPT ![t].tx = "clean"] /\ t \in complete
    BY <1>0, <1>1, <2>1 DEF Link
  <2>4. body' \in [Req -> BodyRec] /\ CleanEnds'
    BY <1>0, <1>1, <2>3 DEF BodyRec, CleanEnds
  <2>5. Link(disp'.pc, disp'.tx, conn', held', complete')
    BY <1>0, <1>1, <2>1, <2>2 DEF Link
  <2> QED  BY <1>0, <1>1, <2>1, <2>2, <2>4, <2>5 DEF DInv
<1>4. CASE ReadBodyFull
  <2>1. conn' = Arm(Arm(conn, "slot"), "closed") /\ body' = body /\ disp' = [disp EXCEPT !.pc = "write"]
    BY <1>4 DEF ReadBodyFull, Local
  <2>2. disp' \in DispRec /\ disp'.tx = disp.tx /\ disp'.pc = "write"
    BY <1>1, <2>1 DEF DispRec, Parts
  <2>3. {"slot", "closed"} \subseteq Wakers
    BY DEF Wakers
  <2>4. ConnOK(Arm(conn, "slot")) /\ SameState(conn, Arm(conn, "slot"))
    BY <1>1, <2>3, ArmOK
  <2>5. ConnOK(conn') /\ SameState(Arm(conn, "slot"), conn')
    BY <2>1, <2>3, <2>4, ArmOK
  <2>6. Settles(conn, conn')
    BY <2>4, <2>5 DEF SameState, Settles
  <2> QED  BY <1>0, <1>1, <2>1, <2>2, <2>5, <2>6, SettlesDInv
<1>5. CASE ReadBodyUnwanted
  <2>1. /\ conn' = DrainOrCloseRead(conn) /\ body' = body /\ disp' = [disp EXCEPT !.tx = None]
        /\ conn.reading = "Body"
    BY <1>5 DEF ReadBodyUnwanted, Local, CanReadBody
  <2>2. disp' \in DispRec /\ disp'.tx = None /\ disp'.pc = "read"
    BY <1>0, <1>1, <2>1 DEF DispRec
  <2>3. /\ ConnOK(conn') /\ conn'.reading # "Body"
        /\ conn'.reading = "Init" => conn'.writing = "Init"
    BY <1>1, <2>1, DrainOrCloseReadOK
  <2>4. Link(disp'.pc, disp'.tx, conn', held', complete)
    BY <2>2, <2>3 DEF Link
  <2> QED  BY <1>0, <2>1, <2>2, <2>3, <2>4, LocalDInv
<1>6. CASE ReadBodyReady
  <2>1. /\ conn' = Arm(conn, "closed") /\ body' = body /\ disp' = [disp EXCEPT !.pc = "readbody"]
        /\ conn.reading = "Body"
    BY <1>6 DEF ReadBodyReady, Local, CanReadBody
  <2>2. disp' \in DispRec /\ disp'.tx = disp.tx /\ disp'.pc = "readbody"
    BY <1>1, <2>1 DEF DispRec, Parts
  <2>3. "closed" \in Wakers
    BY DEF Wakers
  <2>4. ConnOK(conn') /\ SameState(conn, conn')
    BY <1>1, <2>1, <2>3, ArmOK
  <2>5. Link(disp'.pc, disp'.tx, conn', held', complete)
    BY <1>0, <2>1, <2>2, <2>4 DEF Link, SameState
  <2> QED  BY <1>0, <2>1, <2>2, <2>4, <2>5, LocalDInv
<1> QED  BY <1>3, <1>4, <1>5, <1>6

\* Conn::poll_read_body and what becomes of the frame.
LEMMA ReadFrameDInv ==
  ASSUME DInv, ReadBodyFrame
  PROVE  DInv'
<1>0. UNCHANGED <<server, held>> /\ disp.pc = "readbody"
  BY DEF ReadBodyFrame, Channel, vars
<1>1. /\ ConnOK(conn) /\ disp \in DispRec /\ Link(disp.pc, disp.tx, conn, held, complete)
      /\ body \in [Req -> BodyRec] /\ CleanEnds
  BY DEF DInv
<1>2. disp.tx # None /\ conn.reading = "Body" /\ disp.tx \in Req
  BY <1>0, <1>1 DEF Link, DispRec
<1> PICK r \in Req : r = disp.tx
  BY <1>2
<1> PICK d : d = PollReadBody(conn)
  OBVIOUS
<1>3. /\ d.how \in {"pending", "data", "trail", "end", "err"}
      /\ d.fin \in BOOLEAN
      /\ d.how \in {"end", "trail"} => d.fin
      /\ d.fin => d.how \in {"data", "end", "trail"}
      /\ ConnOK(d.c)
      /\ d.c.reading = "Body" <=> ~d.fin /\ d.how # "err"
      /\ d.c.reading = "Init" => d.c.writing = "Init"
  BY <1>1, <1>2, PollReadBodyOK
<1>4. complete' = IF d.fin THEN complete \cup {r} ELSE complete
  BY DEF ReadBodyFrame
<1>5. complete \subseteq complete' /\ (d.fin => r \in complete')
  BY <1>4
<1>6. CASE d.how = "pending"
  <2>1. conn' = d.c /\ body' = body /\ disp' = [disp EXCEPT !.pc = "write"]
    BY <1>6 DEF ReadBodyFrame
  <2>2. disp' \in DispRec /\ disp'.tx = r /\ disp'.pc = "write"
    BY <1>1, <2>1 DEF DispRec, Parts
  <2>3. d.c.reading = "Body" /\ r # None
    BY <1>2, <1>3, <1>6
  <2>4. Link(disp'.pc, disp'.tx, conn', held', complete')
    BY <2>1, <2>2, <2>3 DEF Link
  <2> QED  BY <1>0, <1>1, <1>3, <1>5, <2>1, <2>2, <2>4 DEF DInv, CleanEnds
<1>7. CASE d.how \in {"data", "trail"} /\ body[r].rx # "dropped"
  <2>1. /\ conn' = d.c /\ disp' = [disp EXCEPT !.pc = "read"]
        /\ body' = body \/ body' = [body EXCEPT ![r].slot = 1]
    BY <1>7 DEF ReadBodyFrame
  <2>2. disp' \in DispRec /\ disp'.tx = r /\ disp'.pc = "read"
    BY <1>1, <2>1 DEF DispRec, Parts
  <2>3. Link(disp'.pc, disp'.tx, conn', held', complete')
    BY <1>2, <1>3, <1>5, <1>7, <2>1, <2>2 DEF Link
  <2>4. body' \in [Req -> BodyRec] /\ CleanEnds'
    BY <1>1, <1>5, <2>1 DEF BodyRec, CleanEnds
  <2> QED  BY <1>0, <1>3, <2>1, <2>2, <2>3, <2>4 DEF DInv
<1>8. CASE d.how \in {"data", "trail"} /\ body[r].rx = "dropped"
  <2>1. /\ conn' = IF CanReadBody(d.c) THEN CloseRead(d.c) ELSE d.c
        /\ disp' = [disp EXCEPT !.pc = "read", !.tx = None]
        /\ body' = body
    BY <1>8 DEF ReadBodyFrame
  <2>2. disp' \in DispRec /\ disp'.tx = None /\ disp'.pc = "read"
    BY <1>1, <2>1 DEF DispRec, Parts
  <2>3. /\ ConnOK(conn') /\ conn'.reading # "Body"
        /\ conn'.reading = "Init" => conn'.writing = "Init"
    BY <1>3, <2>1, CloseReadOK DEF CanReadBody
  <2>4. Link(disp'.pc, disp'.tx, conn', held', complete')
    BY <2>2, <2>3 DEF Link
  <2> QED  BY <1>0, <1>1, <1>5, <2>1, <2>2, <2>3, <2>4 DEF DInv, CleanEnds
<1>9. CASE d.how \in {"end", "err"}
  <2> PICK k : k = IF d.how = "end" THEN "clean" ELSE "error"
    OBVIOUS
  <2>1. /\ conn' = d.c /\ disp' = [disp EXCEPT !.pc = "read", !.tx = None]
        /\ body' = [body EXCEPT ![r].tx = k]
    BY <1>9 DEF ReadBodyFrame
  <2>2. disp' \in DispRec /\ disp'.tx = None /\ disp'.pc = "read"
    BY <1>1, <2>1 DEF DispRec, Parts
  <2>3. conn'.reading # "Body" /\ (conn'.reading = "Init" => conn'.writing = "Init")
    BY <1>3, <1>9, <2>1
  <2>4. Link(disp'.pc, disp'.tx, conn', held', complete')
    BY <2>2, <2>3 DEF Link
  <2>5. k \in {"clean", "error"} /\ (k = "clean" => r \in complete')
    BY <1>3, <1>5
  <2>6. body' \in [Req -> BodyRec] /\ CleanEnds'
    BY <1>1, <1>5, <2>1, <2>5 DEF BodyRec, CleanEnds
  <2> QED  BY <1>0, <1>3, <2>1, <2>2, <2>4, <2>6 DEF DInv
<1> QED  BY <1>3, <1>6, <1>7, <1>8, <1>9

\* Every step of the composed system keeps the dispatcher's invariant.
LEMMA StepDInv == DInv /\ [DNext]_dvars => DInv'
<1> SUFFICES ASSUME DInv, [DNext]_dvars PROVE DInv'
  OBVIOUS
<1>1. CASE UNCHANGED dvars
  BY <1>1 DEF dvars, vars, DInv, CleanEnds
<1>2. CASE DNext
  <2>1. CASE TaskStep
    <3>1. CASE ReadStep
      BY <3>1, ReadHeadDInv, ReadIdleDInv, ReadBodyDInv, ReadFrameDInv DEF ReadStep
    <3>2. CASE WriteStep
      BY <3>2, TakeDInv, WriteHeadDInv, WriteBodyDInv DEF WriteStep
    <3> QED  BY <2>1, <3>1, <3>2, LoopDInv, EndDInv DEF TaskStep
  <2> QED  BY <1>2, <2>1, LoopDInv, ServerDInv, CallerDInv, ConsumerDInv DEF DNext
<1> QED  BY <1>1, <1>2

\* The dispatcher and its connection agree, in every behaviour and for every
\* server, body length, buffer size and number of requests.
THEOREM DInvariance == DSafety => []DInv
  BY InitDInv, StepDInv, PTL DEF DSafety

\* What poll_read, poll_read_keep_alive and recv_msg take for granted holds.
THEOREM DispatcherAssertions == DSafety => []AssertionsHold
<1>1. DInv => AssertionsHold
  <2> SUFFICES ASSUME DInv PROVE AssertionsHold
    OBVIOUS
  <2>1. /\ ConnOK(conn) /\ conn \in ConnRec /\ disp \in DispRec
        /\ Link(disp.pc, disp.tx, conn, held, complete)
    BY DEF DInv, ConnOK
  <2>2. DTypeOK
    BY <2>1 DEF DTypeOK, ConnOK, ConnRec, DispRec, Halves
  <2>3. BodyHasReader
    BY <2>1 DEF BodyHasReader, CanReadBody, Link, Over
  <2>4. ResponseHasCaller
    BY <2>1 DEF ResponseHasCaller, CanReadHead, Link, Over, ConnOK
  <2> QED  BY <2>2, <2>3, <2>4 DEF AssertionsHold
<1> QED  BY <1>1, DInvariance, PTL

\* A consumer sees the clean end of a response body only when all of it has
\* arrived: a lost or aborted connection never looks like a whole response.
THEOREM CleanEndsComplete == DSafety => []CleanEndIsComplete
<1>1. DInv => CleanEndIsComplete
  BY DEF DInv, CleanEnds, CleanEndIsComplete
<1> QED  BY <1>1, DInvariance, PTL

\* The next request head is written only behind a request that was
\* serialized completely, whatever its body did.
THEOREM FramingSound == DSafety => []FramingKept
<1>1. DInv => FramingKept
  BY DEF DInv, Link, ConnOK, FramingKept
<1> QED  BY <1>1, DInvariance, PTL

\* Once the server announced the end of the connection, no further request is
\* written on it.
THEOREM CloseIsObeyed == DSafety => []NoReuseAfterClose
<1>1. DInv => NoReuseAfterClose
  BY DEF DInv, Link, ConnOK, NoReuseAfterClose
<1> QED  BY <1>1, DInvariance, PTL

-----------------------------------------------------------------------------
(* Wake-ups.  The task sleeps only when every kind of work it waits for    *)
(* has a waker: the invariant says, for each point of a poll, which polls  *)
(* were made before it and found nothing.                                  *)

\* On connection c, with body sender t, bodies b and l for "a caller
\* listens", poll_read would find nothing to do and left the wakers of what it
\* waits for.
AtRest(c, t, b, l) ==
  /\ CanReadHead(c) => l /\ "cancel" \in c.armed /\ Polled(c)
  /\ t # None /\ CanReadBody(c) =>
       /\ b[t].rx # "dropped" /\ "closed" \in c.armed
       /\ Polled(c) \/ (b[t].slot = 1 /\ "slot" \in c.armed)
  /\ ~IsMidMessage(c) => Polled(c)
  /\ c.reading = "KeepAlive" /\ c.rbuf = <<>> => Polled(c)

\* poll_flush would find nothing to do.
Drained(c) == c.wh + c.wq > 0 => Stuck(c)

\* poll_write has no request body to write, or waits for its next frame.
BodyWaits(d, c) == d.closing \/ d.rx = None \/ ~CanWriteBody(c) \/ "frame" \in c.armed

\* The order of a poll: poll_read, poll_write, poll_flush, and poll_write
\* again for a body that may go on; a dispatcher that is closing reads no more.
Flow(d, c) ==
  /\ d.closing => c.reading = "Closed"
  /\ d.pc \in {"read", "readbody", "flush"} => ~d.again
  /\ d.pc = "shutdown" => c.reading = "Closed"
  /\ d.pc = "want" => d.rx = None
  /\ d.pc = "flush" /\ d.wready => d.closing

\* What has been polled when the task is at d.pc and no waker has fired since.
Calm(d, c, b, l) ==
  /\ d.pc = "readbody" => b[d.tx].rx # "dropped" /\ "closed" \in c.armed
  /\ d.pc = "head" => l /\ "cancel" \in c.armed
  /\ d.pc \in {"want", "head"} => ~d.again
  /\ d.pc \in {"write", "want", "head", "flush"} /\ ~d.again => c.notify \/ AtRest(c, d.tx, b, l)
  /\ d.pc = "flush" => BodyWaits(d, c) \/ Stuck(c)
  /\ d.pc = "write" /\ d.again => /\ AtRest(c, d.tx, b, l)
                                  /\ ~d.closing /\ d.rx # None /\ CanWriteBody(c)
                                  /\ "frame" \in c.armed /\ c.wh + c.wq = 0
  /\ d.pc \in {"finish", "parked"} => /\ AtRest(c, d.tx, b, l) /\ Drained(c)
                                      /\ BodyWaits(d, c) \/ "write" \in c.armed
  /\ d.pc = "parked" => (d.closing => "write" \in c.armed)

WakeInv == Flow(disp, conn) /\ (woken \/ Calm(disp, conn, body, Listening))

\* A closed read half waits for nothing.
LEMMA ClosedAtRest ==
  ASSUME NEW c, c.reading = "Closed", NEW t, NEW b, NEW l
  PROVE  AtRest(c, t, b, l)
BY DEF AtRest, CanReadHead, CanReadBody, IsMidMessage

\* Wakers that are added do not disturb.
LEMMA SameAtRest ==
  ASSUME NEW c, NEW t, NEW b, NEW l, AtRest(c, t, b, l), NEW d, SameState(c, d), SameIo(c, d)
  PROVE  AtRest(d, t, b, l)
BY DEF AtRest, SameState, SameIo, CanReadHead, CanReadBody, IsMidMessage, Polled

\* Nor does writing a request body.
LEMMA WritesAtRest ==
  ASSUME NEW c, NEW t, NEW b, NEW l, AtRest(c, t, b, l), c.writing # "Init",
         NEW d, d.reading = c.reading, d.writing # "Init", SameIo(c, d)
  PROVE  AtRest(d, t, b, l)
BY DEF AtRest, SameIo, CanReadHead, CanReadBody, IsMidMessage, Polled

\* What poll_flush notices is told to the loop.
LEMMA ToldAtRest ==
  ASSUME NEW c, NEW t, NEW b, NEW l, c.notify \/ AtRest(c, t, b, l), NEW d, Tells(c, d)
  PROVE  d.notify \/ AtRest(d, t, b, l)
<1>1. CASE d.reading = "Closed"
  BY <1>1, ClosedAtRest
<1>2. CASE SameState(c, d) /\ SameIo(c, d)
  BY <1>2, SameAtRest DEF SameIo
<1> QED  BY <1>1, <1>2 DEF Tells

\* Bytes and the end of the stream wake a task that waits for them.
LEMMA CalmArrives ==
  ASSUME NEW d, NEW c, NEW b, NEW l, Calm(d, c, b, l), "read" \notin c.armed,
         NEW e, SameState(c, e), e.armed = c.armed, e.rbuf = c.rbuf, e.notify = c.notify,
         e.wh = c.wh, e.wq = c.wq, e.full = c.full
  PROVE  Calm(d, e, b, l)
<1>1. AtRest(c, d.tx, b, l) => AtRest(e, d.tx, b, l)
  BY DEF AtRest, SameState, CanReadHead, CanReadBody, IsMidMessage, Polled
<1>2. (Stuck(c) => Stuck(e)) /\ (Drained(c) => Drained(e))
  BY DEF Stuck, Drained
<1>3. (BodyWaits(d, c) => BodyWaits(d, e)) /\ (CanWriteBody(c) => CanWriteBody(e))
  BY DEF BodyWaits, CanWriteBody, SameState
<1> QED  BY <1>1, <1>2, <1>3 DEF Calm

\* Room in the socket wakes a task that waits for it.
LEMMA CalmDrains ==
  ASSUME NEW d, NEW c, NEW b, NEW l, Calm(d, c, b, l), "write" \notin c.armed,
         NEW e, SameState(c, e), SameIo(c, e), e.armed = c.armed, e.wh = c.wh, e.wq = c.wq
  PROVE  Calm(d, e, b, l)
<1>1. AtRest(c, d.tx, b, l) => AtRest(e, d.tx, b, l)
  BY SameAtRest
<1>2. (Stuck(c) => Stuck(e)) /\ (Drained(c) => Drained(e))
  BY DEF Stuck, Drained
<1>3. (BodyWaits(d, c) => BodyWaits(d, e)) /\ (CanWriteBody(c) => CanWriteBody(e))
  BY DEF BodyWaits, CanWriteBody, SameState
<1>4. e.notify = c.notify
  BY DEF SameIo
<1> QED  BY <1>1, <1>2, <1>3, <1>4 DEF Calm

\* A caller that leaves wakes a task that waits for its response.
LEMMA CalmUnheard ==
  ASSUME NEW d, NEW c, NEW b, NEW l, Calm(d, c, b, l), NEW k,
         "cancel" \notin c.armed \/ (l => k)
  PROVE  Calm(d, c, b, k)
<1>1. AtRest(c, d.tx, b, l) => AtRest(c, d.tx, b, k)
  BY DEF AtRest
<1> QED  BY <1>1 DEF Calm

\* So does the consumer of a body that waits for it.
LEMMA CalmConsumer ==
  ASSUME NEW d, NEW c, NEW b, NEW l, Calm(d, c, b, l), NEW e,
         d.tx # None /\ c.reading = "Body" =>
            /\ "closed" \in c.armed /\ b[d.tx].rx # "dropped" => e[d.tx].rx # "dropped"
            /\ "slot" \in c.armed /\ b[d.tx].slot = 1 => e[d.tx].slot = 1,
         d.pc = "readbody" => d.tx # None /\ c.reading = "Body"
  PROVE  Calm(d, c, e, l)
<1>1. AtRest(c, d.tx, b, l) => AtRest(c, d.tx, e, l)
  BY DEF AtRest, CanReadBody
<1> QED  BY <1>1 DEF Calm

\* A waker that fires wakes the task, or it was not there.
LEMMA FireIdle ==
  ASSUME ConnOK(conn), NEW w, Fire(w), ~woken'
  PROVE  ~woken /\ w \notin conn.armed /\ conn' = conn
<1>1. ~woken /\ w \notin conn.armed
  BY DEF Fire
<1>2. conn.armed \ {w} = conn.armed
  BY <1>1
<1>3. conn \in ConnRec
  BY DEF ConnOK
<1>4. [conn EXCEPT !.armed = conn.armed] = conn
  BY <1>3, Zenon DEF ConnRec
<1> QED  BY <1>1, <1>2, <1>4 DEF Fire

\* Flow is about the task and the read half.
LEMMA SameFlow ==
  ASSUME NEW d, NEW c, Flow(d, c), NEW e, SameState(c, e)
  PROVE  Flow(d, e)
BY DEF Flow, SameState

\* The server and the producer of the request body.
LEMMA ServerWake ==
  ASSUME DInv, WakeInv, ServerStep \/ ProducerReady
  PROVE  WakeInv'
<1>0. UNCHANGED <<disp, body, held, promise>>
  BY DEF ServerStep, ServerSend, ServerEnd, ServerDrains, ProducerReady, Channel, vars
<1>1. ConnOK(conn) /\ conn \in ConnRec /\ Listening' = Listening
  BY <1>0 DEF DInv, ConnOK, Listening
<1>2. Flow(disp, conn) /\ (~woken => Calm(disp, conn, body, Listening))
  BY DEF WakeInv
<1> SUFFICES Flow(disp, conn') /\ (~woken' => Calm(disp, conn', body, Listening))
  BY <1>0, <1>1 DEF WakeInv
<1>3. ASSUME NEW t \in server.sends, ServerSend(t)
      PROVE  Flow(disp, conn') /\ (~woken' => Calm(disp, conn', body, Listening))
  <2> DEFINE a == conn.armed \ {"read"}
             i == Append(conn.in, t)
             e == [conn EXCEPT !.in = i, !.armed = a]
  <2>1. conn' = e /\ (~woken' => ~woken /\ "read" \notin conn.armed)
    BY <1>3 DEF ServerSend
  <2>2. "read" \notin conn.armed => a = conn.armed
    OBVIOUS
  <2> HIDE DEF a, i
  <2>3. /\ e.armed = a /\ e.rbuf = conn.rbuf /\ e.notify = conn.notify
        /\ e.wh = conn.wh /\ e.wq = conn.wq /\ e.full = conn.full
    BY <1>1 DEF ConnRec
  <2>4. SameState(conn, e)
    BY <1>1 DEF ConnRec, SameState
  <2> HIDE DEF e
  <2>5. Flow(disp, e)
    BY <1>2, <2>4, SameFlow
  <2>6. ~woken' => Calm(disp, e, body, Listening)
    BY <1>2, <2>1, <2>2, <2>3, <2>4, CalmArrives
  <2> QED  BY <2>1, <2>5, <2>6
<1>4. ASSUME NEW how \in {"eof", "reset"}, ServerEnd(how)
      PROVE  Flow(disp, conn') /\ (~woken' => Calm(disp, conn', body, Listening))
  <2> DEFINE a == conn.armed \ {"read", "write"}
             i == IF how = "reset" THEN <<>> ELSE conn.in
             e == [conn EXCEPT !.peer = how, !.armed = a, !.in = i]
  <2>1. conn' = e /\ (~woken' => ~woken /\ "read" \notin conn.armed /\ "write" \notin conn.armed)
    BY <1>4 DEF ServerEnd
  <2>2. "read" \notin conn.armed /\ "write" \notin conn.armed => a = conn.armed
    OBVIOUS
  <2> HIDE DEF a, i
  <2>3. /\ e.armed = a /\ e.rbuf = conn.rbuf /\ e.notify = conn.notify
        /\ e.wh = conn.wh /\ e.wq = conn.wq /\ e.full = conn.full
    BY <1>1 DEF ConnRec
  <2>4. SameState(conn, e)
    BY <1>1 DEF ConnRec, SameState
  <2> HIDE DEF e
  <2>5. Flow(disp, e)
    BY <1>2, <2>4, SameFlow
  <2>6. ~woken' => Calm(disp, e, body, Listening)
    BY <1>2, <2>1, <2>2, <2>3, <2>4, CalmArrives
  <2> QED  BY <2>1, <2>5, <2>6
<1>5. CASE ServerDrains
  <2> DEFINE a == conn.armed \ {"write"}
             e == [conn EXCEPT !.full = FALSE, !.armed = a]
  <2>1. conn' = e /\ (~woken' => ~woken /\ "write" \notin conn.armed)
    BY <1>5 DEF ServerDrains
  <2>2. "write" \notin conn.armed => a = conn.armed
    OBVIOUS
  <2> HIDE DEF a
  <2>3. /\ e.armed = a /\ e.rbuf = conn.rbuf /\ e.notify = conn.notify /\ e.in = conn.in
        /\ e.peer = conn.peer /\ e.wh = conn.wh /\ e.wq = conn.wq
    BY <1>1 DEF ConnRec
  <2>4. SameState(conn, e)
    BY <1>1 DEF ConnRec, SameState
  <2> HIDE DEF e
  <2>5. Flow(disp, e)
    BY <1>2, <2>4, SameFlow
  <2>6. e.armed = conn.armed => SameIo(conn, e)
    BY <2>3 DEF SameIo
  <2>7. ~woken' => Calm(disp, e, body, Listening)
    BY <1>2, <2>1, <2>2, <2>3, <2>4, <2>6, CalmDrains
  <2> QED  BY <2>1, <2>5, <2>7
<1>6. CASE ProducerReady
  <2>1. woken' /\ conn' = Disarm(conn, {"frame"})
    BY <1>6 DEF ProducerReady, Fire, Disarm
  <2>2. SameState(conn, conn')
    BY <1>1, <2>1, DisarmOK
  <2> QED  BY <1>2, <2>1, <2>2, SameFlow
<1> QED  BY <1>3, <1>4, <1>5, <1>6 DEF ServerStep

\* Callers and their futures: whoever leaves a task that waits for its
\* response wakes it; no other caller's request is being served.
LEMMA CallerWake ==
  ASSUME DInv, IInv, WakeInv,
         \/ \E h \in Handle : Caller(h)
         \/ \E r \in Req : CallerLeaves(r)
  PROVE  WakeInv'
<1>0. UNCHANGED <<disp, body, held>>
  BY DEF Caller, TrySend, TrySendPush, DropHandle, CallerLeaves, Abandon
<1>1. ConnOK(conn)
  BY DEF DInv
<1>7. /\ promise \in [Req -> PromiseStates] /\ held \subseteq Req
      /\ \A r \in held : promise[r] \in {"pending", "abandoned"}
      /\ \A h \in Handle : txpc[h] = "push" => promise[txreq[h]] = "sending"
  BY DEF IInv, TypeOK, Places
<1>2. Flow(disp, conn) /\ (~woken => Calm(disp, conn, body, Listening))
  BY DEF WakeInv
<1>3. SameState(conn, conn')
  <2>1. conn' = conn \/ \E w \in Wakers : conn' = Disarm(conn, {w})
    BY DEF Caller, CallerLeaves, Fire, Disarm, Wakers
  <2>2. SameState(conn, conn)
    BY DEF SameState
  <2> QED  BY <1>1, <2>1, <2>2, DisarmOK
<1>4. Flow(disp, conn')
  BY <1>2, <1>3, SameFlow
<1>5. ASSUME ~woken'
      PROVE  /\ ~woken /\ conn' = conn
             /\ "cancel" \notin conn.armed \/ (Listening => Listening')
  <2>1. ASSUME NEW h \in Handle, Caller(h)
        PROVE  ~woken /\ conn' = conn /\ (Listening => Listening')
    <3>1. ~woken /\ conn' = conn
      BY <1>1, <1>5, <2>1, FireIdle DEF Caller
    <3>2. ASSUME NEW q \in held
          PROVE  promise'[q] = promise[q]
      <4>1. CASE DropHandle(h)
        BY <4>1 DEF DropHandle
      <4>2. ASSUME NEW r \in Req, TrySend(h, r)
            PROVE  promise'[q] = promise[q]
        <5>1. promise[r] = "unsent" /\ \E x : promise' = [promise EXCEPT ![r] = x]
          BY <4>2 DEF TrySend
        <5>2. q # r
          BY <1>7, <5>1
        <5> QED  BY <1>7, <5>1, <5>2
      <4>3. CASE TrySendPush(h)
        <5> PICK r : r = txreq[h]
          OBVIOUS
        <5>1. promise[r] = "sending" /\ \E x : promise' = [promise EXCEPT ![r] = x]
          BY <1>7, <4>3 DEF TrySendPush, Send
        <5>2. q # r
          BY <1>7, <5>1
        <5> QED  BY <1>7, <5>1, <5>2
      <4> QED  BY <2>1, <4>1, <4>2, <4>3 DEF Caller
    <3> QED  BY <1>0, <3>1, <3>2 DEF Listening
  <2>2. ASSUME NEW r \in Req, CallerLeaves(r)
        PROVE  /\ ~woken /\ conn' = conn
               /\ "cancel" \notin conn.armed \/ (Listening => Listening')
    <3>1. CASE r \in held
      BY <1>1, <1>5, <2>2, <3>1, FireIdle DEF CallerLeaves
    <3>2. CASE r \notin held
      <4>1. ~woken /\ conn' = conn /\ promise' = [promise EXCEPT ![r] = "abandoned"]
        BY <1>5, <2>2, <3>2 DEF CallerLeaves, Abandon
      <4>2. \A q \in held : promise'[q] = promise[q]
        BY <1>7, <3>2, <4>1
      <4> QED  BY <1>0, <4>1, <4>2 DEF Listening
    <3> QED  BY <3>1, <3>2
  <2> QED  BY <2>1, <2>2
<1>6. ~woken' => Calm(disp, conn, body, Listening') /\ conn' = conn
  BY <1>2, <1>5, CalmUnheard
<1> QED  BY <1>0, <1>4, <1>6 DEF WakeInv

\* Consumers: taking the chunk or leaving wakes a task that waits for it.
LEMMA ConsumerWake ==
  ASSUME DInv, WakeInv, NEW r \in Req, ConsumerStep(r)
  PROVE  WakeInv'
<1>0. UNCHANGED <<disp, held, promise>>
  BY DEF ConsumerStep, ConsumerChunk, ConsumerEnd, ConsumerLeaves, Channel, vars
<1>1. /\ ConnOK(conn) /\ body \in [Req -> BodyRec] /\ Listening' = Listening
      /\ disp.tx \in Req \cup {None}
      /\ disp.pc = "readbody" => disp.tx # None /\ conn.reading = "Body"
  BY <1>0 DEF DInv, Listening, DispRec, Link
<1>2. Flow(disp, conn) /\ (~woken => Calm(disp, conn, body, Listening))
  BY DEF WakeInv
<1>3. SameState(conn, conn')
  <2>1. conn' = conn \/ \E w \in Wakers : conn' = Disarm(conn, {w})
    BY DEF ConsumerStep, ConsumerChunk, ConsumerEnd, ConsumerLeaves, Fire, Disarm, Wakers
  <2>2. SameState(conn, conn)
    BY DEF SameState
  <2> QED  BY <1>1, <2>1, <2>2, DisarmOK
<1>4. Flow(disp, conn')
  BY <1>2, <1>3, SameFlow
<1>5. ASSUME ~woken'
      PROVE  /\ ~woken /\ conn' = conn
             /\ disp.tx # None =>
                  /\ "closed" \in conn.armed /\ body[disp.tx].rx # "dropped" => body'[disp.tx].rx # "dropped"
                  /\ "slot" \in conn.armed /\ body[disp.tx].slot = 1 => body'[disp.tx].slot = 1
  <2> PICK t : t = disp.tx
    OBVIOUS
  <2>0. t # None => t \in Req
    BY <1>1
  <2>1. CASE ConsumerChunk(r)
    <3>1. ~woken /\ "slot" \notin conn.armed /\ conn' = conn /\ body' = [body EXCEPT ![r].slot = 0]
      BY <1>1, <1>5, <2>1, FireIdle DEF ConsumerChunk
    <3>2. t # None => body'[t].rx = body[t].rx
      BY <1>1, <2>0, <3>1 DEF BodyRec
    <3> QED  BY <3>1, <3>2
  <2>2. CASE ConsumerEnd(r)
    <3> PICK k : k = IF body[r].tx = "clean" THEN "ended" ELSE "failed"
      OBVIOUS
    <3>1. ~woken /\ conn' = conn /\ body' = [body EXCEPT ![r].rx = k]
      BY <1>5, <2>2 DEF ConsumerEnd
    <3>2. k # "dropped"
      OBVIOUS
    <3>3. t # None => body'[t].slot = body[t].slot /\ (body[t].rx # "dropped" => body'[t].rx # "dropped")
      BY <1>1, <2>0, <3>1, <3>2 DEF BodyRec
    <3> QED  BY <3>1, <3>3
  <2>3. CASE ConsumerLeaves(r)
    <3>1. body' = [body EXCEPT ![r].rx = "dropped"]
      BY <2>3 DEF ConsumerLeaves
    <3>2. ~woken /\ conn' = conn /\ (t = r => "closed" \notin conn.armed)
      BY <1>1, <1>5, <2>3, FireIdle DEF ConsumerLeaves
    <3>3. t # None => body'[t].slot = body[t].slot /\ (t # r => body'[t] = body[t])
      BY <1>1, <2>0, <3>1 DEF BodyRec
    <3> QED  BY <3>2, <3>3
  <2> QED  BY <2>1, <2>2, <2>3 DEF ConsumerStep
<1>6. ~woken' => Calm(disp, conn, body', Listening) /\ conn' = conn
  BY <1>1, <1>2, <1>5, CalmConsumer
<1> QED  BY <1>0, <1>1, <1>4, <1>6 DEF WakeInv

\* Where nothing has been polled yet, nothing is claimed.
LEMMA CalmElsewhere ==
  ASSUME NEW d, NEW c, NEW b, NEW l,
         d.pc \notin {"readbody", "write", "want", "head", "flush", "finish", "parked"}
  PROVE  Calm(d, c, b, l)
BY DEF Calm

\* What a change of place leaves of the task.
LEMMA GoesTo ==
  ASSUME disp \in DispRec, NEW p, disp' = [disp EXCEPT !.pc = p]
  PROVE  /\ disp'.pc = p /\ disp'.again = disp.again /\ disp'.wready = disp.wready
         /\ disp'.closing = disp.closing /\ disp'.tx = disp.tx /\ disp'.rx = disp.rx
BY DEF DispRec

\* poll_read goes round again.
LEMMA ReadOnWake ==
  ASSUME disp'.pc = "read", ~disp'.again, disp'.closing => conn'.reading = "Closed"
  PROVE  WakeInv'
<1>1. Flow(disp', conn')
  BY DEF Flow
<1>2. Calm(disp', conn', body', Listening')
  BY CalmElsewhere
<1> QED  BY <1>1, <1>2 DEF WakeInv

\* poll_read returns: it has found nothing more to do.
LEMMA ReadReturnsWake ==
  ASSUME disp \in DispRec, ~disp.again, disp' = [disp EXCEPT !.pc = "write"],
         disp.closing => conn'.reading = "Closed",
         ~woken' => AtRest(conn', disp.tx, body', Listening')
  PROVE  WakeInv'
<1>1. disp'.pc = "write" /\ ~disp'.again /\ disp'.closing = disp.closing /\ disp'.tx = disp.tx
  BY GoesTo
<1>2. Flow(disp', conn')
  BY <1>1 DEF Flow
<1>3. ~woken' => Calm(disp', conn', body', Listening')
  BY <1>1 DEF Calm
<1> QED  BY <1>2, <1>3 DEF WakeInv

\* poll_read with no body to read.
LEMMA ReadHeadWake ==
  ASSUME DInv, WakeInv,
         \/ ReadClosing \/ ReadHeadUnwanted \/ ReadHeadPending \/ ReadKeepAlive
         \/ \E r \in Req : ReadHead(r) \/ ReadHeadError(r)
  PROVE  WakeInv'
<1>0. disp.pc = "read" /\ woken' = woken
  BY DEF ReadClosing, ReadHeadUnwanted, ReadHeadPending, ReadKeepAlive, ReadHead, ReadHeadError, Local
<1>1. /\ ConnOK(conn) /\ disp \in DispRec /\ Flow(disp, conn)
  BY DEF DInv, WakeInv
<1>2. ~disp.again /\ (disp.closing => conn.reading = "Closed")
  BY <1>0, <1>1 DEF Flow
<1>3. CASE ReadClosing
  <2>1. conn' = conn /\ disp' = [disp EXCEPT !.pc = "write"] /\ conn.reading = "Closed"
    BY <1>2, <1>3 DEF ReadClosing
  <2>2. AtRest(conn', disp.tx, body', Listening')
    BY <2>1, ClosedAtRest
  <2> QED  BY <1>1, <1>2, <2>1, <2>2, ReadReturnsWake
<1>4. CASE ReadHeadUnwanted \/ \E r \in Req : ReadHeadError(r)
  <2>1. /\ disp' = [disp EXCEPT !.closing = TRUE]
        /\ conn' = Close(conn) \/ conn' = Close(ParseHead(conn).c)
    BY <1>4 DEF ReadHeadUnwanted, ReadHeadError
  <2>2. ConnOK(ParseHead(conn).c)
    BY <1>1, ParseHeadOK
  <2>3. conn'.reading = "Closed"
    BY <1>1, <2>1, <2>2, CloseOK
  <2>4. disp'.pc = "read" /\ ~disp'.again
    BY <1>0, <1>1, <1>2, <2>1 DEF DispRec
  <2> QED  BY <2>3, <2>4, ReadOnWake
<1>5. CASE ReadHeadPending
  <2> PICK p : p = ParseHead(conn)
    OBVIOUS
  <2>1. /\ conn' = Arm(p.c, "cancel") /\ p.how = "pending" /\ CanReadHead(conn)
        /\ disp' = [disp EXCEPT !.pc = "write"] /\ ~disp.closing /\ Listening'
    BY <1>5 DEF ReadHeadPending, Listening, Channel, vars
  <2>2. ConnOK(p.c) /\ SameState(conn, p.c) /\ Polled(p.c) /\ p.c \in ConnRec
    BY <1>1, <2>1, ParseHeadOK, ParseHeadPolls DEF ConnOK
  <2>3. SameIo(p.c, conn') /\ "cancel" \in conn'.armed
    BY <2>1, <2>2, ArmIo
  <2>4. SameState(p.c, conn')
    BY <2>1, <2>2, ArmOK DEF Wakers
  <2>5. Polled(conn')
    BY <2>2, <2>3 DEF SameIo, Polled
  <2>6. conn'.reading = "Init" /\ conn'.writing # "Init"
    BY <2>1, <2>2, <2>4 DEF SameState, CanReadHead
  <2>7. AtRest(conn', disp.tx, body', Listening')
    BY <2>1, <2>3, <2>5, <2>6 DEF AtRest, CanReadBody, IsMidMessage
  <2> QED  BY <1>1, <1>2, <2>1, <2>7, ReadReturnsWake
<1>6. ASSUME NEW r \in Req, ReadHead(r)
      PROVE  WakeInv'
  <2>1. ~disp.closing /\ (disp' = disp \/ disp' = [disp EXCEPT !.tx = r])
    BY <1>6 DEF ReadHead
  <2>2. disp'.pc = "read" /\ ~disp'.again /\ ~disp'.closing
    BY <1>0, <1>1, <1>2, <2>1 DEF DispRec
  <2> QED  BY <2>2, ReadOnWake
<1>7. CASE ReadKeepAlive
  <2> PICK k : k = PollReadKeepAlive(conn)
    OBVIOUS
  <2>1. /\ conn' = k.c /\ ~disp.closing /\ ~CanReadHead(conn) /\ disp.tx = None
        /\ disp' = [disp EXCEPT !.pc = IF k.how = "ok" THEN "write" ELSE "err"]
    BY <1>7 DEF ReadKeepAlive
  <2>2. CASE k.how = "ok"
    <3>1. \/ k.c.reading = "Closed"
          \/ SameState(conn, k.c) /\ (Polled(k.c) \/ (IsMidMessage(conn) /\ k.c.rbuf # <<>>))
      BY <1>1, <2>2, PollReadKeepAlivePolls
    <3>2. AtRest(k.c, None, body', Listening')
      <4>1. CASE k.c.reading = "Closed"
        BY <4>1, ClosedAtRest
      <4>2. CASE k.c.reading # "Closed"
        <5>1. ~CanReadHead(k.c) /\ (~IsMidMessage(k.c) => ~IsMidMessage(conn))
          BY <2>1, <3>1, <4>2 DEF SameState, CanReadHead, IsMidMessage
        <5> QED  BY <3>1, <4>2, <5>1 DEF AtRest
      <4> QED  BY <4>1, <4>2
    <3>3. disp' = [disp EXCEPT !.pc = "write"]
      BY <2>1, <2>2
    <3> QED  BY <1>1, <1>2, <2>1, <3>2, <3>3, ReadReturnsWake
  <2>3. CASE k.how # "ok"
    <3>1. disp' = [disp EXCEPT !.pc = "err"]
      BY <2>1, <2>3
    <3>2. disp'.pc = "err" /\ ~disp'.closing
      BY <1>1, <2>1, <3>1 DEF DispRec
    <3>3. Flow(disp', conn')
      BY <3>2 DEF Flow
    <3>4. Calm(disp', conn', body', Listening')
      BY <3>2, CalmElsewhere
    <3> QED  BY <3>3, <3>4 DEF WakeInv
  <2> QED  BY <2>2, <2>3
<1> QED  BY <1>3, <1>4, <1>5, <1>6, <1>7

\* poll_read in the middle of a body.
LEMMA ReadBodyWake ==
  ASSUME DInv, WakeInv,
         ReadBodyDone \/ ReadBodyFull \/ ReadBodyUnwanted \/ ReadBodyReady \/ ReadBodyFrame
  PROVE  WakeInv'
<1>0. woken' = woken /\ disp.pc \in {"read", "readbody"} /\ Listening' = Listening
  BY DEF ReadBodyDone, ReadBodyFull, ReadBodyUnwanted, ReadBodyReady, ReadBodyFrame, ReadingBody,
         Local, Channel, vars, Listening
<1>1. /\ ConnOK(conn) /\ conn \in ConnRec /\ disp \in DispRec /\ Flow(disp, conn)
      /\ ~woken => Calm(disp, conn, body, Listening)
      /\ disp.pc = "readbody" => disp.tx # None /\ conn.reading = "Body"
  BY DEF DInv, WakeInv, ConnOK, Link
<1>2. ~disp.again /\ ~disp.closing
  <2>1. ~disp.again /\ (disp.closing => conn.reading = "Closed")
    BY <1>0, <1>1 DEF Flow
  <2>2. disp.pc = "read" => ~disp.closing
    BY DEF ReadBodyDone, ReadBodyFull, ReadBodyUnwanted, ReadBodyReady, ReadBodyFrame, ReadingBody
  <2> QED  BY <1>0, <1>1, <2>1, <2>2
<1>3. CASE ReadBodyDone \/ ReadBodyUnwanted
  <2>1. disp' = [disp EXCEPT !.tx = None] /\ disp.pc = "read"
    BY <1>3 DEF ReadBodyDone, ReadBodyUnwanted, ReadingBody
  <2>2. disp'.pc = "read" /\ ~disp'.again /\ ~disp'.closing
    BY <1>1, <1>2, <2>1 DEF DispRec
  <2> QED  BY <2>2, ReadOnWake
<1>4. CASE ReadBodyFull
  <2> PICK c : c = Arm(conn, "slot")
    OBVIOUS
  <2>1. /\ conn' = Arm(c, "closed") /\ conn.reading = "Body" /\ disp' = [disp EXCEPT !.pc = "write"]
        /\ body[disp.tx].rx # "dropped" /\ body[disp.tx].slot = 1 /\ body' = body
    BY <1>4 DEF ReadBodyFull, CanReadBody, Local
  <2>2. SameState(conn, c) /\ ConnOK(c) /\ c \in ConnRec /\ "slot" \in c.armed
    BY <1>1, ArmOK, ArmIo DEF Wakers, ConnOK
  <2>3. SameState(c, conn') /\ SameIo(c, conn') /\ "closed" \in conn'.armed
    BY <2>1, <2>2, ArmOK, ArmIo DEF Wakers
  <2>4. conn'.reading = "Body" /\ "slot" \in conn'.armed
    BY <2>1, <2>2, <2>3 DEF SameState, SameIo
  <2>5. AtRest(conn', disp.tx, body', Listening')
    BY <2>1, <2>3, <2>4 DEF AtRest, CanReadHead, IsMidMessage
  <2> QED  BY <1>1, <1>2, <2>1, <2>5, ReadReturnsWake
<1>5. CASE ReadBodyReady
  <2>1. /\ conn' = Arm(conn, "closed") /\ disp' = [disp EXCEPT !.pc = "readbody"]
        /\ body[disp.tx].rx # "dropped" /\ body' = body
    BY <1>5 DEF ReadBodyReady, Local
  <2>2. "closed" \in conn'.armed
    BY <1>1, <2>1, ArmIo
  <2>3. disp'.pc = "readbody" /\ ~disp'.again /\ ~disp'.closing /\ disp'.tx = disp.tx
    BY <1>1, <1>2, <2>1, GoesTo
  <2>4. Flow(disp', conn')
    BY <2>3 DEF Flow
  <2>5. Calm(disp', conn', body', Listening')
    BY <2>1, <2>2, <2>3 DEF Calm
  <2> QED  BY <2>4, <2>5 DEF WakeInv
<1>6. CASE ReadBodyFrame
  <2> PICK d : d = PollReadBody(conn)
    OBVIOUS
  <2>1. disp.pc = "readbody" /\ conn.reading = "Body"
    BY <1>1, <1>6 DEF ReadBodyFrame
  <2>2. CASE d.how = "pending"
    <3>1. conn' = d.c /\ body' = body /\ disp' = [disp EXCEPT !.pc = "write"]
      BY <1>6, <2>2 DEF ReadBodyFrame
    <3>2. Polled(d.c) /\ SameState(conn, d.c) /\ SameIo(conn, d.c)
      BY <1>1, <2>1, <2>2, PollReadBodyPolls
    <3>3. ~woken => body[disp.tx].rx # "dropped" /\ "closed" \in d.c.armed
      BY <1>1, <2>1, <3>2 DEF Calm, SameIo
    <3>4. d.c.reading = "Body"
      BY <2>1, <3>2 DEF SameState
    <3>5. ~woken => AtRest(d.c, disp.tx, body, Listening')
      BY <3>2, <3>3, <3>4 DEF AtRest, CanReadHead, IsMidMessage
    <3> QED  BY <1>0, <1>1, <1>2, <3>1, <3>5, ReadReturnsWake
  <2>3. CASE d.how # "pending"
    <3>1. disp' = [disp EXCEPT !.pc = "read"] \/ disp' = [disp EXCEPT !.pc = "read", !.tx = None]
      BY <1>6, <2>3 DEF ReadBodyFrame
    <3>2. disp'.pc = "read" /\ ~disp'.again /\ ~disp'.closing
      BY <1>1, <1>2, <3>1 DEF DispRec
    <3> QED  BY <3>2, ReadOnWake
  <2> QED  BY <2>2, <2>3
<1> QED  BY <1>3, <1>4, <1>5, <1>6

\* Where poll_write returns to, and what it leaves of the task.
LEMMA ReturnsTo ==
  ASSUME disp \in DispRec, NEW b \in BOOLEAN
  PROVE  /\ Returns(b).pc = IF ~disp.again THEN "flush" ELSE IF b THEN "loop" ELSE "finish"
         /\ Returns(b).again = disp.again /\ Returns(b).wready = b /\ Returns(b).closing = disp.closing
         /\ Returns(b).tx = disp.tx /\ Returns(b).rx = disp.rx /\ Returns(b) \in DispRec
<1> DEFINE p == CASE ~disp.again -> "flush"
                  [] disp.again /\ b -> "loop"
                  [] OTHER -> "finish"
<1>1. Returns(b) = [disp EXCEPT !.wready = b, !.pc = p]
  BY DEF Returns
<1>2. p = IF ~disp.again THEN "flush" ELSE IF b THEN "loop" ELSE "finish"
  OBVIOUS
<1>3. p \in Parts
  BY DEF Parts
<1> HIDE DEF p
<1>4. /\ Returns(b).pc = p /\ Returns(b).again = disp.again /\ Returns(b).wready = b
      /\ Returns(b).closing = disp.closing /\ Returns(b).tx = disp.tx /\ Returns(b).rx = disp.rx
      /\ Returns(b) \in DispRec
  BY <1>1, <1>3 DEF DispRec
<1> QED  BY <1>2, <1>4

\* poll_write goes round again.
LEMMA WriteOnWake ==
  ASSUME disp'.pc = "write", ~disp'.closing,
         ~woken' => ~disp'.again /\ (conn'.notify \/ AtRest(conn', disp'.tx, body', Listening'))
  PROVE  WakeInv'
<1>1. Flow(disp', conn')
  BY DEF Flow
<1>2. ~woken' => Calm(disp', conn', body', Listening')
  BY DEF Calm
<1> QED  BY <1>1, <1>2 DEF WakeInv

\* poll_write returns ready only when the dispatcher is closing, and pending
\* only when there is no body to write, or a waker for it.
LEMMA WriteReturnsWake ==
  ASSUME NEW b \in BOOLEAN,
         disp'.pc = IF ~disp'.again THEN "flush" ELSE IF b THEN "loop" ELSE "finish",
         disp'.wready = b, b => disp'.closing, disp'.closing => conn'.reading = "Closed",
         ~woken' /\ ~disp'.again =>
           /\ conn'.notify \/ AtRest(conn', disp'.tx, body', Listening')
           /\ BodyWaits(disp', conn') \/ Stuck(conn'),
         ~woken' /\ disp'.again /\ ~b =>
           /\ AtRest(conn', disp'.tx, body', Listening') /\ Drained(conn')
           /\ BodyWaits(disp', conn')
  PROVE  WakeInv'
<1>1. CASE ~disp'.again
  <2>1. disp'.pc = "flush"
    BY <1>1
  <2>2. Flow(disp', conn')
    BY <1>1, <2>1 DEF Flow
  <2>3. ~woken' => Calm(disp', conn', body', Listening')
    BY <1>1, <2>1 DEF Calm
  <2> QED  BY <2>2, <2>3 DEF WakeInv
<1>2. CASE disp'.again /\ b
  <2>1. disp'.pc = "loop"
    BY <1>2
  <2>2. Flow(disp', conn')
    BY <2>1 DEF Flow
  <2>3. Calm(disp', conn', body', Listening')
    BY <2>1, CalmElsewhere
  <2> QED  BY <2>2, <2>3 DEF WakeInv
<1>3. CASE disp'.again /\ ~b
  <2>1. disp'.pc = "finish"
    BY <1>3
  <2>2. Flow(disp', conn')
    BY <2>1 DEF Flow
  <2>3. ~woken' => Calm(disp', conn', body', Listening')
    BY <1>3, <2>1 DEF Calm
  <2> QED  BY <2>2, <2>3 DEF WakeInv
<1> QED  BY <1>1, <1>2, <1>3

\* Leaving the poll for good.
LEMMA ErrWake ==
  ASSUME disp'.pc \in {"loop", "err", "ended", "close2", "close3", "drop", "gone"},
         disp'.closing => conn'.reading = "Closed"
  PROVE  WakeInv'
<1>1. Flow(disp', conn')
  BY DEF Flow
<1>2. Calm(disp', conn', body', Listening')
  BY CalmElsewhere
<1> QED  BY <1>1, <1>2 DEF WakeInv

\* The second poll_write of a round finds the body still waiting.
LEMMA SecondWrite ==
  ASSUME DInv, WakeInv, ~woken, disp.pc = "write", disp.again
  PROVE  /\ ~disp.closing /\ ~WantsMsg /\ CanBufferBody(conn) /\ disp.rx # None /\ CanWriteBody(conn)
         /\ "frame" \in conn.armed
<1>1. /\ ~disp.closing /\ disp.rx # None /\ CanWriteBody(conn) /\ "frame" \in conn.armed
      /\ conn.wh + conn.wq = 0
  BY DEF WakeInv, Calm
<1>2. CanBufferBody(conn)
  BY <1>1, ConnAssumption DEF CanBufferBody
<1> QED  BY <1>1, <1>2 DEF WantsMsg

\* poll_write between messages.
LEMMA TakeWake ==
  ASSUME DInv, WakeInv, WriteClosing \/ WriteMsg \/ WriteMsgEmpty \/ WriteMsgWant \/ WriteMsgEnd
  PROVE  WakeInv'
<1>0. woken' = woken /\ body' = body /\ disp.pc \in {"write", "want"}
  BY DEF WriteClosing, WriteMsg, WriteMsgEmpty, WriteMsgWant, WriteMsgEnd, Local
<1>1. /\ ConnOK(conn) /\ conn \in ConnRec /\ disp \in DispRec /\ Flow(disp, conn)
      /\ ~woken => Calm(disp, conn, body, Listening)
  BY DEF DInv, WakeInv, ConnOK
<1>2. disp.closing => conn.reading = "Closed"
  BY <1>1 DEF Flow
<1>3. /\ \A b \in BOOLEAN :
           /\ Returns(b).pc = IF ~disp.again THEN "flush" ELSE IF b THEN "loop" ELSE "finish"
           /\ Returns(b).again = disp.again /\ Returns(b).wready = b /\ Returns(b).closing = disp.closing
           /\ Returns(b).tx = disp.tx /\ Returns(b).rx = disp.rx /\ Returns(b) \in DispRec
  BY <1>1, ReturnsTo
<1>4. WantsMsg => conn.reading = "Init" /\ conn.writing = "Init"
  BY <1>1 DEF WantsMsg, CanWriteHead, ConnOK
<1>5. disp.pc = "write" /\ WantsMsg /\ ~woken => ~disp.again
  BY SecondWrite
<1>6. ~woken /\ ~disp.again => conn.notify \/ AtRest(conn, disp.tx, body, Listening)
  BY <1>0, <1>1 DEF Calm
<1>7. ASSUME conn'.reading = "Closed", disp'.closing, disp'.again = disp.again, disp'.wready = TRUE,
             disp'.pc = Returns(TRUE).pc
      PROVE  WakeInv'
  <2>1. AtRest(conn', disp'.tx, body', Listening')
    BY <1>7, ClosedAtRest
  <2>2. BodyWaits(disp', conn')
    BY <1>7 DEF BodyWaits
  <2>3. disp'.pc = IF ~disp'.again THEN "flush" ELSE IF TRUE THEN "loop" ELSE "finish"
    BY <1>3, <1>7
  <2> QED  BY <1>7, <2>1, <2>2, <2>3, WriteReturnsWake
<1>8. CASE WriteClosing
  <2>1. disp' = Returns(TRUE) /\ disp.closing /\ conn' = conn
    BY <1>8 DEF WriteClosing
  <2> QED  BY <1>2, <1>3, <1>7, <2>1
<1>9. ASSUME conn' = Close(conn), disp' = [Returns(TRUE) EXCEPT !.closing = TRUE]
      PROVE  WakeInv'
  <2> PICK k : k = Returns(TRUE)
    OBVIOUS
  <2>1. k \in DispRec /\ k.again = disp.again /\ k.wready = TRUE
    BY <1>3
  <2>2. disp'.closing /\ disp'.again = k.again /\ disp'.wready = k.wready /\ disp'.pc = k.pc
    BY <1>9, <2>1 DEF DispRec
  <2>3. conn'.reading = "Closed"
    BY <1>1, <1>9, CloseOK
  <2> QED  BY <1>7, <2>1, <2>2, <2>3
<1>10. CASE WriteMsgEnd
  BY <1>9, <1>10 DEF WriteMsgEnd
<1>11. CASE WriteMsg
  <2>1. CASE held' # {} /\ conn' = Arm(conn, "cancel") /\ disp' = [disp EXCEPT !.pc = "head"]
    <3>1. Listening'
      <4>1. held = {} /\ RecvItem
        BY <1>11 DEF WriteMsg, WantsMsg
      <4>2. held' = held \cup {Head(queue)} /\ promise[Head(queue)] = "pending" /\ promise' = promise
        BY <2>1, <4>1 DEF RecvItem
      <4> QED  BY <4>2 DEF Listening
    <3>2. SameIo(conn, conn') /\ "cancel" \in conn'.armed
      BY <1>1, <2>1, ArmIo
    <3>3. SameState(conn, conn')
      BY <1>1, <2>1, ArmOK DEF Wakers
    <3>4. /\ disp.pc = "write" /\ ~disp.closing /\ WantsMsg
      BY <1>11 DEF WriteMsg
    <3>5. disp'.pc = "head" /\ disp'.again = disp.again /\ disp'.closing = disp.closing /\ disp'.tx = disp.tx
      BY <1>1, <2>1, GoesTo
    <3>6. ~woken => conn'.notify \/ AtRest(conn', disp.tx, body, Listening')
      <4>1. ~CanReadHead(conn)
        BY <1>4, <3>4 DEF CanReadHead
      <4>2. AtRest(conn, disp.tx, body, Listening) => AtRest(conn, disp.tx, body, Listening')
        BY <4>1 DEF AtRest
      <4>3. AtRest(conn, disp.tx, body, Listening) => AtRest(conn', disp.tx, body, Listening')
        BY <3>2, <3>3, <4>2, SameAtRest
      <4> QED  BY <1>5, <1>6, <3>2, <3>4, <4>3 DEF SameIo
    <3>7. Flow(disp', conn')
      BY <3>4, <3>5 DEF Flow
    <3>8. ~woken' => Calm(disp', conn', body', Listening')
      BY <1>0, <1>5, <3>1, <3>2, <3>4, <3>5, <3>6 DEF Calm
    <3> QED  BY <3>7, <3>8 DEF WakeInv
  <2> QED  BY <1>9, <1>11, <2>1 DEF WriteMsg
<1>12. CASE WriteMsgEmpty
  <2>1. /\ disp.pc = "write" /\ ~disp.closing /\ WantsMsg /\ conn' = Arm(conn, "recv")
        /\ disp' = [disp EXCEPT !.pc = "want"] /\ Listening' = Listening
    BY <1>12 DEF WriteMsgEmpty, RecvEmpty, Listening
  <2>2. SameIo(conn, conn') /\ SameState(conn, conn')
    BY <1>1, <2>1, ArmIo, ArmOK DEF Wakers
  <2>3. /\ disp'.pc = "want" /\ disp'.again = disp.again /\ disp'.closing = disp.closing
        /\ disp'.tx = disp.tx /\ disp'.rx = None
    BY <1>1, <2>1, GoesTo DEF WantsMsg
  <2>4. ~woken => conn'.notify \/ AtRest(conn', disp.tx, body, Listening)
    BY <1>5, <1>6, <2>1, <2>2, SameAtRest DEF SameIo
  <2>5. Flow(disp', conn')
    BY <2>1, <2>3 DEF Flow
  <2>6. ~woken' => Calm(disp', conn', body', Listening')
    BY <1>0, <1>5, <2>1, <2>3, <2>4 DEF Calm
  <2> QED  BY <2>5, <2>6 DEF WakeInv
<1>13. CASE WriteMsgWant
  <2>1. disp.pc = "want" /\ disp' = Returns(FALSE) /\ conn' = conn /\ Listening' = Listening
    BY <1>13 DEF WriteMsgWant, RecvWant, Listening
  <2>2. disp.rx = None /\ (~woken => ~disp.again)
    BY <1>1, <2>1 DEF Flow, Calm
  <2>3. /\ disp'.pc = IF ~disp'.again THEN "flush" ELSE IF FALSE THEN "loop" ELSE "finish"
        /\ disp'.again = disp.again /\ disp'.wready = FALSE /\ disp'.closing = disp.closing
        /\ disp'.tx = disp.tx /\ disp'.rx = None
    BY <1>3, <2>1, <2>2
  <2>4. BodyWaits(disp', conn')
    BY <2>3 DEF BodyWaits
  <2> QED  BY <1>0, <1>2, <1>6, <2>1, <2>2, <2>3, <2>4, WriteReturnsWake
<1> QED  BY <1>8, <1>10, <1>11, <1>12, <1>13

\* A request head is written: its caller listens, and nothing is there to read.
LEMMA WriteHeadWake ==
  ASSUME DInv, WakeInv, NEW r \in Req, WriteHeadOf(r)
  PROVE  WakeInv'
<1>0. woken' = woken /\ body' = body /\ Listening' = Listening /\ disp.pc = "head"
  BY DEF WriteHeadOf, Serialize, Local, Listening
<1>1. /\ ConnOK(conn) /\ conn \in ConnRec /\ disp \in DispRec /\ Flow(disp, conn)
      /\ ~woken => Calm(disp, conn, body, Listening)
  BY DEF DInv, WakeInv, ConnOK
<1>2. conn.reading = "Init" /\ conn.writing = "Init" /\ ~disp.closing
  BY <1>0, <1>1 DEF DInv, Link, Flow
<1>3. ~woken => /\ ~disp.again /\ Listening /\ "cancel" \in conn.armed
                /\ conn.notify \/ Polled(conn)
  BY <1>0, <1>1, <1>2 DEF Calm, AtRest, IsMidMessage
<1> PICK c : c = Disarm(conn, {"frame"})
  OBVIOUS
<1>4. ConnOK(c) /\ c.reading = "Init" /\ c.writing = "Init"
  BY <1>1, <1>2, DisarmOK DEF SameState
<1>5. /\ c.rbuf = conn.rbuf /\ c.in = conn.in /\ c.peer = conn.peer /\ c.notify = conn.notify
      /\ c.armed = conn.armed \ {"frame"}
  BY <1>1 DEF Disarm, ConnRec
<1>6. PICK f \in {"length", "chunked"}, n \in Nat : conn' \in WriteHead(c, [enc |-> f, len |-> n])
  <2>1. PICK e \in Encoders(r) : conn' \in WriteHead(c, e)
    BY DEF WriteHeadOf, Disarm
  <2>2. \E f \in {"length", "chunked"}, n \in {ReqLen, 0} : e = [enc |-> f, len |-> n]
    BY DEF Encoders
  <2>3. ReqLen \in Nat
    BY ConnAssumption
  <2> QED  BY <2>1, <2>2, <2>3
<1>7. conn'.reading = "Init" /\ conn'.writing # "Init"
  BY <1>4, <1>6, WriteHeadOK DEF Writes
<1>8. SameIo(c, conn')
  BY <1>4, <1>6, WriteHeadIo
<1>9. ~woken => "cancel" \in conn'.armed /\ (conn'.notify \/ Polled(conn'))
  BY <1>3, <1>5, <1>8 DEF SameIo, Polled
<1>10. ~woken => conn'.notify \/ AtRest(conn', disp.tx, body, Listening)
  BY <1>3, <1>7, <1>9 DEF AtRest, CanReadBody, IsMidMessage
<1>11. disp'.pc = "write" /\ disp'.tx = disp.tx /\ disp'.again = disp.again /\ disp'.closing = disp.closing
  <2> PICK x : x = IF r \in Sized \cup Streamed THEN r ELSE None
    OBVIOUS
  <2>1. disp' = [disp EXCEPT !.pc = "write", !.frames = 0, !.rx = x]
    BY DEF WriteHeadOf
  <2> QED  BY <1>1, <2>1 DEF DispRec
<1> QED  BY <1>0, <1>2, <1>3, <1>10, <1>11, WriteOnWake

\* poll_write with no room in the buffer.
LEMMA WriteFullWake ==
  ASSUME DInv, WakeInv, WriteFull
  PROVE  WakeInv'
<1>0. woken' = woken /\ body' = body /\ Listening' = Listening /\ disp.pc = "write" /\ ~disp.closing
  BY DEF WriteFull, Local, Channel, vars, Listening
<1>1. /\ ConnOK(conn) /\ disp \in DispRec
      /\ ~woken => Calm(disp, conn, body, Listening)
  BY DEF DInv, WakeInv
<1>2. ~woken => ~disp.again
  BY <1>0, SecondWrite DEF WriteFull
<1>3. ~woken => conn.notify \/ AtRest(conn, disp.tx, body, Listening)
  BY <1>0, <1>1, <1>2 DEF Calm
<1>4. PICK f \in PollFlush(conn) :
        /\ conn' = f.c
        /\ disp' = CASE f.how = "ready"   -> disp
                     [] f.how = "pending" -> Returns(FALSE)
                     [] f.how = "err"     -> [disp EXCEPT !.pc = "err"]
  BY DEF WriteFull
<1>5. f.how \in {"ready", "pending", "err"}
  BY <1>1, PollFlushOK
<1>6. ~woken => conn'.notify \/ AtRest(conn', disp.tx, body, Listening)
  <2>1. Tells(conn, conn')
    BY <1>1, <1>4, PollFlushIo
  <2> QED  BY <1>3, <2>1, ToldAtRest
<1>7. CASE f.how = "ready"
  <2>1. disp' = disp
    BY <1>4, <1>7
  <2> QED  BY <1>0, <1>2, <1>6, <2>1, WriteOnWake
<1>8. CASE f.how = "pending"
  <2>1. disp' = Returns(FALSE)
    BY <1>4, <1>8
  <2>2. Stuck(conn')
    BY <1>1, <1>4, <1>8, PollFlushIo
  <2>3. /\ disp'.pc = IF ~disp'.again THEN "flush" ELSE IF FALSE THEN "loop" ELSE "finish"
        /\ disp'.again = disp.again /\ disp'.wready = FALSE /\ ~disp'.closing /\ disp'.tx = disp.tx
    BY <1>0, <1>1, <2>1, ReturnsTo
  <2> QED  BY <1>0, <1>2, <1>6, <2>2, <2>3, WriteReturnsWake
<1>9. CASE f.how = "err"
  <2>1. disp' = [disp EXCEPT !.pc = "err"]
    BY <1>4, <1>9
  <2>2. disp'.pc = "err" /\ ~disp'.closing
    BY <1>0, <1>1, <2>1, GoesTo
  <2> QED  BY <2>2, ErrWake
<1> QED  BY <1>5, <1>7, <1>8, <1>9

\* poll_write goes on after a part of the request body.
LEMMA WroteWake ==
  ASSUME DInv, WakeInv, WritingBody, CanWriteBody(conn), "frame" \notin conn.armed,
         woken' = woken, body' = body, Listening' = Listening,
         Writes(conn, conn'), SameIo(conn, conn'),
         disp'.pc \in {"write", "err"}, disp'.again = disp.again, disp'.closing = disp.closing,
         disp'.tx = disp.tx
  PROVE  WakeInv'
<1>1. disp.pc = "write" /\ ~disp.closing /\ conn.writing = "Body"
  BY DEF WritingBody, CanWriteBody
<1>2. ~woken => ~disp.again
  BY <1>1, SecondWrite
<1>3. ~woken => conn.notify \/ AtRest(conn, disp.tx, body, Listening)
  BY <1>1, <1>2 DEF WakeInv, Calm
<1>4. conn'.reading = conn.reading /\ conn'.writing # "Init" /\ conn'.notify = conn.notify
  BY DEF Writes, SameIo
<1>5. ~woken => conn'.notify \/ AtRest(conn', disp.tx, body, Listening)
  BY <1>1, <1>3, <1>4, WritesAtRest
<1>6. disp'.pc = "write" => WakeInv'
  BY <1>1, <1>2, <1>5, WriteOnWake
<1>7. disp'.pc = "err" => WakeInv'
  BY <1>1, ErrWake
<1> QED  BY <1>6, <1>7

\* poll_write with a request body.
LEMMA WriteBodyWake ==
  ASSUME DInv, WakeInv,
         \/ WriteBodyRefused \/ WriteBodyPending
         \/ \E n \in FrameSizes : WriteBodyData(n) \/ WriteBodyLast(n)
         \/ WriteBodyTrailers \/ WriteBodyError \/ WriteBodyEnd
  PROVE  WakeInv'
<1>0. woken' = woken /\ body' = body /\ Listening' = Listening /\ WritingBody
  BY DEF WriteBodyRefused, WriteBodyPending, WriteBodyData, WriteBodyLast,
         WriteBodyTrailers, WriteBodyError, WriteBodyEnd, Local, Channel, vars, Listening
<1>1. /\ ConnOK(conn) /\ conn \in ConnRec /\ disp \in DispRec
      /\ ~woken => Calm(disp, conn, body, Listening)
  BY DEF DInv, WakeInv, ConnOK
<1>2. disp.pc = "write" /\ ~disp.closing /\ disp.rx # None
  BY <1>0 DEF WritingBody
<1>3. ~woken /\ ~disp.again => conn.notify \/ AtRest(conn, disp.tx, body, Listening)
  BY <1>1, <1>2 DEF Calm
<1>4. SameIo(conn, conn) /\ (CanWriteBody(conn) => Writes(conn, conn))
  BY <1>1 DEF SameIo, CanWriteBody, Writes
<1>5. ASSUME NEW p \in {"write", "err"}, disp' = [disp EXCEPT !.rx = None, !.pc = p]
      PROVE  /\ disp'.pc \in {"write", "err"} /\ disp'.again = disp.again
             /\ disp'.closing = disp.closing /\ disp'.tx = disp.tx
  BY <1>1, <1>5 DEF DispRec
<1>6. CASE WriteBodyRefused
  <2>1. disp' = [disp EXCEPT !.rx = None] /\ conn' = conn /\ ~CanWriteBody(conn)
    BY <1>6 DEF WriteBodyRefused
  <2>2. ~woken => ~disp.again
    BY <1>2, <2>1, SecondWrite
  <2>3. disp'.pc = "write" /\ ~disp'.closing /\ disp'.again = disp.again /\ disp'.tx = disp.tx
    BY <1>1, <1>2, <2>1 DEF DispRec
  <2> QED  BY <1>0, <1>3, <2>1, <2>2, <2>3, WriteOnWake
<1>7. CASE WriteBodyPending
  <2> PICK k : k = Returns(FALSE)
    OBVIOUS
  <2> PICK m : m = IF "frame" \in conn.armed THEN k.frames ELSE k.frames + 1
    OBVIOUS
  <2>1. conn' = Arm(conn, "frame") /\ disp' = [k EXCEPT !.frames = m]
    BY <1>7 DEF WriteBodyPending
  <2>2. /\ k \in DispRec /\ k.pc = IF ~disp.again THEN "flush" ELSE IF FALSE THEN "loop" ELSE "finish"
        /\ k.again = disp.again /\ k.wready = FALSE /\ k.closing = disp.closing /\ k.tx = disp.tx
    BY <1>1, ReturnsTo
  <2>3. /\ disp'.pc = IF ~disp'.again THEN "flush" ELSE IF FALSE THEN "loop" ELSE "finish"
        /\ disp'.again = disp.again /\ disp'.wready = FALSE /\ ~disp'.closing /\ disp'.tx = disp.tx
    BY <1>2, <2>1, <2>2 DEF DispRec
  <2>4. SameIo(conn, conn') /\ SameOut(conn, conn') /\ "frame" \in conn'.armed
    BY <1>1, <2>1, ArmIo
  <2>5. SameState(conn, conn')
    BY <1>1, <2>1, ArmOK DEF Wakers
  <2>6. BodyWaits(disp', conn')
    BY <2>4 DEF BodyWaits
  <2>7. AtRest(conn, disp.tx, body, Listening) => AtRest(conn', disp.tx, body, Listening)
    BY <2>4, <2>5, SameAtRest
  <2>8. conn'.notify = conn.notify
    BY <2>4 DEF SameIo
  <2>9. ~woken /\ disp.again => AtRest(conn', disp.tx, body, Listening) /\ Drained(conn')
    <3>1. ~woken /\ disp.again => AtRest(conn, disp.tx, body, Listening) /\ conn.wh + conn.wq = 0
      BY <1>1, <1>2 DEF Calm
    <3>2. conn'.wh = conn.wh /\ conn'.wq = conn.wq
      BY <2>4 DEF SameOut
    <3> QED  BY <2>7, <3>1, <3>2 DEF Drained
  <2> QED  BY <1>0, <1>3, <2>3, <2>6, <2>7, <2>8, <2>9, WriteReturnsWake
<1>8. ASSUME NEW n \in FrameSizes, WriteBodyData(n)
      PROVE  WakeInv'
  <2>1. /\ CanWriteBody(conn) /\ "frame" \notin conn.armed
        /\ disp' = [disp EXCEPT !.frames = @ + 1]
        /\ conn' = conn \/ conn' = WriteBody(conn, n)
    BY <1>8 DEF WriteBodyData
  <2>2. disp'.pc = "write" /\ disp'.again = disp.again /\ disp'.closing = disp.closing /\ disp'.tx = disp.tx
    BY <1>1, <1>2, <2>1 DEF DispRec
  <2>3. n \in Nat
    BY DispatcherAssumption
  <2>4. Writes(conn, conn')
    BY <1>1, <1>4, <2>1, <2>3, WriteBodyOK DEF CanWriteBody
  <2>5. SameIo(conn, conn')
    BY <1>1, <1>4, <2>1, <2>3, WriteBodyIo DEF CanWriteBody
  <2> QED  BY <1>0, <2>1, <2>2, <2>4, <2>5, WroteWake
<1>9. ASSUME NEW n \in FrameSizes, WriteBodyLast(n)
      PROVE  WakeInv'
  <2>1. /\ CanWriteBody(conn) /\ "frame" \notin conn.armed
        /\ conn' = EndBody(conn).c \/ conn' = WriteBodyAndEnd(conn, n)
        /\ \E p \in {"write", "err"} : disp' = [disp EXCEPT !.rx = None, !.pc = p]
    BY <1>2, <1>9 DEF WriteBodyLast
  <2>3. n \in Nat
    BY DispatcherAssumption
  <2>4. Writes(conn, conn')
    BY <1>1, <2>1, <2>3, EndBodyOK, WriteBodyAndEndOK DEF CanWriteBody
  <2>5. SameIo(conn, conn')
    BY <1>1, <2>1, <2>3, WriteBodyIo DEF CanWriteBody
  <2> QED  BY <1>0, <1>5, <2>1, <2>4, <2>5, WroteWake
<1>10. CASE WriteBodyTrailers
  <2>1. /\ CanWriteBody(conn) /\ "frame" \notin conn.armed /\ conn' \in WriteTrailers(conn)
        /\ disp' = [disp EXCEPT !.rx = None]
    BY <1>10 DEF WriteBodyTrailers
  <2>2. disp'.pc = "write" /\ disp'.again = disp.again /\ disp'.closing = disp.closing /\ disp'.tx = disp.tx
    BY <1>1, <1>2, <2>1 DEF DispRec
  <2>4. Writes(conn, conn')
    BY <1>1, <2>1, WriteTrailersOK DEF CanWriteBody
  <2>5. SameIo(conn, conn')
    BY <1>1, <2>1, WriteBodyIo DEF CanWriteBody
  <2> QED  BY <1>0, <2>1, <2>2, <2>4, <2>5, WroteWake
<1>11. CASE WriteBodyError
  <2>1. disp' = [disp EXCEPT !.rx = None, !.pc = "err"]
    BY <1>11 DEF WriteBodyError
  <2>2. disp'.pc = "err" /\ ~disp'.closing
    BY <1>1, <1>2, <2>1 DEF DispRec
  <2> QED  BY <2>2, ErrWake
<1>12. CASE WriteBodyEnd
  <2>1. /\ CanWriteBody(conn) /\ "frame" \notin conn.armed /\ conn' = EndBody(conn).c
        /\ \E p \in {"write", "err"} : disp' = [disp EXCEPT !.rx = None, !.pc = p]
    BY <1>2, <1>12 DEF WriteBodyEnd
  <2>4. Writes(conn, conn')
    BY <1>1, <2>1, EndBodyOK DEF CanWriteBody
  <2>5. SameIo(conn, conn')
    BY <1>1, <2>1, WriteBodyIo DEF CanWriteBody
  <2> QED  BY <1>0, <1>5, <2>1, <2>4, <2>5, WroteWake
<1> QED  BY <1>6, <1>7, <1>8, <1>9, <1>10, <1>11, <1>12

\* poll_write with no request body.
LEMMA WriteNoBodyWake ==
  ASSUME DInv, WakeInv, WriteNoBody
  PROVE  WakeInv'
<1>0. /\ woken' = woken /\ body' = body /\ Listening' = Listening
      /\ disp.pc = "write" /\ ~disp.closing /\ disp.rx = None
  BY DEF WriteNoBody, Local, Channel, vars, Listening
<1>1. /\ ConnOK(conn) /\ disp \in DispRec
      /\ ~woken => Calm(disp, conn, body, Listening)
  BY DEF DInv, WakeInv
<1>2. ~woken => ~disp.again
  BY <1>0, SecondWrite
<1>3. ~woken => conn.notify \/ AtRest(conn, disp.tx, body, Listening)
  BY <1>0, <1>1, <1>2 DEF Calm
<1>4. CASE CanWriteBody(conn)
  <2>1. /\ conn' = EndBody(conn).c /\ conn.writing = "Body"
        /\ \E p \in {"write", "err"} : disp' = [disp EXCEPT !.pc = p]
    BY <1>0, <1>4 DEF WriteNoBody, CanWriteBody
  <2>2. /\ disp'.pc \in {"write", "err"} /\ disp'.again = disp.again /\ ~disp'.closing
        /\ disp'.tx = disp.tx
    BY <1>0, <1>1, <2>1, GoesTo
  <2>3. conn'.reading = conn.reading /\ conn'.writing # "Init"
    BY <1>1, <2>1, EndBodyOK DEF Writes
  <2>4. SameIo(conn, conn') /\ conn'.notify = conn.notify
    <3>1. SameIo(conn, conn')
      BY <1>1, <2>1, WriteBodyIo
    <3> QED  BY <3>1 DEF SameIo
  <2>5. ~woken => conn'.notify \/ AtRest(conn', disp.tx, body, Listening)
    BY <1>3, <2>1, <2>3, <2>4, WritesAtRest
  <2>6. disp'.pc = "write" => WakeInv'
    BY <1>0, <1>2, <2>2, <2>5, WriteOnWake
  <2>7. disp'.pc = "err" => WakeInv'
    BY <2>2, ErrWake
  <2> QED  BY <2>2, <2>6, <2>7
<1>5. CASE ~CanWriteBody(conn)
  <2>1. disp' = Returns(FALSE) /\ conn' = conn
    BY <1>5 DEF WriteNoBody
  <2>2. /\ disp'.pc = IF ~disp'.again THEN "flush" ELSE IF FALSE THEN "loop" ELSE "finish"
        /\ disp'.again = disp.again /\ disp'.wready = FALSE /\ ~disp'.closing
        /\ disp'.tx = disp.tx /\ disp'.rx = None
    BY <1>0, <1>1, <2>1, ReturnsTo
  <2>3. BodyWaits(disp', conn')
    BY <2>2 DEF BodyWaits
  <2> QED  BY <1>0, <1>2, <1>3, <2>1, <2>2, <2>3, WriteReturnsWake
<1> QED  BY <1>4, <1>5

\* poll_flush goes on to the second poll_write, round the loop, or out of it
\* with nothing left to do.
LEMMA FlushWake ==
  ASSUME DInv, WakeInv, Flush
  PROVE  WakeInv'
<1>0. woken' = woken /\ body' = body /\ Listening' = Listening /\ disp.pc = "flush"
  BY DEF Flush, Local, Channel, vars, Listening
<1>1. /\ ConnOK(conn) /\ disp \in DispRec /\ Flow(disp, conn)
      /\ ~woken => Calm(disp, conn, body, Listening)
  BY DEF DInv, WakeInv
<1>2. ~disp.again /\ (disp.wready => disp.closing) /\ (disp.closing => conn.reading = "Closed")
  BY <1>0, <1>1 DEF Flow
<1>3. ~woken => /\ conn.notify \/ AtRest(conn, disp.tx, body, Listening)
                /\ BodyWaits(disp, conn) \/ Stuck(conn)
  BY <1>0, <1>1, <1>2 DEF Calm
<1>4. PICK f \in PollFlush(conn) :
        LET writeAgain == /\ ~disp.closing /\ disp.rx # None /\ CanWriteBody(f.c)
                          /\ disp.wready \/ f.how = "ready"
            readAgain  == f.c.notify
        IN  /\ conn' = IF f.how = "err" THEN f.c ELSE [f.c EXCEPT !.notify = FALSE]
            /\ disp' = CASE f.how = "err" -> [disp EXCEPT !.pc = "err"]
                         [] f.how # "err" /\ readAgain -> [disp EXCEPT !.pc = "loop"]
                         [] f.how # "err" /\ ~readAgain /\ writeAgain ->
                              [disp EXCEPT !.pc = "write", !.again = TRUE]
                         [] OTHER -> [disp EXCEPT !.pc = "finish"]
  BY DEF Flush
<1> DEFINE Again == ~disp.closing /\ disp.rx # None /\ CanWriteBody(f.c) /\ f.how = "ready"
<1>5. /\ conn' = f.c \/ conn' = Quiet(f.c)
      /\ f.how # "err" => conn' = Quiet(f.c)
      /\ \/ \E p \in {"err", "loop"} : disp' = [disp EXCEPT !.pc = p]
         \/ f.how # "err" /\ ~f.c.notify /\ Again /\ disp' = [disp EXCEPT !.pc = "write", !.again = TRUE]
         \/ f.how # "err" /\ ~f.c.notify /\ ~Again /\ disp' = [disp EXCEPT !.pc = "finish"]
  BY <1>2, <1>4, Zenon DEF Quiet
<1>6. /\ f.how \in {"ready", "pending", "err"} /\ ConnOK(f.c) /\ f.c \in ConnRec
      /\ conn.reading = "Closed" => f.c.reading = "Closed"
  BY <1>1, PollFlushOK DEF Settles, ConnOK
<1>7. SameState(f.c, Quiet(f.c))
  BY <1>6, QuietOK
<1>8. /\ ~f.c.notify => SameIo(f.c, Quiet(f.c))
      /\ Quiet(f.c).armed = f.c.armed /\ Quiet(f.c).wh = f.c.wh /\ Quiet(f.c).wq = f.c.wq
      /\ Quiet(f.c).full = f.c.full
  BY <1>6 DEF Quiet, ConnRec, SameIo
<1>9. disp.closing => conn'.reading = "Closed"
  BY <1>2, <1>5, <1>6, <1>7 DEF SameState
<1>10. ~woken /\ ~f.c.notify => AtRest(f.c, disp.tx, body, Listening)
  <2>1. Tells(conn, f.c)
    BY <1>1, PollFlushIo
  <2> QED  BY <1>3, <2>1, ToldAtRest
<1>11. ~woken /\ ~f.c.notify => AtRest(Quiet(f.c), disp.tx, body, Listening)
  BY <1>7, <1>8, <1>10, SameAtRest
<1>12. ASSUME NEW p \in {"err", "loop"}, disp' = [disp EXCEPT !.pc = p]
       PROVE  WakeInv'
  <2>1. disp'.pc = p /\ disp'.closing = disp.closing
    BY <1>1, <1>12, GoesTo
  <2> QED  BY <1>9, <2>1, ErrWake
<1>13. CASE f.how # "err" /\ ~f.c.notify /\ Again /\ disp' = [disp EXCEPT !.pc = "write", !.again = TRUE]
  <2>1. conn' = Quiet(f.c) /\ f.how = "ready"
    BY <1>5, <1>13
  <2>2. /\ disp'.pc = "write" /\ disp'.again /\ ~disp'.closing /\ disp'.rx # None
        /\ disp'.rx = disp.rx /\ disp'.tx = disp.tx
    BY <1>1, <1>13 DEF DispRec
  <2>3. f.c.wh + f.c.wq = 0 /\ ~Stuck(conn) /\ conn.writing = "Body" /\ conn.armed \subseteq f.c.armed
    BY <1>1, <1>13, PollFlushIo DEF CanWriteBody
  <2>4. ~woken => "frame" \in conn'.armed
    BY <1>3, <1>8, <1>13, <2>1, <2>3 DEF BodyWaits, CanWriteBody
  <2>5. CanWriteBody(conn') /\ conn'.wh + conn'.wq = 0
    BY <1>7, <1>8, <1>13, <2>1, <2>3 DEF SameState, CanWriteBody
  <2>6. ~woken => AtRest(conn', disp'.tx, body', Listening')
    BY <1>0, <1>11, <1>13, <2>1, <2>2
  <2>7. Flow(disp', conn')
    BY <2>2 DEF Flow
  <2>8. ~woken => Calm(disp', conn', body', Listening')
    BY <2>2, <2>4, <2>5, <2>6 DEF Calm
  <2> QED  BY <1>0, <2>7, <2>8 DEF WakeInv
<1>14. CASE f.how # "err" /\ ~f.c.notify /\ ~Again /\ disp' = [disp EXCEPT !.pc = "finish"]
  <2>1. conn' = Quiet(f.c) /\ f.how \in {"ready", "pending"}
    BY <1>5, <1>6, <1>14
  <2>2. /\ disp'.pc = "finish" /\ disp'.closing = disp.closing /\ disp'.rx = disp.rx
        /\ disp'.tx = disp.tx
    BY <1>1, <1>14, GoesTo
  <2>3. Drained(conn') /\ (BodyWaits(disp', conn') \/ "write" \in conn'.armed)
    <3>1. CASE f.how = "ready"
      <4>1. f.c.wh + f.c.wq = 0
        BY <1>1, <3>1, PollFlushIo
      <4>2. conn'.wh + conn'.wq = 0
        BY <1>8, <2>1, <4>1
      <4>3. disp.closing \/ disp.rx = None \/ ~CanWriteBody(conn')
        BY <1>7, <1>14, <2>1, <3>1 DEF SameState, CanWriteBody
      <4> QED  BY <2>2, <4>2, <4>3 DEF Drained, BodyWaits
    <3>2. CASE f.how = "pending"
      <4>1. Stuck(f.c)
        BY <1>1, <3>2, PollFlushIo
      <4>2. Stuck(conn') /\ "write" \in conn'.armed
        BY <1>8, <2>1, <4>1 DEF Stuck
      <4> QED  BY <4>2 DEF Drained
    <3> QED  BY <2>1, <3>1, <3>2
  <2>4. ~woken => AtRest(conn', disp'.tx, body', Listening')
    BY <1>0, <1>11, <1>14, <2>1, <2>2
  <2>5. Flow(disp', conn')
    BY <1>9, <2>2 DEF Flow
  <2>6. ~woken => Calm(disp', conn', body', Listening')
    BY <2>2, <2>3, <2>4 DEF Calm
  <2> QED  BY <1>0, <2>5, <2>6 DEF WakeInv
<1> QED  BY <1>5, <1>12, <1>13, <1>14

\* The loop, the end of a poll and the next one.
LEMMA LoopWake ==
  ASSUME DInv, WakeInv, LoopAgain \/ LoopYield \/ Finish \/ Shutdown \/ Poll \/ Aborted
  PROVE  WakeInv'
<1>0. body' = body /\ Listening' = Listening
  BY DEF LoopAgain, LoopYield, Finish, Shutdown, Poll, Aborted, Local, Channel, vars, Listening
<1>1. /\ ConnOK(conn) /\ conn \in ConnRec /\ disp \in DispRec /\ Flow(disp, conn)
      /\ ~woken => Calm(disp, conn, body, Listening)
  BY DEF DInv, WakeInv, ConnOK
<1>2. disp.closing => conn.reading = "Closed"
  BY <1>1 DEF Flow
<1>3. ASSUME NEW p, disp' = [disp EXCEPT !.pc = p, !.again = FALSE]
      PROVE  /\ disp'.pc = p /\ ~disp'.again /\ disp'.closing = disp.closing
             /\ disp'.tx = disp.tx /\ disp'.rx = disp.rx
  BY <1>1, <1>3 DEF DispRec
<1>4. ASSUME NEW p, NEW x, \/ disp' = [disp EXCEPT !.pc = p, !.result = x]
                           \/ disp' = [disp EXCEPT !.pc = p]
      PROVE  disp'.pc = p /\ disp'.closing = disp.closing
  BY <1>1, <1>4 DEF DispRec
<1>5. CASE LoopAgain \/ Poll
  <2>1. disp' = [disp EXCEPT !.pc = "read", !.again = FALSE] /\ conn' = conn
    BY <1>5 DEF LoopAgain, Poll
  <2> QED  BY <1>2, <1>3, <2>1, ReadOnWake
<1>6. CASE LoopYield
  <2>1. disp' = [disp EXCEPT !.pc = "parked", !.again = FALSE] /\ conn' = conn /\ woken'
    BY <1>6 DEF LoopYield
  <2>2. disp'.pc = "parked" /\ disp'.closing = disp.closing
    BY <1>3, <2>1
  <2>3. Flow(disp', conn')
    BY <1>2, <2>1, <2>2 DEF Flow
  <2> QED  BY <2>1, <2>3 DEF WakeInv
<1>7. CASE Aborted
  <2>1. disp' = [disp EXCEPT !.pc = "ended", !.result = "aborted"] /\ conn' = conn
    BY <1>7 DEF Aborted
  <2> QED  BY <1>2, <1>4, <2>1, ErrWake
<1>8. CASE Finish
  <2>1. /\ conn' = conn /\ woken' = woken /\ disp.pc = "finish"
        /\ \/ ~IsDone /\ disp' = [disp EXCEPT !.pc = "parked", !.again = FALSE]
           \/ disp' = [disp EXCEPT !.pc = "ended", !.result = "upgrade"]
           \/ disp' = [disp EXCEPT !.pc = "err"]
           \/ IsDone /\ disp' = [disp EXCEPT !.pc = "shutdown"]
    BY <1>8, Zenon DEF Finish, Local
  <2>2. CASE ~IsDone /\ disp' = [disp EXCEPT !.pc = "parked", !.again = FALSE]
    <3>1. ~disp.closing
      BY <2>2 DEF IsDone
    <3>2. disp'.pc = "parked" /\ ~disp'.closing /\ disp'.tx = disp.tx /\ disp'.rx = disp.rx
      BY <1>3, <2>2, <3>1
    <3>3. Flow(disp', conn')
      BY <3>2 DEF Flow
    <3>4. ~woken => Calm(disp', conn, body, Listening)
      <4>1. ~woken => /\ AtRest(conn, disp.tx, body, Listening) /\ Drained(conn)
                      /\ BodyWaits(disp, conn) \/ "write" \in conn.armed
        BY <1>1, <2>1 DEF Calm
      <4>2. BodyWaits(disp, conn) => BodyWaits(disp', conn)
        BY <3>1, <3>2 DEF BodyWaits
      <4> QED  BY <3>2, <4>1, <4>2 DEF Calm
    <3> QED  BY <1>0, <2>1, <3>3, <3>4 DEF WakeInv
  <2>3. CASE \/ disp' = [disp EXCEPT !.pc = "ended", !.result = "upgrade"]
             \/ disp' = [disp EXCEPT !.pc = "err"]
    <3>1. disp'.pc \in {"ended", "err"} /\ disp'.closing = disp.closing
      BY <1>4, <2>3
    <3> QED  BY <1>2, <2>1, <3>1, ErrWake
  <2>4. CASE IsDone /\ disp' = [disp EXCEPT !.pc = "shutdown"]
    <3>1. disp'.pc = "shutdown" /\ conn.reading = "Closed"
      BY <1>2, <1>4, <2>4 DEF IsDone
    <3>2. Flow(disp', conn')
      BY <2>1, <3>1 DEF Flow
    <3>3. Calm(disp', conn', body', Listening')
      BY <3>1, CalmElsewhere
    <3> QED  BY <3>2, <3>3 DEF WakeInv
  <2> QED  BY <2>1, <2>2, <2>3, <2>4
<1>9. CASE Shutdown
  <2>1. /\ disp.pc = "shutdown"
        /\ \/ conn' = conn /\ disp' = [disp EXCEPT !.pc = "err"]
           \/ conn' = conn /\ disp' = [disp EXCEPT !.pc = "ended", !.result = "shutdown"]
           \/ /\ conn.full /\ conn' = Arm(conn, "write")
              /\ disp' = [disp EXCEPT !.pc = "parked", !.again = FALSE]
    BY <1>9 DEF Shutdown
  <2>2. conn.reading = "Closed"
    BY <1>1, <2>1 DEF Flow
  <2>3. CASE /\ conn.full /\ conn' = Arm(conn, "write")
             /\ disp' = [disp EXCEPT !.pc = "parked", !.again = FALSE]
    <3>1. SameOut(conn, conn') /\ "write" \in conn'.armed
      BY <1>1, <2>3, ArmIo
    <3>2. conn'.reading = "Closed"
      BY <1>1, <2>2, <2>3, ArmOK DEF SameState, Wakers
    <3>3. Drained(conn')
      BY <2>3, <3>1 DEF SameOut, Drained, Stuck
    <3>4. AtRest(conn', disp'.tx, body', Listening')
      BY <3>2, ClosedAtRest
    <3>5. disp'.pc = "parked" /\ ~disp'.again
      BY <1>3, <2>3
    <3>6. Flow(disp', conn')
      BY <3>2, <3>5 DEF Flow
    <3>7. Calm(disp', conn', body', Listening')
      BY <3>1, <3>3, <3>4, <3>5 DEF Calm
    <3> QED  BY <3>6, <3>7 DEF WakeInv
  <2>4. CASE conn' = conn /\ disp' = [disp EXCEPT !.pc = "err"]
    <3>1. disp'.pc = "err"
      BY <1>4, <2>4
    <3> QED  BY <2>2, <2>4, <3>1, ErrWake
  <2>5. CASE conn' = conn /\ disp' = [disp EXCEPT !.pc = "ended", !.result = "shutdown"]
    <3>1. disp'.pc = "ended"
      BY <1>4, <2>5
    <3> QED  BY <2>2, <2>5, <3>1, ErrWake
  <2> QED  BY <2>1, <2>3, <2>4, <2>5
<1> QED  BY <1>5, <1>6, <1>7, <1>8, <1>9

\* Every step that ends the task leads to its end.
LEMMA EndsOver ==
  ASSUME disp \in DispRec, EndStep
  PROVE  disp'.pc \in Over /\ disp'.closing = disp.closing
<1>1. CASE CatchClose \/ CatchCloseInner \/ DropReceiver \/ DropRest
  <2>1. \E p \in Over : \/ disp' = [disp EXCEPT !.pc = p]
                       \/ disp' = [disp EXCEPT !.pc = p, !.tx = None]
                       \/ disp' = [disp EXCEPT !.pc = p, !.tx = None, !.rx = None]
    BY <1>1 DEF CatchClose, CatchCloseInner, DropReceiver, DropRest, Over
  <2> QED  BY <2>1 DEF DispRec
<1>2. CASE CatchTryRecv
  <2> PICK y : y = IF queue # <<>> THEN "shutdown" ELSE "error"
    OBVIOUS
  <2>1. disp' = [disp EXCEPT !.pc = "ended", !.result = y]
    BY <1>2 DEF CatchTryRecv
  <2> QED  BY <2>1 DEF DispRec, Over
<1>3. CASE CatchClosed \/ \E r \in Req : CatchCallback(r)
  <2>1. \E y \in {"error", "shutdown"} : disp' = [disp EXCEPT !.pc = "ended", !.tx = None, !.result = y]
    BY <1>3 DEF CatchClosed, CatchCallback
  <2> QED  BY <2>1 DEF DispRec, Over
<1>4. CASE \E r \in Req : DropCallback(r)
  BY <1>4 DEF DropCallback, Over
<1> QED  BY <1>1, <1>2, <1>3, <1>4 DEF EndStep

\* poll_catch and the drop of the task: it does not sleep any more.
LEMMA EndWake ==
  ASSUME DInv, WakeInv, EndStep
  PROVE  WakeInv'
<1>1. disp \in DispRec /\ Flow(disp, conn)
  BY DEF DInv, WakeInv
<1>2. conn' = conn
  BY DEF EndStep, CatchClose, CatchCloseInner, CatchTryRecv, CatchClosed, DropReceiver, DropRest,
         CatchCallback, DropCallback, Local
<1>4. disp'.pc \in Over /\ disp'.closing = disp.closing
  BY <1>1, EndsOver
<1>5. disp'.closing => conn'.reading = "Closed"
  BY <1>1, <1>2, <1>4 DEF Flow
<1> QED  BY <1>4, <1>5, ErrWake DEF Over

\* Every step keeps the wakers.
LEMMA StepWake == DInv /\ IInv /\ WakeInv /\ [DNext]_dvars => WakeInv'
<1> SUFFICES ASSUME DInv, IInv, WakeInv, [DNext]_dvars
             PROVE  WakeInv'
  OBVIOUS
<1>1. CASE UNCHANGED dvars
  <2>1. UNCHANGED <<conn, disp, body, woken, held, promise>>
    BY <1>1 DEF dvars, vars
  <2> QED  BY <2>1 DEF WakeInv, Listening
<1>2. CASE ReadStep
  BY <1>2, ReadHeadWake, ReadBodyWake DEF ReadStep
<1>3. CASE WriteStep
  BY <1>3, TakeWake, WriteHeadWake, WriteFullWake, WriteBodyWake, WriteNoBodyWake DEF WriteStep
<1>4. CASE LoopStep \/ Poll \/ Aborted
  BY <1>4, FlushWake, LoopWake DEF LoopStep
<1>5. CASE EndStep
  BY <1>5, EndWake
<1>6. CASE ServerStep \/ ProducerReady
  BY <1>6, ServerWake
<1>7. CASE (\E h \in Handle : Caller(h)) \/ (\E r \in Req : CallerLeaves(r))
  BY <1>7, CallerWake
<1>8. CASE \E r \in Req : ConsumerStep(r)
  BY <1>8, ConsumerWake
<1> QED  BY <1>1, <1>2, <1>3, <1>4, <1>5, <1>6, <1>7, <1>8 DEF DNext, TaskStep

\* A task that is asleep after every poll came up empty has nothing to do.
LEMMA CalmIsIdle ==
  ASSUME WakeInv, Asleep, disp \in DispRec
  PROVE  ~HasWork
<1>1. disp.pc = "parked" /\ Calm(disp, conn, body, Listening)
  BY DEF WakeInv, Asleep
<1>2. /\ AtRest(conn, disp.tx, body, Listening) /\ Drained(conn)
      /\ BodyWaits(disp, conn) \/ "write" \in conn.armed
      /\ disp.closing => "write" \in conn.armed
  BY <1>1 DEF Calm
<1>3. Polled(conn) => conn.rbuf = <<>> /\ ~Arriving
  BY DEF Polled, Arriving
<1>4. ~(conn.wh + conn.wq > 0 /\ ~conn.full)
  BY <1>2 DEF Drained, Stuck
<1>5. ~(CanReadHead(conn) /\ (~Listening \/ conn.rbuf # <<>> \/ Arriving))
  BY <1>2, <1>3 DEF AtRest
<1>6. ~(/\ disp.tx # None /\ CanReadBody(conn)
        /\ \/ body[disp.tx].rx = "dropped"
           \/ body[disp.tx].slot = 0 /\ (conn.rbuf # <<>> \/ Arriving))
  BY <1>2, <1>3 DEF AtRest
<1>7. ~(~IsMidMessage(conn) /\ (conn.rbuf # <<>> \/ Arriving))
  BY <1>2, <1>3 DEF AtRest
<1>8. ~(conn.reading = "KeepAlive" /\ conn.rbuf = <<>> /\ Arriving)
  BY <1>2, <1>3 DEF AtRest
<1>9. ~(disp.rx # None /\ CanWriteBody(conn) /\ {"frame", "write"} \cap conn.armed = {})
  BY <1>2 DEF BodyWaits
<1> QED  BY <1>4, <1>5, <1>6, <1>7, <1>8, <1>9 DEF HasWork

\* WakeInv is an invariant of the dispatcher, over its own and the channel's.
LEMMA WakeInvariance == DSafety => [](DInv /\ IInv /\ WakeInv)
<1>1. DInit => WakeInv
  <2> SUFFICES ASSUME DInit PROVE WakeInv
    OBVIOUS
  <2>1. woken /\ disp.pc = "parked" /\ ~disp.closing
    BY DEF DInit
  <2> QED  BY <2>1 DEF WakeInv, Flow
<1>2. DSafety => []DInv
  BY DInvariance
<1>3. DSafety => []IInv
  BY UsesChannel, Invariance, PTL
<1> QED  BY <1>1, <1>2, <1>3, StepWake, PTL DEF DSafety

\* The connection task never sleeps on bytes to flush, a response or its end,
\* a caller or a consumer that left, or a request body to write, without a
\* waker that will tell it (poll_loop, poll_flush, maybe_notify): for every
\* server, every size of buffer and both write strategies.
THEOREM NoLostWakeups == DSafety => []NoLostWakeup
<1>1. DInv /\ WakeInv => NoLostWakeup
  BY CalmIsIdle DEF DInv, NoLostWakeup
<1> QED  BY <1>1, WakeInvariance, PTL

-----------------------------------------------------------------------------
(* The idle connection.  When writes are flattened, a task that goes to    *)
(* sleep between two requests has polled the request channel last.         *)

\* Unless a message is in progress, the channel was polled, or poll_flush
\* waits for the socket and will go round again.
Idles(c) == ~IsMidMessage(c) => "recv" \in c.armed \/ Stuck(c)

\* What has been polled when the task is at p and no waker has fired since.
Hears(p, c) ==
  /\ p = "want" => "recv" \in c.armed
  /\ p = "flush" => c.notify \/ Idles(c)
  /\ p \in {"finish", "parked"} => Idles(c)

\* One request is served at a time, and its callback is there only while its
\* head is to be written, its response is awaited, or all is lost.
Served(p, c, h) ==
  /\ \A x, y \in h : x = y
  /\ h # {} => p \in {"head", "err"} \cup Over \/ CanReadHead(c) \/ c.reading = "Closed"

IdleInv ==
  /\ conn.wq = 0
  /\ Served(disp.pc, conn, held)
  /\ woken \/ Hears(disp.pc, conn)

\* A response that is awaited stays awaited, unless the read half closes.
Onward(c, d) ==
  /\ CanReadHead(c) => CanReadHead(d) \/ d.reading = "Closed"
  /\ c.reading = "Closed" => d.reading = "Closed"

\* What leaves the two halves alone, writes a body or settles does that.
LEMMA OnwardWhen ==
  ASSUME NEW c, NEW d,
         \/ SameState(c, d) \/ Settles(c, d)
         \/ d.reading = c.reading /\ d.writing # "Init"
  PROVE  Onward(c, d)
BY DEF Onward, SameState, Settles, CanReadHead

\* The callback is still where it belongs.
LEMMA ServedOnward ==
  ASSUME NEW p, NEW c, NEW h, Served(p, c, h), p \notin {"head", "err"} \cup Over,
         NEW d, Onward(c, d), NEW o, NEW g, g \subseteq h
  PROVE  Served(o, d, g)
BY DEF Served, Onward

\* It is gone when it was used.
LEMMA ServedOnce ==
  ASSUME NEW p, NEW c, NEW h, Served(p, c, h), NEW r \in h, NEW g, g = h \ {r}
  PROVE  g = {}
BY DEF Served

\* With a closed read half it waits for the end of the task.
LEMMA ServedClosed ==
  ASSUME NEW p, NEW c, NEW h, Served(p, c, h),
         NEW d, d.reading = "Closed", NEW o, NEW g, g \subseteq h
  PROVE  Served(o, d, g)
BY DEF Served

\* Where the task has not polled the channel yet, nothing is claimed.
LEMMA IdleElsewhere ==
  ASSUME conn'.wq = 0, Served(disp'.pc, conn', held'),
         disp'.pc \notin {"want", "flush", "finish", "parked"}
  PROVE  IdleInv'
<1>1. Hears(disp'.pc, conn')
  BY DEF Hears
<1> QED  BY <1>1 DEF IdleInv

\* poll_read.
LEMMA ReadIdle ==
  ASSUME DInv, IdleInv, ReadStep
  PROVE  IdleInv'
<1>0. disp.pc \in {"read", "readbody"}
  BY DEF ReadStep, ReadClosing, ReadHeadUnwanted, ReadHeadPending, ReadHead, ReadHeadError,
         ReadBodyDone, ReadBodyFull, ReadBodyUnwanted, ReadBodyReady, ReadBodyFrame, ReadingBody, ReadKeepAlive
<1>1. /\ ConnOK(conn) /\ conn \in ConnRec /\ disp \in DispRec
      /\ conn.wq = 0 /\ Served(disp.pc, conn, held) /\ disp.pc \notin {"head", "err"} \cup Over
      /\ disp.pc = "readbody" => conn.reading = "Body"
  BY <1>0 DEF DInv, IdleInv, ConnOK, Over, Link
<1>2. disp'.pc \in {"read", "readbody", "write", "err"}
  <2>1. \/ \E p \in {"readbody", "write", "err"} : disp' = [disp EXCEPT !.pc = p]
        \/ \E p \in {"read"} : disp' = [disp EXCEPT !.pc = p]
        \/ disp' = [disp EXCEPT !.pc = "read", !.tx = None]
        \/ disp.pc = "read" /\ \/ disp' = [disp EXCEPT !.closing = TRUE]
                               \/ \E r \in Req \cup {None} : disp' = [disp EXCEPT !.tx = r]
                               \/ disp' = disp
    BY DEF ReadStep, ReadClosing, ReadHeadUnwanted, ReadHeadPending, ReadHead, ReadHeadError,
           ReadBodyDone, ReadBodyFull, ReadBodyUnwanted, ReadBodyReady, ReadBodyFrame, ReadingBody, ReadKeepAlive
  <2> QED  BY <1>1, <2>1 DEF DispRec
<1> SUFFICES conn'.wq = 0 /\ Served(disp'.pc, conn', held')
  BY <1>2, IdleElsewhere
<1> DEFINE Goal == conn'.wq = 0 /\ Served(disp'.pc, conn', held')
<1>3. ASSUME held' = held, SameQueue(conn, conn'), Onward(conn, conn')
      PROVE  Goal
  BY <1>1, <1>3, ServedOnward DEF SameQueue
<1>4. ASSUME held' \subseteq held, SameQueue(conn, conn'), conn'.reading = "Closed"
      PROVE  Goal
  BY <1>1, <1>4, ServedClosed DEF SameQueue
<1>5. ASSUME held' = {}, SameQueue(conn, conn')
      PROVE  Goal
  BY <1>1, <1>5 DEF SameQueue, Served
<1>6. conn.reading = "Body" => held = {}
  BY <1>1 DEF Served, CanReadHead
<1> HIDE DEF Goal
<1>7. CASE ReadClosing \/ ReadBodyDone
  <2>1. conn' = conn /\ held' = held
    BY <1>7 DEF ReadClosing, ReadBodyDone, Channel, vars
  <2> QED  BY <1>3, <2>1 DEF SameQueue, Onward, Goal
<1> PICK p : p = ParseHead(conn)
  OBVIOUS
<1>8. ConnOK(p.c) /\ p.c \in ConnRec /\ SameState(conn, p.c) /\ p.c.wq = conn.wq
      /\ (p.how = "some" => p.c.rbuf # <<>>)
  BY <1>1, ParseHeadOK, ParseHeadQueue DEF ConnOK, SameQueue
<1>9. CASE ReadHeadUnwanted \/ \E r \in Req : ReadHeadError(r)
  <2>1. /\ conn' = Close(conn) \/ conn' = Close(p.c)
        /\ held' \subseteq held
    BY <1>9 DEF ReadHeadUnwanted, ReadHeadError, SendErr, Channel, vars
  <2>2. conn'.reading = "Closed"
    BY <1>1, <1>8, <2>1, CloseOK
  <2>3. conn'.wq = conn.wq
    BY <1>1, <1>8, <2>1, CloseIo DEF SameOut
  <2> QED  BY <1>4, <2>1, <2>2, <2>3 DEF SameQueue, Goal
<1>10. CASE ReadHeadPending
  <2>1. conn' = Arm(p.c, "cancel") /\ held' = held
    BY <1>10 DEF ReadHeadPending, Channel, vars
  <2>2. SameState(p.c, conn') /\ conn'.wq = p.c.wq
    BY <1>8, <2>1, ArmOK, ArmIo DEF SameOut, Wakers
  <2>3. SameState(conn, conn')
    BY <1>8, <2>2 DEF SameState
  <2> QED  BY <1>3, <1>8, <2>1, <2>2, <2>3, OnwardWhen DEF SameQueue, Goal
<1>11. ASSUME NEW r \in Req, ReadHead(r)
       PROVE  Goal
  <2> PICK t : t = p.c.rbuf[1]
    OBVIOUS
  <2> PICK a : a = AcceptHead(p.c, t)
    OBVIOUS
  <2>1. conn' = Disarm(a, {"cancel", "slot", "closed"}) /\ r \in held /\ held' = held \ {r}
    BY <1>11 DEF ReadHead, SendOk, Disarm
  <2>2. t \in Heads /\ p.c.reading = "Init" /\ p.c.writing # "Init" /\ p.c.rbuf # <<>>
    BY <1>8, <1>11 DEF ReadHead, CanReadHead, SameState
  <2>3. a \in ConnRec /\ a.wq = p.c.wq
    BY <1>8, <2>2, AcceptHeadOK, AcceptHeadQueue DEF ConnOK, SameQueue
  <2>4. conn'.wq = a.wq
    BY <2>1, <2>3 DEF Disarm, ConnRec
  <2>5. held' = {}
    BY <1>1, <2>1, ServedOnce
  <2> QED  BY <1>5, <1>8, <2>3, <2>4, <2>5 DEF SameQueue, Goal
<1>12. CASE ReadBodyFull \/ ReadBodyReady
  <2>1. /\ conn' = Arm(conn, "closed") \/ conn' = Arm(Arm(conn, "slot"), "closed")
        /\ held' = held /\ conn.reading = "Body"
    BY <1>12 DEF ReadBodyFull, ReadBodyReady, Channel, vars, CanReadBody
  <2>2. Arm(conn, "slot") \in ConnRec /\ Arm(conn, "slot").wq = conn.wq
    BY <1>1, ArmOK, ArmIo DEF SameOut, Wakers, ConnOK
  <2>3. conn'.wq = conn.wq
    BY <1>1, <2>1, <2>2, ArmIo DEF SameOut
  <2> QED  BY <1>5, <1>6, <2>1, <2>3 DEF SameQueue, Goal
<1>13. CASE ReadBodyUnwanted
  <2>1. conn' = DrainOrCloseRead(conn) /\ held' = held /\ conn.reading = "Body"
    BY <1>13 DEF ReadBodyUnwanted, Channel, vars, CanReadBody
  <2> QED  BY <1>1, <1>5, <1>6, <2>1, DrainQueue DEF Goal
<1>14. CASE ReadBodyFrame
  <2> PICK d : d = PollReadBody(conn)
    OBVIOUS
  <2>1. (conn' = d.c \/ conn' = CloseRead(d.c)) /\ held' = held /\ disp.pc = "readbody"
    BY <1>14 DEF ReadBodyFrame, Channel, vars
  <2>2. SameQueue(conn, conn')
    BY <1>1, <2>1, PollReadBodyQueue, DrainQueue
  <2> QED  BY <1>1, <1>5, <1>6, <2>1, <2>2 DEF Goal
<1>15. CASE ReadKeepAlive
  <2> PICK k : k = PollReadKeepAlive(conn)
    OBVIOUS
  <2>1. conn' = k.c /\ held' = held
    BY <1>15 DEF ReadKeepAlive, Channel, vars
  <2>2. k.c.reading = "Closed" \/ SameState(conn, k.c)
    BY <1>1, PollReadKeepAliveOK
  <2>3. SameQueue(conn, k.c)
    BY <1>1, PollReadKeepAliveQueue
  <2> QED  BY <1>3, <1>4, <2>1, <2>2, <2>3, OnwardWhen DEF Goal
<1> QED  BY <1>7, <1>9, <1>10, <1>11, <1>12, <1>13, <1>14, <1>15 DEF ReadStep, Goal

\* The others' steps.
LEMMA SameIdle ==
  ASSUME IdleInv, disp' = disp, held' = held, SameState(conn, conn'), conn'.wq = conn.wq,
         ~woken' => /\ ~woken /\ conn'.notify = conn.notify
                    /\ "recv" \in conn.armed => "recv" \in conn'.armed
                    /\ Stuck(conn) => Stuck(conn')
  PROVE  IdleInv'
<1>1. Served(disp.pc, conn', held)
  BY DEF IdleInv, Served, SameState, CanReadHead
<1>2. ~woken' /\ Idles(conn) => Idles(conn')
  BY DEF Idles, SameState, IsMidMessage
<1>3. ~woken' => Hears(disp.pc, conn')
  BY <1>2 DEF IdleInv, Hears
<1> QED  BY <1>1, <1>3 DEF IdleInv

\* A push and the drop of a handle wake a task that polled the channel, and
\* the socket one that waits for it.
LEMMA OthersIdle ==
  ASSUME DInv, IdleInv,
         \/ ServerStep \/ ProducerReady
         \/ \E h \in Handle : Caller(h)
         \/ \E r \in Req : CallerLeaves(r) \/ ConsumerStep(r)
  PROVE  IdleInv'
<1>0. disp' = disp /\ held' = held
  <2>1. CASE ServerStep \/ ProducerReady
    BY <2>1 DEF ServerStep, ServerSend, ServerEnd, ServerDrains, ProducerReady, Channel, vars
  <2>2. CASE \E h \in Handle : Caller(h)
    BY <2>2 DEF Caller, TrySend, TrySendPush, DropHandle
  <2>3. CASE \E r \in Req : CallerLeaves(r) \/ ConsumerStep(r)
    BY <2>3 DEF CallerLeaves, Abandon, ConsumerStep, ConsumerChunk, ConsumerEnd, ConsumerLeaves, Channel, vars
  <2> QED  BY <2>1, <2>2, <2>3
<1>1. ConnOK(conn) /\ conn \in ConnRec
  BY DEF DInv, ConnOK
<1>2. ASSUME NEW w, Fire(w)
      PROVE  IdleInv'
  <2>1. conn' = Disarm(conn, {w})
    BY <1>2 DEF Fire, Disarm
  <2>2. SameState(conn, conn')
    BY <1>1, <2>1, DisarmOK
  <2>3. conn'.wq = conn.wq
    BY <1>1, <2>1 DEF Disarm, ConnRec
  <2>4. ~woken' => ~woken /\ conn' = conn
    BY <1>1, <1>2, FireIdle
  <2> QED  BY <1>0, <2>2, <2>3, <2>4, SameIdle
<1>3. ASSUME UNCHANGED <<conn, woken>>
      PROVE  IdleInv'
  <2>1. SameState(conn, conn)
    BY DEF SameState
  <2> QED  BY <1>0, <1>3, <2>1, SameIdle
<1>4. CASE \/ ProducerReady \/ \E h \in Handle : Caller(h)
           \/ \E r \in Req : CallerLeaves(r) \/ ConsumerStep(r)
  BY <1>2, <1>3, <1>4 DEF ProducerReady, Caller, CallerLeaves, ConsumerStep, ConsumerChunk,
                          ConsumerEnd, ConsumerLeaves
<1>5. ASSUME SameState(conn, conn'), conn'.wq = conn.wq, conn'.wh = conn.wh, conn'.notify = conn.notify,
             "recv" \in conn.armed => "recv" \in conn'.armed,
             ~woken' => /\ ~woken
                        /\ "write" \in conn.armed => "write" \in conn'.armed /\ conn'.full = conn.full
      PROVE  IdleInv'
  <2>1. ~woken' /\ Stuck(conn) => Stuck(conn')
    BY <1>5 DEF Stuck
  <2> QED  BY <1>0, <1>5, <2>1, SameIdle
<1>6. ASSUME NEW t, ServerSend(t)
      PROVE  IdleInv'
  <2> PICK a, i : a = conn.armed \ {"read"} /\ i = Append(conn.in, t)
    OBVIOUS
  <2>1. conn' = [conn EXCEPT !.in = i, !.armed = a] /\ (~woken' => ~woken)
    BY <1>6 DEF ServerSend
  <2>2. /\ conn'.wq = conn.wq /\ conn'.wh = conn.wh /\ conn'.notify = conn.notify
        /\ conn'.armed = a /\ conn'.full = conn.full
    BY <1>1, <2>1 DEF ConnRec
  <2>3. SameState(conn, conn')
    BY <1>1, <2>1 DEF ConnRec, SameState
  <2>4. \A w : w # "read" /\ w \in conn.armed => w \in a
    OBVIOUS
  <2> QED  BY <1>5, <2>1, <2>2, <2>3, <2>4
<1>7. ASSUME NEW how, ServerEnd(how)
      PROVE  IdleInv'
  <2> PICK a, i : a = conn.armed \ {"read", "write"} /\ i = IF how = "reset" THEN <<>> ELSE conn.in
    OBVIOUS
  <2>1. /\ conn' = [conn EXCEPT !.peer = how, !.armed = a, !.in = i]
        /\ ~woken' => ~woken /\ "write" \notin conn.armed
    BY <1>7 DEF ServerEnd
  <2>2. /\ conn'.wq = conn.wq /\ conn'.wh = conn.wh /\ conn'.notify = conn.notify
        /\ conn'.armed = a
    BY <1>1, <2>1 DEF ConnRec
  <2>3. SameState(conn, conn')
    BY <1>1, <2>1 DEF ConnRec, SameState
  <2>4. "recv" \in conn.armed => "recv" \in a
    OBVIOUS
  <2> QED  BY <1>5, <2>1, <2>2, <2>3, <2>4
<1>8. CASE ServerDrains
  <2> PICK a : a = conn.armed \ {"write"}
    OBVIOUS
  <2>1. /\ conn' = [conn EXCEPT !.full = FALSE, !.armed = a]
        /\ ~woken' => ~woken /\ "write" \notin conn.armed
    BY <1>8 DEF ServerDrains
  <2>2. /\ conn'.wq = conn.wq /\ conn'.wh = conn.wh /\ conn'.notify = conn.notify
        /\ conn'.armed = a
    BY <1>1, <2>1 DEF ConnRec
  <2>3. SameState(conn, conn')
    BY <1>1, <2>1 DEF ConnRec, SameState
  <2>4. "recv" \in conn.armed => "recv" \in a
    OBVIOUS
  <2> QED  BY <1>5, <2>1, <2>2, <2>3, <2>4
<1> QED  BY <1>4, <1>6, <1>7, <1>8 DEF ServerStep

\* poll_write returns with the channel polled, or with a message in progress.
LEMMA IdleReturns ==
  ASSUME conn'.wq = 0, Served(disp'.pc, conn', held'), disp'.pc # "want", woken' \/ Idles(conn')
  PROVE  IdleInv'
<1>1. woken' \/ Hears(disp'.pc, conn')
  BY DEF Hears
<1> QED  BY <1>1 DEF IdleInv

\* poll_write between messages.
LEMMA TakeIdle ==
  ASSUME DInv, WakeInv, IdleInv, WriteClosing \/ WriteMsg \/ WriteMsgEmpty \/ WriteMsgWant \/ WriteMsgEnd
  PROVE  IdleInv'
<1>0. woken' = woken /\ disp.pc \in {"write", "want"}
  BY DEF WriteClosing, WriteMsg, WriteMsgEmpty, WriteMsgWant, WriteMsgEnd, Local
<1>1. /\ ConnOK(conn) /\ conn \in ConnRec /\ disp \in DispRec /\ Flow(disp, conn)
      /\ conn.wq = 0 /\ Served(disp.pc, conn, held) /\ disp.pc \notin {"head", "err"} \cup Over
  BY <1>0 DEF DInv, WakeInv, IdleInv, ConnOK, Over
<1>2. \A b \in BOOLEAN : Returns(b) \in DispRec /\ Returns(b).pc \in {"flush", "loop", "finish"}
  BY <1>1, ReturnsOK
<1>3. Onward(conn, conn)
  BY DEF Onward
<1>4. CASE WriteClosing
  <2>1. conn' = conn /\ disp' = Returns(TRUE) /\ held' = held /\ conn.reading = "Closed"
    BY <1>1, <1>4 DEF WriteClosing, Flow, Channel, vars
  <2>2. disp'.pc # "want"
    BY <1>2, <2>1
  <2>3. Idles(conn)
    BY <2>1 DEF Idles, IsMidMessage
  <2>4. Served(disp'.pc, conn', held')
    BY <1>1, <1>3, <2>1, ServedOnward
  <2> QED  BY <1>1, <2>1, <2>2, <2>3, <2>4, IdleReturns
<1>5. ASSUME held' = {}, conn' = Close(conn), disp' = [Returns(TRUE) EXCEPT !.closing = TRUE]
      PROVE  IdleInv'
  <2>1. conn'.reading = "Closed"
    BY <1>1, <1>5, CloseOK
  <2>2. conn'.wq = 0
    BY <1>1, <1>5, CloseIo DEF SameOut
  <2>3. disp'.pc # "want"
    BY <1>2, <1>5 DEF DispRec
  <2>4. Idles(conn') /\ Served(disp'.pc, conn', held')
    BY <1>5, <2>1 DEF Idles, IsMidMessage, Served
  <2> QED  BY <2>2, <2>3, <2>4, IdleReturns
<1>6. CASE WriteMsgEnd
  <2>1. held' = {}
    BY <1>6 DEF WriteMsgEnd, RecvEnd, WantsMsg
  <2> QED  BY <1>5, <1>6, <2>1 DEF WriteMsgEnd
<1>7. CASE WriteMsg
  <2>1. CASE held' # {} /\ conn' = Arm(conn, "cancel") /\ disp' = [disp EXCEPT !.pc = "head"]
    <3>1. held = {} /\ RecvItem
      BY <1>7 DEF WriteMsg, WantsMsg
    <3>2. \A x, y \in held' : x = y
      BY <3>1 DEF RecvItem
    <3>3. disp'.pc = "head"
      BY <1>1, <2>1, GoesTo
    <3>4. conn'.wq = 0
      BY <1>1, <2>1, ArmIo DEF SameOut
    <3>5. Served(disp'.pc, conn', held')
      BY <3>2, <3>3 DEF Served
    <3> QED  BY <3>3, <3>4, <3>5, IdleElsewhere
  <2> QED  BY <1>5, <1>7, <2>1 DEF WriteMsg
<1>8. CASE WriteMsgEmpty
  <2>1. conn' = Arm(conn, "recv") /\ disp' = [disp EXCEPT !.pc = "want"] /\ held' = {}
    BY <1>8 DEF WriteMsgEmpty, RecvEmpty, WantsMsg
  <2>2. conn'.wq = 0 /\ "recv" \in conn'.armed
    BY <1>1, <2>1, ArmIo DEF SameOut
  <2>3. disp'.pc = "want"
    BY <1>1, <2>1, GoesTo
  <2>4. Hears(disp'.pc, conn') /\ Served(disp'.pc, conn', held')
    BY <2>1, <2>2, <2>3 DEF Hears, Served
  <2> QED  BY <2>2, <2>4 DEF IdleInv
<1>9. CASE WriteMsgWant
  <2>1. conn' = conn /\ disp' = Returns(FALSE) /\ held' = held /\ disp.pc = "want"
    BY <1>9 DEF WriteMsgWant, RecvWant
  <2>2. woken \/ Idles(conn)
    BY <2>1 DEF IdleInv, Hears, Idles
  <2>3. disp'.pc # "want"
    BY <1>2, <2>1
  <2>4. Served(disp'.pc, conn', held')
    BY <1>1, <1>3, <2>1, ServedOnward
  <2> QED  BY <1>0, <1>1, <2>1, <2>2, <2>3, <2>4, IdleReturns
<1> QED  BY <1>4, <1>6, <1>7, <1>8, <1>9

\* Conn::write_head: a response is awaited now.
LEMMA WriteHeadIdle ==
  ASSUME DInv, IdleInv, NEW r \in Req, WriteHeadOf(r)
  PROVE  IdleInv'
<1>1. /\ ConnOK(conn) /\ conn \in ConnRec /\ disp \in DispRec
      /\ conn.wq = 0 /\ Served(disp.pc, conn, held) /\ disp.pc = "head" /\ held' = held
      /\ conn.reading = "Init" /\ conn.writing = "Init"
  BY DEF DInv, IdleInv, ConnOK, WriteHeadOf, Serialize, Link
<1> PICK c : c = Disarm(conn, {"frame"})
  OBVIOUS
<1>2. ConnOK(c) /\ c.reading = "Init" /\ c.writing = "Init"
  BY <1>1, DisarmOK DEF SameState
<1>3. c.wq = 0
  BY <1>1 DEF Disarm, ConnRec
<1>4. PICK f \in {"length", "chunked"}, n \in Nat : conn' \in WriteHead(c, [enc |-> f, len |-> n])
  <2>1. PICK e \in Encoders(r) : conn' \in WriteHead(c, e)
    BY DEF WriteHeadOf, Disarm
  <2>2. \E f \in {"length", "chunked"}, n \in {ReqLen, 0} : e = [enc |-> f, len |-> n]
    BY DEF Encoders
  <2>3. ReqLen \in Nat
    BY ConnAssumption
  <2> QED  BY <2>1, <2>2, <2>3
<1>5. conn'.reading = "Init" /\ conn'.writing # "Init"
  BY <1>2, <1>4, WriteHeadOK DEF Writes
<1>6. conn'.wq = 0
  BY <1>2, <1>3, <1>4, WriteHeadQueue DEF SameQueue
<1>7. disp'.pc = "write"
  <2> PICK x : x = IF r \in Sized \cup Streamed THEN r ELSE None
    OBVIOUS
  <2>1. disp' = [disp EXCEPT !.pc = "write", !.frames = 0, !.rx = x]
    BY DEF WriteHeadOf
  <2> QED  BY <1>1, <2>1 DEF DispRec
<1>8. Served(disp'.pc, conn', held')
  BY <1>1, <1>5 DEF Served, CanReadHead
<1> QED  BY <1>6, <1>7, <1>8, IdleElsewhere

\* No room in the buffer: poll_write returns with poll_flush waiting.
LEMMA WriteFullIdle ==
  ASSUME DInv, IdleInv, WriteFull
  PROVE  IdleInv'
<1>0. held' = held /\ disp.pc = "write"
  BY DEF WriteFull, Channel, vars
<1>1. /\ ConnOK(conn) /\ disp \in DispRec /\ conn.wq = 0
      /\ Served(disp.pc, conn, held) /\ disp.pc \notin {"head", "err"} \cup Over
  BY <1>0 DEF DInv, IdleInv, Over
<1>2. PICK f \in PollFlush(conn) :
        /\ conn' = f.c
        /\ disp' = CASE f.how = "ready"   -> disp
                     [] f.how = "pending" -> Returns(FALSE)
                     [] f.how = "err"     -> [disp EXCEPT !.pc = "err"]
  BY DEF WriteFull
<1>3. f.how \in {"ready", "pending", "err"} /\ Settles(conn, conn')
  BY <1>1, <1>2, PollFlushOK
<1>4. conn'.wq = 0 /\ (f.how = "pending" => Stuck(conn'))
  BY <1>1, <1>2, PollFlushIo
<1>5. Served(disp'.pc, conn', held')
  BY <1>0, <1>1, <1>3, OnwardWhen, ServedOnward
<1>6. CASE f.how = "pending"
  <2>1. disp' = Returns(FALSE)
    BY <1>2, <1>6
  <2>2. disp'.pc # "want"
    BY <1>1, <2>1, ReturnsOK
  <2>3. Idles(conn')
    BY <1>4, <1>6 DEF Idles
  <2> QED  BY <1>4, <1>5, <2>2, <2>3, IdleReturns
<1>7. CASE f.how # "pending"
  <2>1. disp' = disp \/ disp' = [disp EXCEPT !.pc = "err"]
    BY <1>2, <1>3, <1>7
  <2>2. disp'.pc \in {"write", "err"}
    BY <1>0, <1>1, <2>1, GoesTo
  <2> QED  BY <1>4, <1>5, <2>2, IdleElsewhere
<1> QED  BY <1>6, <1>7

\* The request body: while it is written, the message is in progress.
LEMMA WriteBodyIdle ==
  ASSUME Flatten, DInv, IdleInv,
         \/ WriteBodyRefused \/ WriteBodyPending
         \/ \E n \in FrameSizes : WriteBodyData(n) \/ WriteBodyLast(n)
         \/ WriteBodyTrailers \/ WriteBodyError \/ WriteBodyEnd
  PROVE  IdleInv'
<1>0. held' = held /\ WritingBody
  BY DEF WriteBodyRefused, WriteBodyPending, WriteBodyData, WriteBodyLast,
         WriteBodyTrailers, WriteBodyError, WriteBodyEnd, Channel, vars
<1>1. /\ ConnOK(conn) /\ conn \in ConnRec /\ disp \in DispRec /\ conn.wq = 0 /\ disp.pc = "write"
      /\ Served(disp.pc, conn, held) /\ disp.pc \notin {"head", "err"} \cup Over
  BY <1>0 DEF DInv, IdleInv, ConnOK, WritingBody, Over
<1>2. ASSUME Onward(conn, conn'), SameQueue(conn, conn'), disp'.pc \in {"write", "err"}
      PROVE  IdleInv'
  <2>1. Served(disp'.pc, conn', held')
    BY <1>0, <1>1, <1>2, ServedOnward
  <2> QED  BY <1>1, <1>2, <2>1, IdleElsewhere DEF SameQueue
<1>3. ASSUME NEW n \in FrameSizes,
             \/ WriteBodyRefused \/ WriteBodyData(n) \/ WriteBodyLast(n)
             \/ WriteBodyTrailers \/ WriteBodyError \/ WriteBodyEnd
      PROVE  disp'.pc \in {"write", "err"}
  <2>1. \/ \E p \in {"write", "err"} : disp' = [disp EXCEPT !.rx = None, !.pc = p]
        \/ disp' = [disp EXCEPT !.rx = None]
        \/ disp' = [disp EXCEPT !.frames = @ + 1]
    BY <1>1, <1>3 DEF WriteBodyRefused, WriteBodyData, WriteBodyLast, WriteBodyTrailers,
                      WriteBodyError, WriteBodyEnd
  <2> QED  BY <1>1, <2>1 DEF DispRec
<1>4. CASE WriteBodyPending
  <2> PICK k : k = Returns(FALSE)
    OBVIOUS
  <2> PICK m : m = IF "frame" \in conn.armed THEN k.frames ELSE k.frames + 1
    OBVIOUS
  <2>1. conn' = Arm(conn, "frame") /\ disp' = [k EXCEPT !.frames = m] /\ conn.writing = "Body"
    BY <1>4 DEF WriteBodyPending, CanWriteBody
  <2>2. k \in DispRec /\ k.pc \in {"flush", "loop", "finish"}
    BY <1>1, ReturnsOK
  <2>3. disp'.pc # "want"
    BY <2>1, <2>2 DEF DispRec
  <2>4. SameState(conn, conn') /\ conn'.wq = 0
    BY <1>1, <2>1, ArmOK, ArmIo DEF SameOut, Wakers
  <2>5. Served(disp'.pc, conn', held')
    BY <1>0, <1>1, <2>4, OnwardWhen, ServedOnward
  <2>6. Idles(conn')
    BY <2>1, <2>4 DEF Idles, IsMidMessage, SameState
  <2> QED  BY <2>3, <2>4, <2>5, <2>6, IdleReturns
<1>5. CASE WriteBodyRefused \/ WriteBodyError
  <2>1. conn' = conn
    BY <1>5 DEF WriteBodyRefused, WriteBodyError
  <2>2. \E p \in {"write", "err"} : disp' = [disp EXCEPT !.rx = None, !.pc = p]
         \/ disp' = [disp EXCEPT !.rx = None]
    BY <1>5 DEF WriteBodyRefused, WriteBodyError
  <2>3. disp'.pc \in {"write", "err"}
    BY <1>1, <2>2 DEF DispRec
  <2> QED  BY <1>2, <2>1, <2>3 DEF Onward, SameQueue
<1>6. ASSUME Writes(conn, conn') \/ conn' = conn
      PROVE  Onward(conn, conn')
  BY <1>6, OnwardWhen DEF Writes, Onward
<1>7. ASSUME NEW n \in FrameSizes, WriteBodyData(n) \/ WriteBodyLast(n)
      PROVE  IdleInv'
  <2>1. /\ conn.writing = "Body"
        /\ \/ conn' = conn \/ conn' = WriteBody(conn, n)
           \/ conn' = EndBody(conn).c \/ conn' = WriteBodyAndEnd(conn, n)
    BY <1>7 DEF WriteBodyData, WriteBodyLast, CanWriteBody
  <2>2. n \in Nat
    BY DispatcherAssumption
  <2>3. Writes(conn, conn') \/ conn' = conn
    BY <1>1, <2>1, <2>2, WriteBodyOK, EndBodyOK, WriteBodyAndEndOK
  <2>4. SameQueue(conn, conn')
    BY <1>1, <2>1, <2>2, WriteBodyQueue DEF SameQueue
  <2> QED  BY <1>2, <1>3, <1>6, <1>7, <2>3, <2>4
<1>8. CASE WriteBodyTrailers
  <2>1. conn.writing = "Body" /\ conn' \in WriteTrailers(conn) /\ disp' = [disp EXCEPT !.rx = None]
    BY <1>8 DEF WriteBodyTrailers, CanWriteBody
  <2>2. disp'.pc = "write"
    BY <1>1, <2>1 DEF DispRec
  <2>3. Writes(conn, conn')
    BY <1>1, <2>1, WriteTrailersOK
  <2>4. SameQueue(conn, conn')
    BY <1>1, <2>1, WriteBodyQueue
  <2> QED  BY <1>2, <1>6, <2>2, <2>3, <2>4
<1>9. CASE WriteBodyEnd
  <2>1. conn.writing = "Body" /\ conn' = EndBody(conn).c
        /\ \E p \in {"write", "err"} : disp' = [disp EXCEPT !.rx = None, !.pc = p]
    BY <1>1, <1>9 DEF WriteBodyEnd, CanWriteBody
  <2>2. disp'.pc \in {"write", "err"}
    BY <1>1, <2>1 DEF DispRec
  <2>3. Writes(conn, conn')
    BY <1>1, <2>1, EndBodyOK
  <2>4. SameQueue(conn, conn')
    BY <1>1, <2>1, WriteBodyQueue
  <2> QED  BY <1>2, <1>6, <2>2, <2>3, <2>4
<1> QED  BY <1>4, <1>5, <1>7, <1>8, <1>9

\* No body (any more): an idle connection with an empty queue would have
\* asked for the next request, so that a message is in progress.
LEMMA WriteNoBodyIdle ==
  ASSUME Flatten, DInv, IdleInv, WriteNoBody
  PROVE  IdleInv'
<1>0. held' = held /\ disp.pc = "write" /\ ~WantsMsg /\ disp.rx = None
  BY DEF WriteNoBody, Channel, vars
<1>1. /\ ConnOK(conn) /\ conn \in ConnRec /\ disp \in DispRec /\ conn.wq = 0
      /\ Served(disp.pc, conn, held) /\ disp.pc \notin {"head", "err"} \cup Over
  BY <1>0 DEF DInv, IdleInv, ConnOK, Over
<1>2. CASE CanWriteBody(conn)
  <2>1. /\ conn' = EndBody(conn).c /\ conn.writing = "Body"
        /\ \E p \in {"write", "err"} : disp' = [disp EXCEPT !.pc = p]
    BY <1>0, <1>2 DEF WriteNoBody, CanWriteBody
  <2>2. disp'.pc \in {"write", "err"}
    BY <1>1, <2>1, GoesTo
  <2>3. Writes(conn, conn')
    BY <1>1, <2>1, EndBodyOK
  <2>4. conn'.wq = 0
    BY <1>1, <2>1, WriteBodyQueue DEF SameQueue
  <2>5. Onward(conn, conn')
    BY <2>3, OnwardWhen DEF Writes
  <2>6. Served(disp'.pc, conn', held')
    BY <1>0, <1>1, <2>5, ServedOnward
  <2> QED  BY <2>2, <2>4, <2>6, IdleElsewhere
<1>3. CASE ~CanWriteBody(conn)
  <2>1. disp' = Returns(FALSE) /\ conn' = conn
    BY <1>3 DEF WriteNoBody
  <2>2. disp'.pc # "want"
    BY <1>1, <2>1, ReturnsOK
  <2>3. IsMidMessage(conn)
    <3>1. held # {} => CanReadHead(conn) \/ conn.reading = "Closed"
      BY <1>1 DEF Served
    <3>2. ~CanWriteHead(conn) \/ held # {}
      BY <1>0 DEF WantsMsg
    <3> QED  BY <1>1, <3>1, <3>2 DEF IsMidMessage, CanWriteHead, CanReadHead
  <2>4. Idles(conn')
    BY <2>1, <2>3 DEF Idles
  <2>5. Served(disp'.pc, conn', held')
    BY <1>0, <1>1, <2>1, ServedOnward DEF Onward
  <2> QED  BY <1>1, <2>1, <2>2, <2>4, <2>5, IdleReturns
<1> QED  BY <1>2, <1>3

\* poll_flush after poll_write: it ends the poll only with nothing to tell,
\* and leaves no bytes behind unless the socket will wake the task.
LEMMA FlushIdle ==
  ASSUME DInv, IdleInv, Flush
  PROVE  IdleInv'
<1>0. held' = held /\ woken' = woken /\ disp.pc = "flush"
  BY DEF Flush, Local, Channel, vars
<1>1. /\ ConnOK(conn) /\ disp \in DispRec /\ conn.wq = 0
      /\ Served(disp.pc, conn, held) /\ disp.pc \notin {"head", "err"} \cup Over
      /\ ~woken => conn.notify \/ Idles(conn)
  BY <1>0 DEF DInv, IdleInv, Hears, Over
<1>2. PICK f \in PollFlush(conn) :
        LET writeAgain == /\ ~disp.closing /\ disp.rx # None /\ CanWriteBody(f.c)
                          /\ disp.wready \/ f.how = "ready"
            readAgain  == f.c.notify
        IN  /\ conn' = IF f.how = "err" THEN f.c ELSE [f.c EXCEPT !.notify = FALSE]
            /\ disp' = CASE f.how = "err" -> [disp EXCEPT !.pc = "err"]
                         [] f.how # "err" /\ readAgain -> [disp EXCEPT !.pc = "loop"]
                         [] f.how # "err" /\ ~readAgain /\ writeAgain ->
                              [disp EXCEPT !.pc = "write", !.again = TRUE]
                         [] OTHER -> [disp EXCEPT !.pc = "finish"]
  BY DEF Flush
<1>3. /\ conn' = f.c \/ conn' = Quiet(f.c)
      /\ f.how # "err" => conn' = Quiet(f.c)
      /\ \/ \E p \in {"err", "loop"} : disp' = [disp EXCEPT !.pc = p]
         \/ disp' = [disp EXCEPT !.pc = "write", !.again = TRUE]
         \/ f.how # "err" /\ ~f.c.notify /\ disp' = [disp EXCEPT !.pc = "finish"]
  BY <1>2, Zenon DEF Quiet
<1>4. /\ f.how \in {"ready", "pending", "err"} /\ ConnOK(f.c) /\ f.c \in ConnRec
      /\ Settles(conn, f.c)
  BY <1>1, PollFlushOK DEF ConnOK
<1>5. /\ Tells(conn, f.c) /\ conn.armed \subseteq f.c.armed /\ f.c.wq = 0
      /\ f.how = "ready" => ~Stuck(conn)
      /\ f.how = "pending" => Stuck(f.c)
  BY <1>1, PollFlushIo
<1>6. SameState(f.c, Quiet(f.c))
  BY <1>4, QuietOK
<1>7. /\ Quiet(f.c).armed = f.c.armed /\ Quiet(f.c).wh = f.c.wh /\ Quiet(f.c).wq = f.c.wq
      /\ Quiet(f.c).full = f.c.full
  BY <1>4 DEF Quiet, ConnRec
<1>8. conn'.wq = 0
  BY <1>3, <1>5, <1>7
<1>9. Onward(conn, conn')
  <2>1. Onward(conn, f.c)
    BY <1>4, OnwardWhen
  <2> QED  BY <1>3, <1>6, <2>1 DEF Onward, SameState, CanReadHead
<1>10. Served(disp'.pc, conn', held')
  BY <1>0, <1>1, <1>9, ServedOnward
<1>11. CASE \/ \E p \in {"err", "loop"} : disp' = [disp EXCEPT !.pc = p]
            \/ disp' = [disp EXCEPT !.pc = "write", !.again = TRUE]
  <2>1. disp'.pc \in {"err", "loop", "write"}
    BY <1>1, <1>11 DEF DispRec
  <2> QED  BY <1>8, <1>10, <2>1, IdleElsewhere
<1>12. CASE f.how # "err" /\ ~f.c.notify /\ disp' = [disp EXCEPT !.pc = "finish"]
  <2>1. conn' = Quiet(f.c) /\ disp'.pc # "want"
    BY <1>1, <1>3, <1>12, GoesTo
  <2>2. ~woken => Idles(f.c)
    <3>1. CASE f.c.reading = "Closed"
      BY <3>1 DEF Idles, IsMidMessage
    <3>2. CASE SameState(conn, f.c) /\ SameIo(conn, f.c)
      <4>1. ~woken => Idles(conn)
        BY <1>1, <1>12, <3>2 DEF SameIo
      <4>2. Stuck(conn) => Stuck(f.c)
        BY <1>4, <1>5, <1>12
      <4> QED  BY <1>5, <3>2, <4>1, <4>2 DEF Idles, IsMidMessage, SameState
    <3> QED  BY <1>5, <1>12, <3>1, <3>2 DEF Tells
  <2>3. Idles(f.c) => Idles(Quiet(f.c))
    BY <1>6, <1>7 DEF Idles, IsMidMessage, SameState, Stuck
  <2> QED  BY <1>0, <1>8, <1>10, <2>1, <2>2, <2>3, IdleReturns
<1> QED  BY <1>3, <1>11, <1>12

\* poll_loop and poll_inner.
LEMMA LoopIdle ==
  ASSUME DInv, WakeInv, IdleInv, LoopAgain \/ LoopYield \/ Finish \/ Shutdown \/ Poll \/ Aborted
  PROVE  IdleInv'
<1>0. held' = held /\ disp.pc \in {"loop", "finish", "shutdown", "parked"}
  BY DEF LoopAgain, LoopYield, Finish, Shutdown, Poll, Aborted, Channel, vars
<1>1. /\ ConnOK(conn) /\ conn \in ConnRec /\ disp \in DispRec /\ Flow(disp, conn) /\ conn.wq = 0
      /\ Served(disp.pc, conn, held) /\ disp.pc \notin {"head", "err"} \cup Over
  BY <1>0 DEF DInv, WakeInv, IdleInv, ConnOK, Over
<1>2. ASSUME NEW p, NEW x, \/ disp' = [disp EXCEPT !.pc = p, !.again = FALSE]
                           \/ disp' = [disp EXCEPT !.pc = p, !.result = x]
                           \/ disp' = [disp EXCEPT !.pc = p]
      PROVE  disp'.pc = p
  BY <1>1, <1>2 DEF DispRec
<1>3. conn' = conn => conn'.wq = 0 /\ Served(disp'.pc, conn', held')
  BY <1>0, <1>1, ServedOnward DEF Onward
<1>4. CASE LoopAgain \/ Poll
  <2>1. disp' = [disp EXCEPT !.pc = "read", !.again = FALSE] /\ conn' = conn
    BY <1>4 DEF LoopAgain, Poll
  <2>2. disp'.pc = "read"
    BY <1>2, <2>1
  <2> QED  BY <1>3, <2>1, <2>2, IdleElsewhere
<1>5. CASE LoopYield
  <2>1. conn' = conn /\ woken'
    BY <1>5 DEF LoopYield
  <2> QED  BY <1>3, <2>1 DEF IdleInv
<1>6. CASE Aborted
  <2>1. disp' = [disp EXCEPT !.pc = "ended", !.result = "aborted"] /\ conn' = conn
    BY <1>6 DEF Aborted
  <2>2. disp'.pc = "ended"
    BY <1>2, <2>1
  <2> QED  BY <1>3, <2>1, <2>2, IdleElsewhere
<1>7. CASE Finish
  <2>1. /\ conn' = conn /\ woken' = woken /\ disp.pc = "finish"
        /\ \/ disp' = [disp EXCEPT !.pc = "parked", !.again = FALSE]
           \/ disp' = [disp EXCEPT !.pc = "ended", !.result = "upgrade"]
           \/ disp' = [disp EXCEPT !.pc = "err"]
           \/ disp' = [disp EXCEPT !.pc = "shutdown"]
    BY <1>7, Zenon DEF Finish, Local
  <2>2. disp'.pc # "want"
    BY <1>2, <2>1
  <2>3. woken \/ Idles(conn)
    BY <2>1 DEF IdleInv, Hears
  <2> QED  BY <1>3, <2>1, <2>2, <2>3, IdleReturns
<1>8. CASE Shutdown
  <2>1. /\ disp.pc = "shutdown"
        /\ conn' = conn \/ conn' = Arm(conn, "write")
        /\ \/ disp' = [disp EXCEPT !.pc = "err"]
           \/ disp' = [disp EXCEPT !.pc = "ended", !.result = "shutdown"]
           \/ disp' = [disp EXCEPT !.pc = "parked", !.again = FALSE]
    BY <1>8 DEF Shutdown
  <2>2. disp'.pc # "want"
    BY <1>2, <2>1
  <2>3. Arm(conn, "write").wq = 0 /\ SameState(conn, Arm(conn, "write"))
    BY <1>1, ArmOK, ArmIo DEF SameOut, Wakers
  <2>4. conn.reading = "Closed"
    BY <1>1, <2>1 DEF Flow
  <2>5. conn'.wq = 0 /\ conn'.reading = "Closed"
    BY <1>1, <2>1, <2>3, <2>4 DEF SameState
  <2>6. Served(disp'.pc, conn', held')
    BY <1>0, <1>1, <2>5, ServedClosed
  <2>7. Idles(conn')
    BY <2>5 DEF Idles, IsMidMessage
  <2> QED  BY <2>2, <2>5, <2>6, <2>7, IdleReturns
<1> QED  BY <1>4, <1>5, <1>6, <1>7, <1>8

\* The end of the task.
LEMMA EndIdle ==
  ASSUME DInv, IdleInv, EndStep
  PROVE  IdleInv'
<1>1. disp \in DispRec /\ conn.wq = 0 /\ Served(disp.pc, conn, held)
  BY DEF DInv, IdleInv
<1>2. conn' = conn
  BY DEF EndStep, CatchClose, CatchCloseInner, CatchTryRecv, CatchClosed, DropReceiver, DropRest,
         CatchCallback, DropCallback, Local
<1>3. held' \subseteq held
  BY DEF EndStep, CatchClose, CatchCloseInner, CatchTryRecv, CatchClosed, DropReceiver, DropRest,
         CatchCallback, DropCallback, CloseCancel, CloseInner, CloseTryRecv, DropCancel, DropInner,
         SendErr, Channel, vars
<1>4. disp'.pc \in Over
  BY <1>1, EndsOver
<1>5. Served(disp'.pc, conn', held')
  BY <1>1, <1>3, <1>4 DEF Served
<1> QED  BY <1>1, <1>2, <1>4, <1>5, IdleElsewhere DEF Over

\* Every step keeps it.
LEMMA StepIdle ==
  ASSUME Flatten
  PROVE  DInv /\ WakeInv /\ IdleInv /\ [DNext]_dvars => IdleInv'
<1> SUFFICES ASSUME DInv, WakeInv, IdleInv, [DNext]_dvars
             PROVE  IdleInv'
  OBVIOUS
<1>1. CASE UNCHANGED dvars
  <2>1. UNCHANGED <<conn, disp, woken, held>>
    BY <1>1 DEF dvars, vars
  <2> QED  BY <2>1 DEF IdleInv
<1>2. CASE ReadStep
  BY <1>2, ReadIdle
<1>3. CASE WriteStep
  BY <1>3, TakeIdle, WriteHeadIdle, WriteFullIdle, WriteBodyIdle, WriteNoBodyIdle DEF WriteStep
<1>4. CASE LoopStep \/ Poll \/ Aborted
  BY <1>4, FlushIdle, LoopIdle DEF LoopStep
<1>5. CASE EndStep
  BY <1>5, EndIdle
<1>6. CASE \/ ServerStep \/ ProducerReady
           \/ \E h \in Handle : Caller(h)
           \/ \E r \in Req : CallerLeaves(r) \/ ConsumerStep(r)
  BY <1>6, OthersIdle
<1> QED  BY <1>1, <1>2, <1>3, <1>4, <1>5, <1>6 DEF DNext, TaskStep

\* With WriteStrategy::Flatten (State::idle, "poll the pending requests
\* stream"): a task that sleeps with an idle, flushed connection has polled
\* the request channel, so that the next request wakes it.  With
\* WriteStrategy::Queue it may not have.
THEOREM IdleListensFlat ==
  ASSUME Flatten
  PROVE  DSafety => []IdleListens
<1>1. DInit => IdleInv
  <2> SUFFICES ASSUME DInit PROVE IdleInv
    OBVIOUS
  <2>1. woken /\ held = {} /\ conn.wq = 0
    BY DEF DInit, Init, NewConn
  <2> QED  BY <2>1 DEF IdleInv, Served
<1>2. DInv /\ IdleInv => IdleListens
  <2> SUFFICES ASSUME DInv, IdleInv, disp.pc = "parked", ~woken, ~IsMidMessage(conn), conn.wh + conn.wq = 0
               PROVE  "recv" \in conn.armed
    BY DEF IdleListens, Asleep
  <2>1. Idles(conn)
    BY DEF IdleInv, Hears
  <2>2. ~Stuck(conn)
    BY DEF Stuck
  <2> QED  BY <2>1, <2>2 DEF Idles
<1>3. DSafety => [](DInv /\ IInv /\ WakeInv)
  BY WakeInvariance
<1>4. DInv /\ WakeInv /\ IdleInv /\ [DNext]_dvars => IdleInv'
  BY StepIdle
<1>5. DSafety => [](DInv /\ IdleInv)
  BY <1>1, <1>3, <1>4, PTL DEF DSafety
<1> QED  BY <1>2, <1>5, PTL
=============================================================================
