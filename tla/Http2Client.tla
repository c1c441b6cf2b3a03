----------------------------- MODULE Http2Client -----------------------------
(***************************************************************************)
(* proto/http2/client.rs: the tasks of one HTTP/2 connection, composed     *)
(* with the request channel (DispatchChannel, unbounded).  ClientTask      *)
(* takes requests and opens a stream for each; every stream has a SendWhen *)
(* task for its response (dispatch.rs) and, while its request body is      *)
(* sending, a PipeMap task; ConnTask drives the h2 connection.  They run   *)
(* on different threads and meet in the h2 library, whose calls are        *)
(* atomic: one action is the code between two of them.                     *)
(*                                                                         *)
(* The library (strm, conn) is external: a stream is opened when the peer  *)
(* allows one more, it is reset when the last handle to it is dropped      *)
(* early, and the connection closes once it has neither streams nor        *)
(* handles; dropping the last SendRequest wakes nobody (the comment at     *)
(* client.rs:75).  PipeToSendStream is one step; Http2Pipe has its detail. *)
(* A parked task must be polled when a waker it left fired; it may be      *)
(* polled at any other time.                                               *)
(***************************************************************************)
EXTENDS DispatchChannel

CONSTANT Connects   \* CONNECT requests

ASSUME Http2Assumption == ~Bounded /\ Connects \subseteq Req

VARIABLES
  ct,       \* ClientTask: where it is, the request in hand, fut_ctx, wakers left
  strm,     \* per request: its h2 stream
  pipes,    \* requests with a PipeMap task
  sends,    \* requests with a SendWhen task
  told,     \* pipes whose cancel_rx was sent a message
  bodies,   \* requests whose caller holds the response
  conn,     \* the h2 connection
  ctask     \* ConnTask: "run", "parked" or "done"

tvars == <<ct, strm, pipes, sends, told, bodies, conn, ctask>>
hvars == <<tvars, vars>>

NoStream == [st |-> "none", sent |-> FALSE, rcvd |-> FALSE, resp |-> "none"]

HInit ==
  /\ Init
  /\ ct = [pc |-> "ready", cur |-> None, fut |-> None, on |-> {}]
  /\ strm = [r \in Req |-> NoStream]
  /\ pipes = {} /\ sends = {} /\ told = {} /\ bodies = {}
  /\ conn = "up"
  /\ ctask = "run"

-----------------------------------------------------------------------------
(* The h2 library.                                                         *)

Live(s) == s.st \in {"pending", "open"}

\* A stream is closed when both halves ended.
Closed(resp) == [st |-> "closed", sent |-> TRUE, rcvd |-> TRUE, resp |-> resp]
Shut(s) == IF s.sent /\ s.rcvd THEN Closed(s.resp) ELSE s

\* RST_STREAM in either direction, or the loss of the connection: whoever
\* still waits for the response gets an error.
Broken(s) == IF Live(s) THEN Closed(IF s.resp = "none" THEN "err" ELSE s.resp) ELSE s

\* SendRequest::poll_ready: an error once the connection failed or went
\* away, pending while the last stream waits to be opened.
ReadyErr == conn # "up"
ReadyOk == conn = "up" /\ \A r \in Req : strm[r].st # "pending"

HandleDropped == ct.pc \in {"drop2", "drop3", "gone"}
StreamHeld(r) == r \in pipes \cup sends \cup bodies \cup {ct.cur, ct.fut}

\* h2 wakes the task of its connection.
Notify == ctask' = IF ctask = "parked" THEN "run" ELSE ctask

\* The last handle to a stream was dropped before the stream ended.
ImplicitReset(r) ==
  /\ Live(strm[r]) /\ ~StreamHeld(r)
  /\ strm' = [strm EXCEPT ![r] = Broken(@)]
  /\ Notify
  /\ UNCHANGED <<ct, pipes, sends, told, bodies, conn, vars>>

\* The peer lets one more stream be open.
PeerOpens(r) ==
  /\ conn # "over"
  /\ strm[r].st = "pending"
  /\ strm' = [strm EXCEPT ![r].st = "open"]
  /\ UNCHANGED <<ct, pipes, sends, told, bodies, conn, ctask, vars>>

PeerResponds(r) ==
  /\ conn # "over" /\ strm[r].st = "open" /\ strm[r].resp = "none"
  /\ strm' = [strm EXCEPT ![r].resp = "ok"]
  /\ Notify
  /\ UNCHANGED <<ct, pipes, sends, told, bodies, conn, vars>>

PeerEndsStream(r) ==
  /\ conn # "over" /\ strm[r].st = "open" /\ strm[r].resp = "ok" /\ ~strm[r].rcvd
  /\ strm' = [strm EXCEPT ![r] = Shut([@ EXCEPT !.rcvd = TRUE])]
  /\ Notify
  /\ UNCHANGED <<ct, pipes, sends, told, bodies, conn, vars>>

PeerResets(r) ==
  /\ conn # "over" /\ strm[r].st = "open"
  /\ strm' = [strm EXCEPT ![r] = Broken(@)]
  /\ Notify
  /\ UNCHANGED <<ct, pipes, sends, told, bodies, conn, vars>>

\* GOAWAY: streams S were processed and go on, the others will not be.
PeerGoesAway(S) ==
  /\ conn = "up"
  /\ conn' = "goaway"
  /\ strm' = [r \in Req |-> IF r \in S /\ strm[r].st = "open" THEN strm[r] ELSE Broken(strm[r])]
  /\ Notify
  /\ UNCHANGED <<ct, pipes, sends, told, bodies, vars>>

\* An i/o or protocol error, end of stream, Ponged::KeepAliveTimedOut (which
\* makes Conn::poll return), or ConnTask dropped by the runtime.
ConnFails ==
  /\ conn # "over" /\ ctask # "done"
  /\ conn' = "over"
  /\ strm' = [r \in Req |-> Broken(strm[r])]
  /\ Notify
  /\ UNCHANGED <<ct, pipes, sends, told, bodies, vars>>

-----------------------------------------------------------------------------
(* ConnTask.                                                               *)

Unused == HandleDropped /\ \A r \in Req : ~StreamHeld(r) /\ ~Live(strm[r])

\* h2 Connection::poll is Ready.
ConnReady == conn = "over" \/ Unused \/ (conn = "goaway" /\ \A r \in Req : ~Live(strm[r]))

\* ConnTask::poll, ConnMapErr::poll: the connection is over.  cancel_tx is
\* dropped with the task.
ConnTaskDone ==
  /\ ctask = "run" /\ ConnReady
  /\ ctask' = "done"
  /\ conn' = "over"
  /\ UNCHANGED <<ct, strm, pipes, sends, told, bodies, vars>>

\* ... and otherwise the task parks (drop_rx polled, cancel_tx dropped).
ConnTaskParks ==
  /\ ctask = "run" /\ ~ConnReady
  /\ ctask' = "parked"
  /\ UNCHANGED <<ct, strm, pipes, sends, told, bodies, conn, vars>>

-----------------------------------------------------------------------------
(* ClientTask::poll.                                                       *)

CtOnly == UNCHANGED <<strm, pipes, sends, told, bodies, conn, ctask>>

\* Poll::Pending: the task sleeps, and its waker is with these sources.
Park(sources) == [ct EXCEPT !.pc = "parked", !.on = sources]

\* Which of them fired: h2 when the pending stream was opened, reset or lost,
\* the mpsc for a push or the drop of its last sender, cancel_tx when dropped.
Woken ==
  \/ "open" \in ct.on /\ (ReadyErr \/ ReadyOk)
  \/ "channel" \in ct.on /\ (queue # <<>> \/ \A h \in Handle : txpc[h] = "gone")
  \/ "eof" \in ct.on /\ ctask = "done"

\* The task is polled: poll starts again from the top.
CtPoll ==
  /\ ct.pc = "parked"
  /\ ct' = [ct EXCEPT !.pc = "ready", !.on = {}]
  /\ CtOnly /\ UNCHANGED vars

\* ... as it has to be once it was woken.
CtWake == Woken /\ CtPoll

CtNotReady ==
  /\ ct.pc = "ready" /\ ~ReadyErr /\ ~ReadyOk
  /\ ct' = Park({"open"})
  /\ CtOnly /\ UNCHANGED vars

\* poll_ready failed: the task returns, Shutdown or an error.
CtConnError ==
  /\ ct.pc = "ready" /\ ReadyErr
  /\ ct' = [ct EXCEPT !.pc = "ended"]
  /\ CtOnly /\ UNCHANGED vars

CtReady ==
  /\ ct.pc = "ready" /\ ReadyOk /\ ct.fut = None
  /\ ct' = [ct EXCEPT !.pc = "recv"]
  /\ CtOnly /\ UNCHANGED vars

\* poll_pipe(r): the request body is polled at once; it may be over (how =
\* "ok"), fail and reset the stream ("err"), or be left to a PipeMap task.
\* Then the SendWhen task is spawned.
PollPipe(r, how) ==
  /\ how \in IF r \in Connects \/ strm[r].sent THEN {"none"} ELSE {"ok", "err", "run"}
  /\ how = "run" => Live(strm[r])
  /\ pipes' = IF how = "run" THEN pipes \cup {r} ELSE pipes
  /\ strm' = [strm EXCEPT ![r] = CASE how = "ok" /\ Live(@) -> Shut([@ EXCEPT !.sent = TRUE])
                                   [] how = "err" -> Broken(@)
                                   [] OTHER -> @]
  /\ sends' = sends \cup {r}
  /\ Notify
  /\ UNCHANGED <<told, bodies, conn>>

\* Mutant of CtResume: fut_ctx is resumed before poll_ready answered.
CtResumeEarly(how) ==
  /\ ct.pc = "ready" /\ ct.fut # None
  /\ PollPipe(ct.fut, how)
  /\ ct' = [ct EXCEPT !.fut = None, !.pc = "recv"]
  /\ UNCHANGED vars

\* "If we were waiting on pending open continue where we left off."
CtResume(how) ==
  /\ ct.pc = "ready" /\ ReadyOk /\ ct.fut # None
  /\ PollPipe(ct.fut, how)
  /\ ct' = [ct EXCEPT !.fut = None]
  /\ UNCHANGED vars

\* req_rx.poll_recv, Ready(Some); a canceled request is skipped.
CtRecv ==
  /\ ct.pc = "recv"
  /\ RecvItem
  /\ ct' = IF promise[Head(queue)] = "pending"
           THEN [ct EXCEPT !.pc = "take", !.cur = Head(queue)]
           ELSE [ct EXCEPT !.pc = "ready"]
  /\ CtOnly

\* A CONNECT that declares a body, or send_request failed (connection lost
\* meanwhile, or a request h2 does not accept).
CtRefuse(r) ==
  /\ ct.pc = "take" /\ ct.cur = r
  /\ SendErr(r)
  /\ ct' = [ct EXCEPT !.pc = "ready", !.cur = None]
  /\ CtOnly

\* send_request(req, !is_connect && eos): any body may be over already.  The
\* stream waits to be opened if the peer's limit, which may change at any
\* time, is reached.
CtSendRequest(r) ==
  /\ ct.pc = "take" /\ ct.cur = r
  /\ conn = "up"
  /\ Serialize(r)
  /\ \E st \in {"open", "pending"}, eos \in IF r \in Connects THEN {FALSE} ELSE BOOLEAN :
       strm' = [strm EXCEPT ![r] = [NoStream EXCEPT !.st = st, !.sent = eos]]
  /\ Notify
  /\ ct' = [ct EXCEPT !.pc = "sent"]
  /\ UNCHANGED <<pipes, sends, told, bodies, conn>>

\* Mutant of CtSentPending: the context is not saved in fut_ctx.
CtSentPendingUnsaved ==
  /\ ct.pc = "sent" /\ ~ReadyErr /\ ~ReadyOk
  /\ ct' = [Park({"open"}) EXCEPT !.cur = None]
  /\ CtOnly /\ UNCHANGED vars

\* The second poll_ready: the new stream waits to be opened, so does the task.
CtSentPending ==
  /\ ct.pc = "sent" /\ ~ReadyErr /\ ~ReadyOk
  /\ ct' = [Park({"open"}) EXCEPT !.cur = None, !.fut = ct.cur]
  /\ CtOnly /\ UNCHANGED vars

\* Mutant of CtSentError: the message is handed back although h2 has it.
CtSentErrorReturns(r) ==
  /\ ct.pc = "sent" /\ ct.cur = r /\ ReadyErr
  /\ SendErrReturns(r) /\ Notify
  /\ ct' = [ct EXCEPT !.pc = "ready", !.cur = None]
  /\ UNCHANGED <<strm, pipes, sends, told, bodies, conn>>

\* ... or the connection failed meanwhile: the stream is dropped.
CtSentError(r) ==
  /\ ct.pc = "sent" /\ ct.cur = r /\ ReadyErr
  /\ SendErr(r) /\ Notify
  /\ ct' = [ct EXCEPT !.pc = "ready", !.cur = None]
  /\ UNCHANGED <<strm, pipes, sends, told, bodies, conn>>

CtSentOk(how) ==
  /\ ct.pc = "sent" /\ ReadyOk
  /\ PollPipe(ct.cur, how)
  /\ ct' = [ct EXCEPT !.pc = "ready", !.cur = None]
  /\ UNCHANGED vars

\* poll_recv, Pending: the mpsc poll and taker.want() ...
CtEmpty ==
  /\ ct.pc = "recv" /\ rx = "idle"
  /\ RecvEmpty
  /\ CtOnly /\ UNCHANGED ct

\* Mutant of CtWant: conn_eof is not polled.
CtWantOnly ==
  /\ ct.pc = "recv"
  /\ RecvWant
  /\ ct' = Park({"channel"})
  /\ CtOnly

\* ... then conn_eof, which ConnTask's cancel_tx closes.
CtWant ==
  /\ ct.pc = "recv"
  /\ RecvWant
  /\ ct' = IF ctask = "done" THEN [ct EXCEPT !.pc = "ended"] ELSE Park({"channel", "eof"})
  /\ CtOnly

\* poll_recv, Ready(None): every SendRequest is gone.
CtNoHandles ==
  /\ ct.pc = "recv"
  /\ RecvEnd
  /\ ct' = [ct EXCEPT !.pc = "ended"]
  /\ CtOnly

\* The runtime drops the task.
CtAborted ==
  /\ ct.pc = "parked"
  /\ ct' = [ct EXCEPT !.pc = "ended", !.on = {}]
  /\ CtOnly /\ UNCHANGED vars

\* ClientTask is dropped field by field: conn_drop_ref (the last one wakes
\* ConnTask) ...
CtDropConnRef ==
  /\ ct.pc = "ended"
  /\ ct' = [ct EXCEPT !.pc = "drop1"]
  /\ ctask' = IF ctask = "parked" /\ pipes = {} THEN "run" ELSE ctask
  /\ UNCHANGED <<strm, pipes, sends, told, bodies, conn, vars>>

\* ... h2_tx, which wakes nobody ...
CtDropHandle ==
  /\ ct.pc = "drop1"
  /\ ct' = [ct EXCEPT !.pc = "drop2"]
  /\ CtOnly /\ UNCHANGED vars

\* ... req_rx ...
CtDropRx ==
  /\ ct.pc = "drop2"
  /\ DropCancel \/ DropInner
  /\ ct' = IF rx = "drop" THEN [ct EXCEPT !.pc = "drop3"] ELSE ct
  /\ CtOnly

\* ... and fut_ctx, whose callback answers that the dispatch task is gone.
CtDropFut ==
  /\ ct.pc = "drop3"
  /\ ct' = [ct EXCEPT !.pc = "gone", !.fut = None]
  /\ IF ct.fut = None THEN UNCHANGED <<ctask, vars>> ELSE SendErr(ct.fut) /\ Notify
  /\ UNCHANGED <<strm, pipes, sends, told, bodies, conn>>

-----------------------------------------------------------------------------
(* PipeMap.  When it ends it drops its conn_drop_ref, its recorder and its *)
(* SendStream; ConnTask is woken by h2.                                    *)

PipeEnds(r, s) ==
  /\ r \in pipes
  /\ pipes' = pipes \ {r}
  /\ told' = told \ {r}
  /\ strm' = [strm EXCEPT ![r] = s]
  /\ Notify
  /\ UNCHANGED <<ct, sends, bodies, conn, vars>>

\* cancel_rx says the caller is gone: reset the stream (CANCEL).
PipeCancelled(r) == r \in told /\ PipeEnds(r, Broken(strm[r]))

\* PipeToSendStream: the body was sent to its end ...
PipeSent(r) ==
  /\ r \notin told /\ strm[r].st = "open"
  /\ PipeEnds(r, Shut([strm[r] EXCEPT !.sent = TRUE]))

\* ... or it failed, and the stream with it ...
PipeBodyError(r) == r \notin told /\ Live(strm[r]) /\ PipeEnds(r, Broken(strm[r]))

\* ... or the stream was reset under it.
PipeReset(r) == r \notin told /\ ~Live(strm[r]) /\ PipeEnds(r, strm[r])

-----------------------------------------------------------------------------
(* SendWhen::poll (dispatch.rs) over ResponseFutMap::poll.  The task ends; *)
(* a cancel_tx that was not used is dropped with it, and the pipe goes on. *)

SwEnds(r) ==
  /\ r \in sends
  /\ sends' = sends \ {r}
  /\ Notify
  /\ UNCHANGED <<ct, pipes, conn>>

\* A response.  A caller that is gone drops it, body and all; for a CONNECT
\* the upgraded stream keeps both halves.
SwResponse(r) ==
  /\ strm[r].resp = "ok"
  /\ SwEnds(r) /\ SendOk(r)
  /\ bodies' = IF promise[r] = "pending" THEN bodies \cup {r} ELSE bodies
  /\ UNCHANGED <<strm, told>>

\* A 2xx to CONNECT that declares a body: reset (INTERNAL_ERROR), an error.
SwConnectBody(r) ==
  /\ r \in Connects /\ strm[r].resp = "ok"
  /\ SwEnds(r) /\ SendErr(r)
  /\ strm' = [strm EXCEPT ![r] = Broken(@)]
  /\ UNCHANGED <<told, bodies>>

SwError(r) ==
  /\ strm[r].resp = "err"
  /\ SwEnds(r) /\ SendErr(r)
  /\ UNCHANGED <<strm, told, bodies>>

\* Mutant of SwCancelled: ResponseFutMap::cancel is not called.
SwCancelledQuietly(r) ==
  /\ strm[r].resp = "none" /\ promise[r] = "abandoned"
  /\ SwEnds(r) /\ SendErr(r)
  /\ UNCHANGED <<strm, told, bodies>>

\* No response yet and poll_canceled: tell the pipe, if there is one.
SwCancelled(r) ==
  /\ strm[r].resp = "none" /\ promise[r] = "abandoned"
  /\ SwEnds(r) /\ SendErr(r)
  /\ told' = told \cup ({r} \cap pipes)
  /\ UNCHANGED <<strm, bodies>>

-----------------------------------------------------------------------------
(* Callers.                                                                *)

HCaller(h) ==
  /\ \/ \E r \in Req : TrySendUnbounded(h, r)
     \/ DropHandle(h)
  /\ UNCHANGED tvars

HAbandon(r) == Abandon(r) /\ UNCHANGED tvars

\* The caller read the response to its end, or dropped it.
BodyDropped(r) ==
  /\ r \in bodies
  /\ bodies' = bodies \ {r}
  /\ Notify
  /\ UNCHANGED <<ct, strm, pipes, sends, told, conn, vars>>

-----------------------------------------------------------------------------
CtStep ==
  \/ CtWake \/ CtNotReady \/ CtConnError \/ CtReady
  \/ \E how \in {"none", "ok", "err", "run"} : CtResume(how) \/ CtSentOk(how)
  \/ CtRecv \/ CtEmpty \/ CtWant \/ CtNoHandles \/ CtSentPending
  \/ \E r \in Req : CtRefuse(r) \/ CtSendRequest(r) \/ CtSentError(r)
  \/ CtDropConnRef \/ CtDropHandle \/ CtDropRx \/ CtDropFut

ConnStep == ConnTaskDone \/ ConnTaskParks

PipeStep(r) == PipeCancelled(r) \/ PipeSent(r) \/ PipeBodyError(r) \/ PipeReset(r)

SwStep(r) == SwResponse(r) \/ SwConnectBody(r) \/ SwError(r) \/ SwCancelled(r)

PeerStep ==
  \/ \E r \in Req : PeerOpens(r) \/ PeerResponds(r) \/ PeerEndsStream(r) \/ PeerResets(r)
  \/ \E S \in SUBSET Req : PeerGoesAway(S)
  \/ ConnFails

HNext ==
  \/ CtStep \/ CtPoll \/ CtAborted \/ ConnStep \/ PeerStep
  \/ \E r \in Req : PipeStep(r) \/ SwStep(r) \/ ImplicitReset(r)
  \/ \E h \in Handle : HCaller(h)
  \/ \E r \in Req : HAbandon(r) \/ BodyDropped(r)

HSafety == HInit /\ [][HNext]_hvars

\* The executor polls a task that was woken until it parks: each takes its
\* steps.  A poll without a wake-up may happen and need not; neither the
\* request bodies nor the callers nor the peer have to do anything.
TaskFairness ==
  /\ WF_hvars(CtStep) /\ WF_hvars(ConnStep)
  /\ \A r \in Req : /\ WF_hvars(SwStep(r)) /\ WF_hvars(ImplicitReset(r))
                    /\ WF_hvars(PipeCancelled(r) \/ PipeReset(r))

HSpec == HSafety /\ TaskFairness

-----------------------------------------------------------------------------
(* Properties.                                                             *)

\* The type invariant of the tasks.
HTypeOK ==
  /\ ct.pc \in {"ready", "recv", "take", "sent", "parked", "ended", "drop1", "drop2", "drop3", "gone"}
  /\ ct.cur \in Req \cup {None} /\ ct.fut \in Req \cup {None}
  /\ ct.on \subseteq {"open", "channel", "eof"}
  /\ ct.pc \in {"take", "sent"} <=> ct.cur # None
  /\ ct.pc = "parked" <=> ct.on # {}
  /\ strm \in [Req -> [st : {"none", "pending", "open", "closed"}, sent : BOOLEAN,
                      rcvd : BOOLEAN, resp : {"none", "ok", "err"}]]
  /\ sends \cup bodies \subseteq Req /\ pipes \subseteq Req \ Connects
  /\ told \subseteq pipes

\* Code: FutCtx, poll_pipe, Drop for Callback.  Every request that was taken
\* off the channel and not answered has exactly one owner: the task's hands,
\* fut_ctx, or its SendWhen task.  Also when the connection fails while the
\* stream waits to be opened.
TakenHasOneOwner ==
  /\ held = ({ct.cur, ct.fut} \ {None}) \cup sends
  /\ {ct.cur, ct.fut} \cap sends = {}
  /\ ct.cur # None => ct.fut = None

\* Code: "we have to wait for the open to complete before accepting new
\* requests".  At most one request is committed to the connection beyond
\* what the peer allows; the others stay in the channel, where they can
\* still be handed back.
OnePendingOpen ==
  \A q, r \in Req : strm[q].st = "pending" /\ strm[r].st = "pending" => q = r

\* Streams without response whose caller left, other than that of a request
\* in ClientTask's hands (there, waiting to be opened, it is not watched).
Stranded ==
  {r \in Req : /\ promise[r] = "abandoned" /\ r \notin {ct.cur, ct.fut}
                /\ Live(strm[r]) /\ strm[r].resp = "none"}

\* Code: SendWhen::poll, ResponseFutMap::cancel, PipeMap::poll.  When the
\* caller of a request leaves before the response, the stream is freed even if
\* the request body never makes progress, unless the response comes first.
CancelFreesStream == Stranded # {} ~> Stranded = {}

\* Code: conn_drop_ref is there "to get around a bug in h2 where dropping all
\* SendRequests won't notify a parked Connection", and "hopefully polling the
\* connection some more should start shutdown and then close".  A connection
\* that nobody can use any more is shut down.
UnusedIsClosed == (ct.pc = "gone" /\ \A r \in Req : ~StreamHeld(r)) ~> ctask = "done"

\* Code: TrySendError, Drop for Envelope and for Callback, SendWhen.  The
\* tasks together implement RequestPromise: one answer, and the message
\* comes back only while h2 was not given it, however the connection ends.
PromiseKept == Promise!PSafety

\* Requests whose caller waits and that h2 was not given.
Unsent == {r \in Req : promise[r] = "pending" /\ r \notin written}

\* Code: poll_ready, conn_eof, SendWhen.  When the connection is over its
\* ClientTask ends, so that callers see it closed, and nobody waits for an
\* answer any more, not even if a request body never ends.  While it is going
\* away ClientTask may sleep until its streams ended, but a request that h2
\* was not given does not wait for them.
ConnEndAnswersAll ==
  /\ conn = "over" ~> (ct.pc = "gone" /\ \A r \in Req : promise[r] # "pending")
  /\ conn = "goaway" /\ Unsent # {} ~> Unsent = {}

\* Code: ClientTask and FutCtx, SendWhen, PipeMap.  The tasks that share a
\* connection stay consistent: what each holds belongs to a request that was
\* taken, and each such request has one of them to answer it.
TasksConsistent == HTypeOK /\ TakenHasOneOwner
=============================================================================
