--------------------------- MODULE DispatchChannel ---------------------------
(***************************************************************************)
(* dispatch.rs: the channel between `SendRequest` handles and the task     *)
(* that drives a connection.  An unbounded tokio mpsc queue of envelopes   *)
(* (request + oneshot callback) throttled by a `want` Giver/Taker pair.    *)
(*                                                                         *)
(* Bounded = TRUE is `Sender` (HTTP/1: one handle, give() and              *)
(* buffered_once in front of the queue); Bounded = FALSE is                *)
(* `UnboundedSender` (HTTP/2: any number of clones, straight to the        *)
(* queue).  Handles and the connection task run on different threads, so   *)
(* every call is split at its atomic operations: try_send is give() then   *)
(* the mpsc push, poll_recv is the mpsc poll then want(), close() and Drop *)
(* are cancel() then the mpsc close.                                       *)
(***************************************************************************)
EXTENDS Naturals, Sequences

CONSTANTS
  Req,        \* requests, each sent at most once
  Handle,     \* Sender / UnboundedSender handles
  Bounded,    \* TRUE: Sender (not Clone); FALSE: UnboundedSender
  None        \* no request

ASSUME ChannelAssumption ==
  /\ Bounded \in BOOLEAN
  /\ None \notin Req
  /\ Bounded => \A g, h \in Handle : g = h

VARIABLES
  want,          \* state of the want::Giver/Taker pair
  bufferedOnce,  \* Sender::buffered_once
  txpc,          \* where each handle is
  txreq,         \* the request a handle is inside try_send with
  queue,         \* the mpsc queue of envelopes
  inner,         \* "open", "closed" (Receiver::close) or "dropped"
  rx,            \* where the Receiver is
  held,          \* requests taken off the queue whose Callback is alive
  written,       \* requests of which the connection serialized something
  promise        \* what the caller knows about each request

vars == <<want, bufferedOnce, txpc, txreq, queue, inner, rx, held, written, promise>>
txVars == <<bufferedOnce, txpc, txreq>>

-----------------------------------------------------------------------------
WantStates == {"Idle", "Want", "Give", "Closed"}
TxStates == {"idle", "wait", "ready", "push", "gone"}
RxStates == {"idle", "empty", "cancel", "closed", "ended", "drop", "gone"}
PromiseStates == {"unsent", "sending", "pending", "ok", "error", "returned", "abandoned"}

TypeOK ==
  /\ want \in WantStates
  /\ bufferedOnce \in BOOLEAN
  /\ txpc \in [Handle -> TxStates]
  /\ txreq \in [Handle -> Req \cup {None}]
  /\ queue \in Seq(Req)
  /\ inner \in {"open", "closed", "dropped"}
  /\ rx \in RxStates
  /\ held \in SUBSET Req
  /\ written \in SUBSET Req
  /\ promise \in [Req -> PromiseStates]
  /\ \A h \in Handle : txpc[h] = "push" <=> txreq[h] # None

Init ==
  /\ want = "Idle"
  /\ bufferedOnce = FALSE
  /\ txpc = [h \in Handle |-> "idle"]
  /\ txreq = [h \in Handle |-> None]
  /\ queue = <<>>
  /\ inner = "open"
  /\ rx = "idle"
  /\ held = {}
  /\ written = {}
  /\ promise = [r \in Req |-> "unsent"]

Queued(r) == \E i \in 1..Len(queue) : queue[i] = r

\* Callback::send and Callback::drop: a result for a caller that is gone is lost.
Tell(r, a) == [promise EXCEPT ![r] = IF @ = "pending" THEN a ELSE @]

\* want() and cancel() wake the handle parked in poll_want.
Wake == txpc' = [h \in Handle |-> IF txpc[h] = "wait" THEN "idle" ELSE txpc[h]]

-----------------------------------------------------------------------------
(* The handles.                                                            *)

\* Sender::poll_ready.  Closed makes it an error that changes nothing.
PollReady(h) ==
  /\ Bounded
  /\ txpc[h] = "idle"
  /\ \/ /\ want = "Want"
        /\ txpc' = [txpc EXCEPT ![h] = "ready"]
        /\ UNCHANGED want
     \/ /\ want \in {"Idle", "Give"}
        /\ txpc' = [txpc EXCEPT ![h] = "wait"]
        /\ want' = "Give"
  /\ UNCHANGED <<bufferedOnce, txreq, queue, inner, rx, held, written, promise>>

\* Mutant of TrySend: the sender forgets that it used its free message.
TrySendForgets(h, r) ==
  /\ Bounded
  /\ txpc[h] \in {"idle", "wait", "ready"}
  /\ promise[r] = "unsent"
  /\ want' = IF want = "Want" THEN "Idle" ELSE want
  /\ txpc' = [txpc EXCEPT ![h] = "push"]
  /\ txreq' = [txreq EXCEPT ![h] = r]
  /\ promise' = [promise EXCEPT ![r] = "sending"]
  /\ UNCHANGED <<bufferedOnce, queue, inner, rx, held, written>>

\* The admission half of Sender::try_send: giver.give() || !buffered_once.
TrySend(h, r) ==
  /\ Bounded
  /\ txpc[h] \in {"idle", "wait", "ready"}
  /\ promise[r] = "unsent"
  /\ want' = IF want = "Want" THEN "Idle" ELSE want
  /\ \/ /\ want = "Want" \/ ~bufferedOnce
        /\ bufferedOnce' = TRUE
        /\ txpc' = [txpc EXCEPT ![h] = "push"]
        /\ txreq' = [txreq EXCEPT ![h] = r]
        /\ promise' = [promise EXCEPT ![r] = "sending"]
     \/ /\ want # "Want" /\ bufferedOnce
        /\ txpc' = [txpc EXCEPT ![h] = "idle"]
        /\ promise' = [promise EXCEPT ![r] = "returned"]
        /\ UNCHANGED <<bufferedOnce, txreq>>
  /\ UNCHANGED <<queue, inner, rx, held, written>>

\* mpsc::UnboundedSender::send: a closed queue hands the envelope back.
Send(r) ==
  \/ /\ inner = "open"
     /\ queue' = Append(queue, r)
     /\ promise' = [promise EXCEPT ![r] = "pending"]
  \/ /\ inner # "open"
     /\ promise' = [promise EXCEPT ![r] = "returned"]
     /\ UNCHANGED queue

\* Mutant of TrySendPush: the handle keeps the request it pushed.
TrySendPushKeeps(h) ==
  /\ txpc[h] = "push"
  /\ Send(txreq[h])
  /\ txpc' = [txpc EXCEPT ![h] = "idle"]
  /\ UNCHANGED <<want, bufferedOnce, txreq, inner, rx, held, written>>

\* The queue half of Sender::try_send.
TrySendPush(h) ==
  /\ txpc[h] = "push"
  /\ Send(txreq[h])
  /\ txpc' = [txpc EXCEPT ![h] = "idle"]
  /\ txreq' = [txreq EXCEPT ![h] = None]
  /\ UNCHANGED <<want, bufferedOnce, inner, rx, held, written>>

\* UnboundedSender::try_send.
TrySendUnbounded(h, r) ==
  /\ ~Bounded
  /\ txpc[h] = "idle"
  /\ promise[r] = "unsent"
  /\ Send(r)
  /\ UNCHANGED <<want, txVars, inner, rx, held, written>>

\* The caller drops a handle (between calls).
DropHandle(h) ==
  /\ txpc[h] \in {"idle", "wait", "ready"}
  /\ txpc' = [txpc EXCEPT ![h] = "gone"]
  /\ UNCHANGED <<want, bufferedOnce, txreq, queue, inner, rx, held, written, promise>>

\* The caller drops the future of a request: the oneshot receiver is gone.
Abandon(r) ==
  /\ promise[r] = "pending"
  /\ promise' = [promise EXCEPT ![r] = "abandoned"]
  /\ UNCHANGED <<want, txVars, queue, inner, rx, held, written>>

-----------------------------------------------------------------------------
(* The connection task's end.                                              *)

\* Client::should_poll: HTTP/1 takes a request only when none is in flight.
MayPoll == rx = "idle" /\ (Bounded => held = {})

\* Mutant of RecvItem: taking a request withdraws the want signal.
RecvItemUnwants ==
  /\ MayPoll
  /\ queue # <<>>
  /\ queue' = Tail(queue)
  /\ held' = held \cup {Head(queue)}
  /\ want' = IF want = "Want" THEN "Idle" ELSE want
  /\ UNCHANGED <<txVars, inner, rx, written, promise>>

\* Receiver::poll_recv, Ready(Some).  The taker checks is_canceled first and
\* drops an abandoned request (the HTTP/1 Client then ends the connection).
RecvItem ==
  /\ MayPoll
  /\ queue # <<>>
  /\ queue' = Tail(queue)
  /\ \/ /\ promise[Head(queue)] = "pending"
        /\ held' = held \cup {Head(queue)}
     \/ /\ promise[Head(queue)] = "abandoned"
        /\ UNCHANGED held
  /\ UNCHANGED <<want, txVars, inner, rx, written, promise>>

\* Receiver::poll_recv, the mpsc poll that finds nothing.
RecvEmpty ==
  /\ MayPoll
  /\ queue = <<>>
  /\ \E h \in Handle : txpc[h] # "gone"
  /\ rx' = "empty"
  /\ UNCHANGED <<want, txVars, queue, inner, held, written, promise>>

\* Mutant of RecvWant: poll_recv returns Pending without calling want().
RecvWantSkipped ==
  /\ rx = "empty"
  /\ rx' = "idle"
  /\ UNCHANGED <<want, txVars, queue, inner, held, written, promise>>

\* ... and the taker.want() that follows.
RecvWant ==
  /\ rx = "empty"
  /\ rx' = "idle"
  /\ want' = "Want"
  /\ Wake
  /\ UNCHANGED <<bufferedOnce, txreq, queue, inner, held, written, promise>>

\* Receiver::poll_recv, Ready(None): every handle is gone.
RecvEnd ==
  /\ MayPoll
  /\ queue = <<>>
  /\ \A h \in Handle : txpc[h] = "gone"
  /\ rx' = "ended"
  /\ UNCHANGED <<want, txVars, queue, inner, held, written, promise>>

\* Client::recv_msg(Err) with no request in flight: Receiver::close, first
\* half.
CloseCancel ==
  /\ Bounded /\ held = {}
  /\ rx = "idle"
  /\ rx' = "cancel"
  /\ want' = "Closed"
  /\ Wake
  /\ UNCHANGED <<bufferedOnce, txreq, queue, inner, held, written, promise>>

\* Receiver::close, second half.
CloseInner ==
  /\ rx = "cancel"
  /\ rx' = "closed"
  /\ inner' = "closed"
  /\ UNCHANGED <<want, txVars, queue, held, written, promise>>

\* ... then try_recv: a request still queued gets its message back.
CloseTryRecv ==
  /\ rx = "closed"
  /\ rx' = "ended"
  /\ \/ /\ queue # <<>>
        /\ queue' = Tail(queue)
        /\ promise' = Tell(Head(queue), "returned")
     \/ queue = <<>> /\ UNCHANGED <<queue, promise>>
  /\ UNCHANGED <<want, txVars, inner, held, written>>

\* Mutant of DropCancel: the mpsc receiver drops before the giver is told.
DropUnannounced ==
  /\ rx \in {"idle", "ended"}
  /\ rx' = "drop"
  /\ UNCHANGED <<want, txVars, queue, inner, held, written, promise>>

\* Drop for Receiver: the task finished, or the runtime dropped it.
DropCancel ==
  /\ rx \in {"idle", "ended"}
  /\ rx' = "drop"
  /\ want' = "Closed"
  /\ Wake
  /\ UNCHANGED <<bufferedOnce, txreq, queue, inner, held, written, promise>>

\* Mutant of DropInner: no Drop for Envelope.
DropInnerSilent ==
  /\ rx = "drop"
  /\ rx' = "gone"
  /\ inner' = "dropped"
  /\ queue' = <<>>
  /\ UNCHANGED <<want, txVars, held, written, promise>>

\* Mutant of DropInner: the senders keep the queue alive.
DropInnerKeeps ==
  /\ rx = "drop"
  /\ rx' = "gone"
  /\ inner' = "dropped"
  /\ UNCHANGED <<want, txVars, queue, held, written, promise>>

\* The mpsc receiver drops, and with it every Envelope still queued.
DropInner ==
  /\ rx = "drop"
  /\ rx' = "gone"
  /\ inner' = "dropped"
  /\ queue' = <<>>
  /\ promise' = [r \in Req |-> IF Queued(r) /\ promise[r] = "pending"
                               THEN "returned" ELSE promise[r]]
  /\ UNCHANGED <<want, txVars, held, written>>

-----------------------------------------------------------------------------
(* What the connection does with a request it has taken.                   *)

\* The connection serializes (part of) the request.
Serialize(r) ==
  /\ r \in held \ written
  /\ written' = written \cup {r}
  /\ UNCHANGED <<want, txVars, queue, inner, rx, held, promise>>

\* Callback::send(Ok(response)).
SendOk(r) ==
  /\ r \in held \cap written
  /\ held' = held \ {r}
  /\ promise' = Tell(r, "ok")
  /\ UNCHANGED <<want, txVars, queue, inner, rx, written>>

\* Mutant of SendErr: the error carries the message although it was written.
SendErrReturns(r) ==
  /\ r \in held
  /\ held' = held \ {r}
  /\ promise' = Tell(r, "returned")
  /\ UNCHANGED <<want, txVars, queue, inner, rx, written>>

\* Callback::send(Err) with no message, or the Callback is dropped.
SendErr(r) ==
  /\ r \in held
  /\ held' = held \ {r}
  /\ promise' = Tell(r, "error")
  /\ UNCHANGED <<want, txVars, queue, inner, rx, written>>

-----------------------------------------------------------------------------
HandleStep(h) ==
  \/ PollReady(h)
  \/ TrySendPush(h)
  \/ DropHandle(h)
  \/ \E r \in Req : IF Bounded THEN TrySend(h, r) ELSE TrySendUnbounded(h, r)

ReceiverStep ==
  \/ RecvItem \/ RecvEmpty \/ RecvWant \/ RecvEnd
  \/ CloseCancel \/ CloseInner \/ CloseTryRecv
  \/ DropCancel \/ DropInner

CallbackStep(r) == Serialize(r) \/ SendOk(r) \/ SendErr(r)

Next ==
  \/ \E h \in Handle : HandleStep(h)
  \/ ReceiverStep
  \/ \E r \in Req : CallbackStep(r) \/ Abandon(r)

Safety == Init /\ [][Next]_vars

(***************************************************************************)
(* Fairness.  A call that began finishes (no step of it blocks).  The      *)
(* connection task is polled while it lives and dropped once it ended; a   *)
(* taken request is eventually answered or its callback dropped.  Callers  *)
(* are not fair: nobody has to send, to wait or to drop anything.          *)
(***************************************************************************)
Fairness ==
  /\ \A h \in Handle : WF_vars(TrySendPush(h))
  /\ WF_vars(RecvItem) /\ WF_vars(RecvEmpty) /\ WF_vars(RecvWant) /\ WF_vars(RecvEnd)
  /\ WF_vars(CloseInner) /\ WF_vars(CloseTryRecv) /\ WF_vars(DropInner)
  /\ WF_vars(rx = "ended" /\ DropCancel)
  /\ \A r \in Req : WF_vars(SendOk(r) \/ SendErr(r))

Spec == Safety /\ Fairness

-----------------------------------------------------------------------------
(* Properties.                                                             *)

\* "Actually bounded by the Giver, plus `buffered_once`" (dispatch.rs:55).
\* want() is called after the queue was seen empty, so the handle may have
\* pushed in between; at worst an unused Want, a poll that is about to call
\* want() and a push in progress coexist on an empty queue: three requests.
QueueBounded == Bounded => Len(queue) <= 3

\* A Callback is neither lost nor duplicated: a request whose caller waits
\* is in the queue once or held by the connection, never both.  This is what
\* makes `panic!("dispatch dropped without returning error")` in
\* try_send_request unreachable.
OneCallback ==
  /\ \A r \in Req : promise[r] = "pending" => (Queued(r) \/ r \in held)
  /\ \A r \in held : ~Queued(r)
  /\ \A i, j \in 1..Len(queue) : queue[i] = queue[j] => i = j

\* TrySendError::message: a request that was handed back was never
\* serialized, is not in the queue and is not in the connection's hands, so
\* it can be sent again on another connection.
ReturnedIsUnsent ==
  \A r \in Req : promise[r] = "returned" => r \notin written /\ ~Queued(r) /\ r \notin held

\* Drop for Receiver "notify the giver about the closure first": once a
\* push can fail because the queue closed, every handle already reads the
\* connection as closed.
CloseIsVisible == inner # "open" => want = "Closed"

\* A handle that poll_ready told "ready" is not refused by its next try_send
\* unless the connection closed in between.
ReadyIsKept == \A h \in Handle : txpc[h] = "ready" => want \in {"Want", "Closed"}

\* A handle parked in poll_ready is registered where the next want() or
\* cancel() finds it: no lost wake-up.
ParkedIsHeard == \A h \in Handle : txpc[h] = "wait" => want = "Give"

\* A handle waiting in poll_ready is eventually woken.
WaiterWoken == \A h \in Handle : txpc[h] = "wait" ~> txpc[h] # "wait"

-----------------------------------------------------------------------------
\* The channel implements the promise of try_send_request.
outcomeBar == [r \in Req |-> IF promise[r] = "sending" THEN "unsent" ELSE promise[r]]

Promise == INSTANCE RequestPromise WITH outcome <- outcomeBar
PromiseSpec == Promise!PSpec
=============================================================================
