------------------------------ MODULE Http2Pipe ------------------------------
(***************************************************************************)
(* proto/http2.rs, PipeToSendStream, inside the PipeMap task of            *)
(* proto/http2/client.rs: it moves the frames of a request body to an h2   *)
(* SendStream.  Several pipes share the flow-control window of one         *)
(* connection.  One action is one iteration of the loop of poll, or one    *)
(* poll of the task; wakers are explicit: a parked pipe runs again only    *)
(* when something it registered with happens.                              *)
(*                                                                         *)
(* The h2 library and the peer are external.  The peer is the one the code *)
(* worries about: it returns the connection window only when all of it is  *)
(* used up.                                                                *)
(***************************************************************************)
EXTENDS Naturals

CONSTANTS
  Stream,      \* streams with a request body
  Window,      \* the connection's flow-control window
  FrameSizes,  \* sizes of body frames
  MaxFrames,   \* bound: frames of a body before its end
  Stalls       \* streams whose body may stop producing

ASSUME PipeAssumption ==
  /\ Window \in Nat \ {0}
  /\ FrameSizes \subseteq Nat /\ MaxFrames \in Nat
  /\ Stalls \subseteq Stream

VARIABLES
  pipe,    \* PipeToSendStream and its task
  h2,      \* the h2 stream
  win,     \* connection window not assigned to a stream
  debt,    \* bytes the peer received and did not give back
  src      \* the body

pvars == <<pipe, h2, win, debt, src>>

PInit ==
  /\ pipe = [s \in Stream |-> [pc |-> "run", stash |-> 0, eos |-> FALSE,
                               armed |-> {}, cancel |-> FALSE]]
  /\ h2 = [s \in Stream |-> [st |-> "open", req |-> 0, avail |-> 0, buf |-> 0, given |-> 0]]
  /\ win = Window
  /\ debt = 0
  /\ src = [s \in Stream |-> [frames |-> 0, taken |-> 0, end |-> "no"]]

Done(s) == pipe[s].pc \in {"ok", "err"}
Capacity(s) == IF h2[s].avail > h2[s].buf THEN h2[s].avail - h2[s].buf ELSE 0

\* An event wakes the task if it registered for it.
WakeIf(s, e) ==
  [pipe EXCEPT ![s] = IF e \in @.armed THEN [@ EXCEPT !.pc = "run", !.armed = {}] ELSE @]

-----------------------------------------------------------------------------
(* SendStream of the h2 library.                                           *)

\* reserve_capacity(n): n more than what is buffered; less gives some back.
Surplus(s, n) == IF h2[s].avail > h2[s].buf + n THEN h2[s].avail - (h2[s].buf + n) ELSE 0
Reserved(s, n) == [h2[s] EXCEPT !.req = h2[s].buf + n, !.avail = @ - Surplus(s, n)]
Reserve(s, n) == /\ h2' = [h2 EXCEPT ![s] = Reserved(s, n)]
                 /\ win' = win + Surplus(s, n)

\* send_data(n bytes, eos).
SendData(s, n, eos) ==
  LET b == h2[s].buf + n
  IN  h2' = [h2 EXCEPT ![s].buf = b, ![s].given = @ + n, ![s].st = IF eos THEN "eos" ELSE @,
                       ![s].req = IF @ < b \/ eos THEN b ELSE @]

\* send_reset, or RST_STREAM received: capacity and buffered data are freed.
ResetStream(s) ==
  /\ h2' = [h2 EXCEPT ![s].st = "reset", ![s].req = 0, ![s].avail = 0, ![s].buf = 0]
  /\ win' = win + h2[s].avail

\* Window is assigned to a stream that asked for it.
Assign(s) ==
  LET need == h2[s].req - h2[s].avail
      n == IF need < win THEN need ELSE win
  IN  /\ h2[s].st # "reset" /\ h2[s].req > h2[s].avail /\ win > 0
      /\ h2' = [h2 EXCEPT ![s].avail = @ + n]
      /\ win' = win - n
      /\ pipe' = WakeIf(s, "capacity")
      /\ UNCHANGED <<debt, src>>

\* Buffered data goes out.
Flush(s) ==
  LET n == IF h2[s].buf < h2[s].avail THEN h2[s].buf ELSE h2[s].avail
  IN  /\ h2[s].st # "reset" /\ n > 0
      /\ h2' = [h2 EXCEPT ![s].buf = @ - n, ![s].avail = @ - n, ![s].req = @ - n]
      /\ debt' = debt + n
      /\ UNCHANGED <<pipe, win, src>>

\* WINDOW_UPDATE once the whole window is used.
PeerUpdates ==
  /\ debt = Window
  /\ win' = win + debt
  /\ debt' = 0
  /\ UNCHANGED <<pipe, h2, src>>

PeerResets(s) ==
  /\ h2[s].st # "reset"
  /\ ResetStream(s)
  /\ pipe' = WakeIf(s, "reset")
  /\ UNCHANGED <<debt, src>>

-----------------------------------------------------------------------------
(* PipeToSendStream::poll.                                                 *)

Ends(s, how) == pipe' = [pipe EXCEPT ![s] = [@ EXCEPT !.pc = how, !.armed = {}]]

Parks(s, wakers) == pipe' = [pipe EXCEPT ![s].pc = "parked", ![s].armed = wakers \cup {"cancel"}]

\* poll_reset says the peer reset the stream.
SeesReset(s) ==
  /\ pipe[s].pc = "run" /\ ~pipe[s].cancel /\ h2[s].st = "reset"
  /\ Ends(s, "err")
  /\ UNCHANGED <<h2, win, debt, src>>

Running(s) == pipe[s].pc = "run" /\ ~pipe[s].cancel /\ h2[s].st = "open"
Polling(s) == Running(s) /\ pipe[s].stash = 0

\* Mutant of WaitsForCapacity: the capacity is looked at and not polled.
WaitsForCapacityDeaf(s) ==
  /\ Running(s) /\ pipe[s].stash > 0 /\ Capacity(s) = 0
  /\ Parks(s, {"reset"})
  /\ UNCHANGED <<h2, win, debt, src>>

\* buffered_data waits in poll_capacity.
WaitsForCapacity(s) ==
  /\ Running(s) /\ pipe[s].stash > 0 /\ Capacity(s) = 0
  /\ Parks(s, {"reset", "capacity"})
  /\ UNCHANGED <<h2, win, debt, src>>

\* Some capacity: the whole chunk goes to h2, which buffers what exceeds it.
SendsStash(s) ==
  /\ Running(s) /\ pipe[s].stash > 0 /\ Capacity(s) > 0
  /\ SendData(s, pipe[s].stash, pipe[s].eos)
  /\ pipe' = [pipe EXCEPT ![s] = [@ EXCEPT !.stash = 0, !.pc = IF pipe[s].eos THEN "ok" ELSE "run"]]
  /\ UNCHANGED <<win, debt, src>>

Took(s, n, eos) ==
  /\ src[s].frames < MaxFrames /\ src[s].end = "no"
  /\ src' = [src EXCEPT ![s] = [frames |-> @.frames + 1, taken |-> @.taken + n,
                                end |-> IF eos THEN "clean" ELSE "no"]]

\* poll_frame: an empty data frame needs no capacity.
EmptyFrame(s, eos) ==
  /\ Polling(s) /\ 0 \in FrameSizes /\ Took(s, 0, eos)
  /\ SendData(s, 0, eos)
  /\ IF eos THEN Ends(s, "ok") ELSE UNCHANGED pipe
  /\ UNCHANGED <<win, debt>>

\* Mutant of DataFrame: more is reserved than the chunk needs.
DataFrameGreedy(s, n, eos) ==
  /\ Polling(s) /\ n > 0 /\ Took(s, n, eos)
  /\ Reserve(s, n + 1)
  /\ pipe' = [pipe EXCEPT ![s].stash = n, ![s].eos = eos]
  /\ UNCHANGED debt

\* poll_frame: a data frame is stashed and exactly its size reserved.
DataFrame(s, n, eos) ==
  /\ Polling(s) /\ n > 0 /\ Took(s, n, eos)
  /\ Reserve(s, n)
  /\ pipe' = [pipe EXCEPT ![s].stash = n, ![s].eos = eos]
  /\ UNCHANGED debt

\* poll_frame: trailers end the stream.
Trailers(s) ==
  /\ Polling(s) /\ src[s].end = "no"
  /\ src' = [src EXCEPT ![s].end = "clean"]
  /\ h2' = [h2 EXCEPT ![s] = [Reserved(s, 0) EXCEPT !.st = "eos"]]
  /\ win' = win + Surplus(s, 0)
  /\ Ends(s, "ok")
  /\ UNCHANGED debt

\* Mutant of BodyError: a failed body ends the stream as a complete one.
BodyErrorEnds(s) ==
  /\ Polling(s) /\ src[s].end = "no"
  /\ src' = [src EXCEPT ![s].end = "error"]
  /\ SendData(s, 0, TRUE)
  /\ Ends(s, "err")
  /\ UNCHANGED <<win, debt>>

\* poll_frame: the body failed; on_user_err resets the stream.
BodyError(s) ==
  /\ Polling(s) /\ src[s].end = "no"
  /\ src' = [src EXCEPT ![s].end = "error"]
  /\ ResetStream(s)
  /\ Ends(s, "err")
  /\ UNCHANGED debt

\* poll_frame: no more frames; send_eos_frame.
BodyEnd(s) ==
  /\ Polling(s) /\ src[s].end = "no"
  /\ src' = [src EXCEPT ![s].end = "clean"]
  /\ SendData(s, 0, TRUE)
  /\ Ends(s, "ok")
  /\ UNCHANGED <<win, debt>>

\* Mutant of BodyPending: poll_reset is not polled while waiting for a frame.
BodyPendingDeaf(s) ==
  /\ Polling(s) /\ src[s].end = "no"
  /\ Parks(s, {"frame"})
  /\ UNCHANGED <<h2, win, debt, src>>

\* poll_frame: nothing yet.
BodyPending(s) ==
  /\ Polling(s) /\ src[s].end = "no"
  /\ Parks(s, {"reset", "frame"})
  /\ UNCHANGED <<h2, win, debt, src>>

\* PipeMap::poll: cancel_rx fired, send_reset(CANCEL).
Cancelled(s) ==
  /\ pipe[s].pc = "run" /\ pipe[s].cancel
  /\ ResetStream(s)
  /\ Ends(s, "err")
  /\ UNCHANGED <<debt, src>>

-----------------------------------------------------------------------------
(* The body and the SendWhen task.                                         *)

BodyReady(s) ==
  /\ pipe[s].pc = "parked" /\ "frame" \in pipe[s].armed
  /\ pipe' = WakeIf(s, "frame")
  /\ UNCHANGED <<h2, win, debt, src>>

Cancel(s) ==
  /\ ~pipe[s].cancel /\ ~Done(s)
  /\ pipe' = [WakeIf(s, "cancel") EXCEPT ![s].cancel = TRUE]
  /\ UNCHANGED <<h2, win, debt, src>>

-----------------------------------------------------------------------------
\* Steps of poll that need no answer of the body.
OwnStep(s) == SeesReset(s) \/ WaitsForCapacity(s) \/ SendsStash(s) \/ Cancelled(s)

\* poll_frame answers with a frame, an end or an error ...
BodyStep(s) ==
  \/ \E eos \in BOOLEAN : EmptyFrame(s, eos) \/ \E n \in FrameSizes : DataFrame(s, n, eos)
  \/ Trailers(s) \/ BodyError(s) \/ BodyEnd(s)

PNext ==
  \/ \E s \in Stream : OwnStep(s) \/ BodyStep(s) \/ BodyPending(s) \/ BodyReady(s) \/ Cancel(s)
  \/ \E s \in Stream : Assign(s) \/ Flush(s) \/ PeerResets(s)
  \/ PeerUpdates

PSafety == PInit /\ [][PNext]_pvars

\* The executor polls the tasks, h2 its connection, the peer reads and gives
\* the window back when it is used up.  A body that does not stall is ready
\* some day and then has something.  Nobody has to cancel or to reset.
PFairness ==
  /\ \A s \in Stream : WF_pvars(OwnStep(s)) /\ WF_pvars(Assign(s)) /\ WF_pvars(Flush(s))
  /\ \A s \in Stream : WF_pvars(BodyStep(s) \/ BodyPending(s))
  /\ \A s \in Stream \ Stalls : WF_pvars(BodyReady(s)) /\ SF_pvars(BodyStep(s))
  /\ WF_pvars(PeerUpdates)

PSpec == PSafety /\ PFairness

-----------------------------------------------------------------------------
(* Properties.                                                             *)

\* The type invariant.
PTypeOK ==
  /\ \A s \in Stream : /\ pipe[s].pc \in {"run", "parked", "ok", "err"}
                       /\ pipe[s].pc = "parked" <=> pipe[s].armed # {}
                       /\ h2[s].avail <= Window /\ h2[s].st \in {"open", "eos", "reset"}
  /\ win \in 0..Window /\ debt \in 0..Window

\* "Reserve exactly the chunk size so we never pin more connection-level
\* flow-control window than we are about to consume": capacity assigned to a
\* stream is covered by data, so a stream that waits for its body holds none.
NothingPinned == \A s \in Stream : h2[s].avail <= h2[s].buf + pipe[s].stash

\* buffered_data "survives across Poll::Pending": every byte the body gave
\* was handed to h2 once or is stashed, unless the stream was reset.
NothingLost == \A s \in Stream : h2[s].st # "reset" => h2[s].given + pipe[s].stash = src[s].taken

\* The peer sees END_STREAM only behind a body that ended cleanly and was
\* handed over in full: an aborted upload never looks complete.
EosIsComplete ==
  \A s \in Stream : h2[s].st = "eos" => src[s].end = "clean" /\ h2[s].given = src[s].taken

\* hyper#4003: a body that keeps producing is sent to its end, also while
\* another stream's body stalls and the peer returns the window only once it
\* is used up.
PipeFinishes == \A s \in Stream \ Stalls : <>Done(s)

\* "so the task wakes up if the peer resets the stream", and PipeMap's
\* cancel_rx: a reset or cancelled stream frees its pipe even if the body
\* never produces another frame.
ResetEndsPipe == \A s \in Stream : (h2[s].st = "reset" \/ pipe[s].cancel) ~> Done(s)

\* "flow-control capacity is freed": a cancelled stream ends reset unless it
\* had been sent completely, and holds no window.
CancelFrees == \A s \in Stream : pipe[s].cancel /\ Done(s) => h2[s].st = "reset" \/ pipe[s].pc = "ok"

\* Code: PipeToSendStream::poll, PipeMap::poll.  What the peer is told of an
\* upload is true: all the bytes up to here, a complete body at END_STREAM,
\* a reset when it was given up, in every order of frames, capacity, resets
\* and cancellations.
UploadHonest == PTypeOK /\ NothingLost /\ EosIsComplete /\ CancelFrees
=============================================================================
