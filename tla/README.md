# TLA+ verification of wreq-proto

wreq-proto is an HTTP client protocol library: it drives one HTTP/1 or HTTP/2
connection as a task and gives callers a handle to send requests on it.  This
directory holds TLA+ models of its core, TLC configurations that check them on
small instances, and TLAPS proofs.  Paths below are relative to
`src/wreq-proto/src/`.

## The system

| Part | State | Operations | Interacts with |
|---|---|---|---|
| request channel `dispatch.rs` | mpsc queue of envelopes, `want` giver/taker, `buffered_once`, one callback per request | `poll_ready`, `try_send`, `poll_recv`, `close`, `try_recv`, drops | callers on any thread; the connection task |
| HTTP/1 dispatcher `proto/http1/dispatch.rs` | `is_closing`, `body_tx`, `body_rx`, `callback` | `poll_read`, `poll_write`, `poll_loop`, `poll_catch`, drop | channel, connection, body channel, request body |
| HTTP/1 connection `proto/http1/conn.rs` | `reading`, `writing`, `keep_alive`, `notify_read`, `error`, `upgrade`, `version` | read head/body, keep-alive, write head/body/trailers, flush, close | `io.rs` buffers, decoder, encoder |
| buffers `proto/http1/io.rs`, `buf.rs` | read buffer, header buffer, body queue, `read_blocked` | parse, read, buffer, flush | the socket |
| framing `decode.rs`, `encode.rs`, `role.rs` | decoder and encoder progress | decode, encode, end; parse a head, set the length | connection |
| response body `body/incoming.rs`, `body/watch.rs` | one-slot data channel, trailers, want | `poll_frame`; `poll_ready`, `send_data`, `send_error` | consumer thread; dispatcher |
| HTTP/2 task `proto/http2/client.rs`, `proto/http2.rs` | request in progress, response futures, body pipes | poll | unbounded channel, h2 |
| HTTP/2 ping `proto/http2/ping.rs` | outstanding ping, BDP estimate, keep-alive timer | record, poll | h2 ping-pong, timer |
| upgrades `upgrade.rs` | oneshot, rewound read buffer | fulfil, manual | dispatcher |

What is hard here is concurrency without locks: callers, body consumers, request
bodies, the peer and the runtime all act between any two steps of the task, and
the task sleeps whenever it believes a waker will call it back.  The correctness
of each part:

* channel: every accepted request is answered exactly once; a message comes back
  only if no byte of it was serialized; nobody waits for ever;
* dispatcher and connection: a truncated response body is never reported
  complete; framing survives any request body; no reuse after the server said
  close; bytes read early are not a response; no lost wake-up;
* buffers: a head is found as soon as it is complete, wherever reads cut it; no
  byte is lost, repeated or reordered; a body cannot make them grow against a slow peer;
* framing: encoder and decoder agree for any body and any cut; both ends of the
  connection agree on where each message ends and whether another may follow;
* HTTP/2 tasks: requests, streams and callbacks have one owner; cancelled
  requests free their streams; an unused connection closes; an aborted upload
  never looks complete; flow-control windows are neither lost nor pinned;
* ping: a dead peer is found, a live one kept, bandwidth samples end with their ping;
* upgrades: the new protocol's bytes arrive once and in order.

The hazards, each at its line, are listed in `PROJECT.json`.

## Modules

* `RequestPromise` - the abstract specification: what `try_send_request` promises
  a caller, independent of the protocol.
* `DispatchChannel` - `dispatch.rs`.  `Bounded` selects `Sender` (HTTP/1) or
  `UnboundedSender` (HTTP/2).  Calls are split at their atomic operations:
  `TrySend`/`TrySendPush` are the two halves of `try_send`, `RecvEmpty`/`RecvWant`
  of an empty `poll_recv`, `CloseCancel`/`CloseInner` of `close`,
  `DropCancel`/`DropInner` of the drop.  `promise[r]` is what the caller of `r`
  knows, `held` the requests whose callback the connection owns, `written` those
  it began to serialize.  `Serialize`, `SendOk`, `SendErr` are what the connection
  does with a request.  `want`, the mpsc queue and the oneshots are external:
  modelled by the operations `dispatch.rs` uses.
* `Http1Conn` - `conn.rs` with `io.rs`, `decode.rs`, `encode.rs` and the decisions
  of `role.rs`, as operators on a record; no variables.  Bytes are tokens: heads
  `info` (1xx), `zero`, `close`, `len`, `chunk`, `eofb` (close-delimited), `up`
  (101), `old` (HTTP/1.0), pieces `data`, `end`, `trail`.  The length and
  close-delimited decoders take any token as body bytes, as the code does with
  any byte.  Write buffers count units; a head is two.  Fields `in`, `peer`,
  `full` are the socket, `armed` the wakers left behind, `out` and `said` ghosts.
  Client-side facts used: `Client::encode` cannot fail, `is_last` and
  `flush_pipeline` are always false, `expect_continue` is false for responses and
  `allow_half_close` is never set, so `Reading::Continue` does not occur.
* `Http1Dispatcher` - `proto/http1/dispatch.rs`, composing `Http1Conn`,
  `DispatchChannel` and the body channel.  `disp.pc` says where the task is:
  `parked` (returned Pending), the loops `read` and `write`, `readbody` (between
  the body sender's `poll_ready` and the read), `want` (between the empty queue
  and `want()`), `head` (a request was taken), `flush`, `loop`, `finish`,
  `shutdown`, `err` (`poll_catch`), `close2`/`close3` (`recv_msg(Err)`), `ended`,
  `drop`, `gone`.  `poll_loop`'s sixteen rounds are abstracted to "another round
  or yield".  A response delivered to a caller that leaves in that instant is the
  delivery followed by the drop of its body.
* `BufferedRead` - the read half of `io.rs` with `parse_headers`, `is_complete_fast`
  and the 1xx loop of `Client::parse`.  A head is a status line, other bytes and an
  empty line; where httparse finds its end is external.  Reads cut the input
  anywhere.
* `WriteBuffer` - the write half: `WriteBuf` with both strategies, `Cursor`,
  `BufList` and `poll_flush` against a socket that takes any number of bytes.  Bytes
  are numbered in the order they are given, so the wire must count up.
* `ChunkedGrammar`, `BodyDecoder` - `decode.rs` byte by byte.  The reference says,
  without a state machine, which byte strings are complete chunked bodies, which
  can still become one and what they hold.  Digits have a small radix and `u64::MAX`
  a small value, so that overflow is reached.
* `BodyCodec` - `encode.rs`, whose output is fed to the decoder of `BodyDecoder`.
  `enc.state` follows `Writing`: `body`, `ending` (trailers were refused, the
  dispatcher ends the body next), `done` (KeepAlive), `closed`.  With `none` the
  peer is not this encoder and the decoder reads any bytes.
* `MessageFraming` - `Client::set_length`, `Client::decoder`, the `Connection`
  handling of `Client::parse`, `headers.rs`, `body/length.rs` and the version and
  keep-alive fix-ups of `conn.rs`, over one exchange and the decision whether a
  second follows.  `eof` says that a close-delimited body was read to the end of the
  stream: `State::try_keep_alive` does not ask for it, and such a connection is closed
  because `maybe_notify`, in the same call, reads that end again (`Finish`).  The
  server's side is the reading of RFC 7230.
* `Http2Client` - `proto/http2/client.rs` and `SendWhen`, on `DispatchChannel` with
  the unbounded sender.  `ClientTask`, `ConnTask`, and per request a `SendWhen` and a
  `PipeMap` task, run on different threads; the h2 library is external and its calls
  are atomic.  h2 does not wake its connection when the last `SendRequest` is dropped,
  as the comment at `client.rs:75` says.  `ct.on` are the wakers a parked `ClientTask`
  left behind (a pending stream, the channel, `conn_eof`); `Woken` says that one of
  them fired.
* `Http2Pipe` - `PipeToSendStream`: bodies sharing one connection window.  The peer is
  the one the code's comment worries about: it returns the window only when it is
  used up.
* `Http2Ping` - `ping.rs`: `Recorder`, `Ponger`, `Bdp` and `KeepAlive` over one PING and
  an integer clock.  Every combination of keep-alive, `keep_alive_while_idle` and
  adaptive window is an initial state.  A stream opens in two steps, as in the code:
  `SendRequest` (h2 wakes the connection task) and `PollPipe` (the recorder is cloned,
  and only frames of a request body wake the task).  `Prompt` says that the task runs
  when it is woken; without it the task may be late.
* `StreamRead` - what reads a stream without the dispatcher: `Incoming` of HTTP/2,
  `H2Upgraded::poll_read`, and `Rewind` over an upgraded HTTP/1 socket.
* `MC...` - instances for TLC.  `MCMessages` and `MCByteStreams` each put modules
  that share no state into one run: a variable `part` says which one moves.
  `Servers` of `Http1Dispatcher` is the set of servers there are, each given by the
  tokens it may send; a behaviour has one of them.  `MCMessages` lets either the request or its response have unusual
  header lines, not both; responses may contradict themselves in their Connection lines.
* `DispatchChannelProofs`, `Http1DispatcherProofs`, `Http2ClientProofs`,
  `Http2StreamProofs` (`Http2Pipe`, `Http2Ping`) - the theorems about the modules of these names.
  `Http1ConnProofs` says what each method of `Conn` keeps true of a connection, one
  lemma per method; `Http1DispatcherProofs` is put together from them.
  `ByteStreamProofs` is about `StreamRead`, `WriteBuffer` and `BufferedRead`,
  `MessageProofs` about `MessageFraming`, `BodyCodec` and `BodyDecoder`.  `SequenceLemmas` has what
  the proofs need of numbers and sequences.

`Http1Conn` and `Http2Client` use the components above in units (a token, a pipe
step); the modules named here show that the units behave that way.

Definitions named "Mutant of X" are X with a plausible bug; no specification uses
them.  They exist to show that the properties depend on X.

## Runs

| Run | Bounds | Shows |
|---|---|---|
| `channel` | 4 requests, 1 handle | type, queue of at most 3, exactly one callback, safe retry, visible closure, ready is kept; a waiting handle is woken; the channel implements `RequestPromise` with its liveness |
| `http1_responses` | 2 requests, 3 tokens of one of: sized bodies and `Connection: close`; chunked bodies; 1xx, empty and 101 responses; HTTP/1.0 and close-delimited ones | types, no truncated body looks complete, a body being read has a sender, no reuse after close or upgrade, a head is read only for a caller, no sleep on work |
| `http1_requests` | a sized and a streamed request, frames of 0, 1, 3 units, length 2, buffer 3 | outgoing framing, no sleep on work, an idle task listens to the channel |
| `http1_live` | 2 requests, 2 tokens | the whole task implements `RequestPromise`; every body ends |
| `http1_queue_idle` | queueing write buffer | violation: an idle task that does not listen |
| `http1_unsolicited` | 2 responses, the second unsolicited | violation: a request written with bytes in the read buffer |
| `http1_messages`, heads | every combination of Transfer-Encoding, Content-Length (overlong, malformed, repeated), Connection, Trailer, versions 1.0 and 1.1, in requests and in responses with 5 statuses and 4 methods | the server reads what the encoder writes; client and server agree on the end of a body and on reuse |
| `http1_messages`, bodies | all byte strings to length 13 over 7 kinds of bytes, sizes to 3; 2 frames that look like framing, lengths 0, 2, 3, 2 trailer fields | agreement of the decoder with the grammar, limits, a cut is an error; encoder and decoder agree; trailers are filtered |
| `byte_streams`, read | heads of up to 7 bytes behind one 1xx, a body of 20, maxima 4 to 32, adaptive and exact reads | the head is found when it is there, exactly, and no byte is lost; the read size stays in range |
| `byte_streams`, write | limit 4 bytes, 2 buffers, 2 slices, 16 bytes in all | order, counters; what waits is within the limit, a frame and the heads since the last body; the headers vector grows only for unwritten bytes |
| `byte_streams`, stream | totals 0, 1, 5, window 3, reads of 1 and 2, one empty frame | bytes once and in order, honest ends and hints, window conserved |
| `byte_streams`, ping | interval 2, timeout 1, window 4 to 8, clock to 6, samples of up to 6 bytes | dead peers found once the Ponger knows of a stream, live ones kept, pings not confused; samples, window and delay stay in range |
| `http2_client` | 2 requests, one of them CONNECT, with and without a body | one owner each; at most one request waits in h2; the safety half of `RequestPromise`; cancellation frees streams; a connection that ends answers everybody and ends its task |
| `http2_unused` | 1 request | violation: an unused connection that stays open |
| `http2_pipe` | 2 bodies of 2 frames of 0 to 2 units, window 3, one may stall | no window without data, nothing lost, aborted is not complete; the other body is sent; a reset ends the stalled one |
| `http2_ping` | interval and timeout 2, clock to 6 | violation: a silent peer that is not found although a stream is open |

A run checks one invariant for each promise.  Where a promise has several parts, each
part is a definition of its own with its reason beside it, and the invariant is their
conjunction: `AssertionsHold` (the dispatcher), `DecoderExact`, `CodecAgrees`,
`RequestUnderstood` (messages), `ReadExact`, `WriteExact`, `StreamExact` (byte streams),
`TasksConsistent`, `UploadHonest`, `PingAccounting`, `TimeoutJust` (HTTP/2).

Bounds.  Four requests are enough to fill the queue past its bound of three if it
could be passed.  Two requests on a connection give one in flight and one queued,
which is every position a request can be in besides handed back.  Three tokens are a
complete sized body, or a response and two more bytes.  Frame sizes 0, 1 and 3
around a Content-Length of 2 give empty, short, exact (1 then 1) and overlong
bodies; a buffer of 3 is filled by a head and a frame.  `MaxIn` and `MaxFrames`
bound the environment only.  Two HTTP/2 requests are one that waits in h2 for the
peer's limit and one behind it in the channel.  The decoder's inputs of thirteen bytes hold two chunks
with their sizes, an extension and a trailer line; sizes up to three have two digits in
radix two, so a third digit overflows.  Heads are longer than the first read, the
limits 4 and 6 are reached by them.  A window of three against a total of five
must be returned at least once.  The ping clock covers an interval, a timeout and
another of both; `MaxSample` cuts a sample off at two frames, more than its window.  The second stream of a pipe is what pinned capacity would
starve.  Deadlock checking is off: a connection that ended,
or waits for a silent server, may stop.

Fairness.  The executor polls a woken task and drops a finished one (`TaskStep`);
`try_send` does not block (`TrySendPush`); consumers read until they leave;
request bodies that were pending become ready; the server reads what it is sent
and closes some day - without that a request may wait for its response for ever,
and no timeout in this crate prevents it.  Callers are not fair.  In HTTP/2 the
executor runs each spawned task and h2 resets a stream whose handles are gone
(`TaskFairness`); neither peer nor callers nor request bodies have to do anything.  A
parked `ClientTask` has to be polled only when a waker it left fired (`CtWake`); it may
be polled without (`CtPoll`), and no fairness says that it is.  So `ConnEndAnswersAll`
asks for the end of `ClientTask` when the connection is over, and of a connection that
is going away (GOAWAY) only that requests h2 was not given do not wait: an idle
`ClientTask` may sleep there until the last stream has ended.
A request body that does not stall is ready again and again and then has a frame
(strong fairness, since the pipe may look elsewhere in between); the peer of a pipe
reads and returns a window that is used up.  `Http2Ping`'s deadlines are safety properties of the clock and need no fairness.

### What the violations mean

* `http1_queue_idle`: with vectored writes (`WriteStrategy::Queue`) a response may
  arrive while the request body is still being flushed.  The extra round that
  `State::idle` asks for cannot take a request (`can_headers_buf`), and when the
  flush ends later nothing polls the channel.  The next request waits until the
  server sends or closes.  With the flattening buffer the property holds
  (`http1_requests`).
* `http1_unsolicited`: `poll_write` flushes when the buffer is full, the
  connection becomes idle inside `poll_write`, and a queued request is written
  before `poll_read` finds the unexpected bytes.
* `http2_unused`: `ClientTask` drops `conn_drop_ref` before `h2_tx`.  `ConnTask`, woken
  by the first on another thread, finds a `SendRequest` still there and parks; the drop
  of `h2_tx` wakes nobody if h2 is as the comment at `client.rs:75` says, and the
  connection that nobody can use stays open until the peer speaks or closes.
* `http2_ping`: `send_request` wakes the connection task, `poll_pipe` counts the stream
  later.  A poll in between finds `is_idle` and arms no timer; if the request has no body
  frames left and the peer is silent, the `Ponger` is not polled again and no PING is
  sent.  Once the `Ponger` was polled with the stream the property holds
  (`DeadPeerDetected`).

### What the code does not promise

The properties are stated as strong as the code keeps them.  Where a stronger form
suggests itself, the models show why it is not there:

* a handle told "ready" may still have its earlier request in the queue (`want()`
  runs after the empty poll, a push in between is not seen); the queue is bounded
  all the same (`QueueBounded`);
* an upgrade is handed over once a 101 closed the read half: `poll_loop` does not
  wait for a pending flush and `into_inner` drops the write buffer, so a server that
  upgrades before it has read the request may leave it half written;
* `is_complete_fast` knows CR LF CR LF and LF LF.  A head whose last line ends in a
  bare LF before a CR LF empty line is parsed when it comes in one read, and not
  found after a partial one; `HeadAssumption` leaves such heads out;
* `keep_alive` is both the version's default and the result so far, so that
  `Connection: close` followed by a second line `keep-alive` keeps an HTTP/1.1
  connection, and in HTTP/1.0 so does one line with both.  RFC 7230 would close it.
  `Overruled` is exactly this exception, and `ReuseAgreed` shows that it is the only one;
* `can_write_head` asks for the state and the queue, not for what waits in the headers
  buffer.  A server that answers without reading lets the client write one head behind
  the other, and nothing bounds them; `BufferBounded` counts them in `ahead`, which a
  body's next buffer sets to zero because `can_buffer` counts all that waits;
* `encode_trailers` has no limit of its own, the decoder at the other end has two:
  `TrailersAssumption` says that the peer has room for the fields that may be sent;
* a request marked HTTP/2 is written as HTTP/1.1 but framed as for HTTP/1.0: its
  Transfer-Encoding goes and a body of unknown length is not sent; `Versions` is
  10 and 11;
* `SendWhen` looks at the response before the cancellation.  If the caller is gone
  when the response arrives, `cancel_tx` is dropped unused and the pipe sends on:
  `CancelFreesStream` is about requests without a response;
* the `Ponger` is polled before the socket is read: with `Prompt = FALSE` an
  acknowledgement that waits in the socket does not count and `TimeoutJust` fails
  (its part `AckInTimeKeeps`);
* `is_idle` counts references; once the `ClientTask` is gone a single open stream
  looks idle and is not watched.  `DeadPeerDetected` says so.

## Proofs

### The request channel

For every set of requests, every handle set and both senders (assumption:
`ChannelAssumption` - `None` is not a request, the bounded sender has one handle):

* `TypeCorrect`, `BoundedQueue`, `NoLostCallback`, `SafeRetry`, `ClosureVisible`,
  `WaitersServed` - each from `Invariance`, `Safety => []IInv`.  `OneCallback` is
  not inductive alone: `Places` says where a request may be for each state of its
  promise (a request being pushed is nowhere else, a returned one was not
  written), `Closing` ties the queue's state to the receiver's position, and the
  bound of three needs `Credits`: queue length plus the credits still outstanding
  (the unused free message, a Want not yet taken, a poll about to call `want()`,
  a push in progress) never exceeds a constant.  One lemma per conjunct group
  shows that every action preserves it.
* `ImplementsPromise` - `Safety => Promise!PSafety`, the safety half of the
  refinement: under the mapping `outcomeBar` (a call of `try_send` that has not
  returned is not seen by the caller) every step of the channel is one step of
  `RequestPromise` or a stutter.  `PromiseStep` has one case per action; `Places`
  gives the guards of the abstract actions.

### The HTTP/1 connection task

For every server, body length, frame size, buffer size, both write strategies and
any number of requests (`ConnAssumption`, `DispatcherAssumption`: the sizes are
natural numbers, the servers send tokens, the sender is the bounded one):

* `UsesChannel` - `DSafety => Safety`: every step of the composed HTTP/1 task is a
  step of the channel or leaves it unchanged, whatever the server, the bodies and
  the buffers do.  `DispatcherSafeRetry`, `DispatcherNoLostCallback` and
  `DispatcherImplementsPromise` carry the channel's theorems over to the connection task.
* `DispatcherAssertions`, `CleanEndsComplete`, `FramingSound`, `CloseIsObeyed` -
  from `DInvariance`, `DSafety => []DInv`.  `DInv` has two parts.  `ConnOK` is about
  the connection alone: a decoder and an encoder exist in the Body states only, the
  writing half returns to `Init` only behind a whole request and with nothing half
  read, an announced end of the connection disables keep-alive, and a connection that
  is not kept alive is never free for a request.  `Link` says how it agrees with the
  task at each place of its loop: a request head is written on a free connection only;
  a body in progress has its sender and an awaited response its callback, unless the
  task is past its last poll; a sender that is still there when the body is over
  belongs to a complete response.  `Settles` is the common contract of the methods
  that may end a message (`try_keep_alive`, `poll_flush`): no body begins or ends, no
  response becomes awaited, and one that is awaited stays so unless the read half
  closes.
* `NoLostWakeups` - `DSafety => []NoLostWakeup`, from `WakeInvariance`,
  `DSafety => [](DInv /\ IInv /\ WakeInv)`.  That a sleeping task has nothing to do is
  not inductive: it becomes true piece by piece during a poll, while callers, consumers
  and the server undo it and fire wakers.  `WakeInv` says what the task knows at each
  place of its loop as long as no waker has fired.  `Calm`: behind `poll_read` the read
  half is at rest (what it waits for has its waker) or `notify_read` is set; behind
  `poll_write` the request body waits or the buffer is full; behind `poll_flush` nothing
  is left to write or the socket is full and will tell.  `Flow`: a task that is closing
  has closed its read half, and `again` and `wready` are what the loop takes them for.
  `Tells` is the contract that carries it through `poll_flush`: whatever it notices
  closes the read half or is told to the loop.  The channel's `IInv` is needed for the
  callers' steps: a call that pushes or fails never touches the promise of the request
  the task holds.
* `IdleListensFlat` - with `WriteStrategy::Flatten`, `DSafety => []IdleListens`, from
  `IdleInv` on top of `WakeInv`: flattened writes leave the queue empty, so that a
  connection between two messages can always take a request; at most one callback is
  held, and only while its head is to be written, its response is awaited or the read
  half is closed; hence a poll that ends between two messages has polled the channel
  after the connection became idle, or will be woken by the socket.  The assumption is
  needed: with `WriteStrategy::Queue` the property is the violated one of
  `MCHttp1Queue.cfg`.

### HTTP/2

* `Http2TasksConsistent`, `Http2OnePendingOpen`, `Http2NoLostCallback` - from
  `HInvariance`, `HSafety => []HInv`, for any number of requests and handles.  `HInv` contains the channel's `IInv`: who answers a
  request (`ClientTask`'s hands, `fut_ctx`, its `SendWhen`) is tied to the callbacks the
  channel counts, and `Admission` says what `poll_ready` established before a request
  is taken.  `Http2UsesChannel` is the refinement step, and `Http2KeepsPromise`
  carries the promise to callers over.
* `WindowNotPinned`, `HonestUploads` - from `PInvariance`, for any set of streams, any
  window and any bodies.  Requested capacity lies between what is buffered and what is
  buffered or stashed (`Agree`).  That all streams together stay within the window
  is a sum over a set of streams: `Balanced` says it for every list of distinct
  streams and its list of partial sums, so that one stream's change shifts the
  partial sums from its position on.
* `PingsAccounted` - from `GInvariance`, for all intervals, timeouts, windows and limits
  and for every scheduling of the task.  `TimeoutsAreJust` and `SilentPeersDetected` are
  proved from `RInv` under `Prompt` (a woken task runs before time passes), the
  assumption the run makes as well: a task that is late may find an acknowledgement
  and the expired timer in the same poll.  `RInv` adds the deadlines ahead of the clock
  and that a sleeping task has registered with the timer, for streams the Ponger was
  polled with; `SilentPeersDetected` says no more than that, since of other streams it
  is false (`http2_ping`).  The model's constants are
  assumed to be numbers (`PingAssumption`).

### Byte streams

* `StreamsExact`, `WindowsKept` - from `StreamInvariance`, `SSpec => []SInv`, for every
  total, window and read size (`StreamAssumption`).  Bytes are numbered, so that
  everything that was read, is held back or waits in the queue must count up without a
  gap: `StreamExact` says it of the places laid side by side.  It needs `PeerSound`
  (what the peer sent and how it may have ended) and `PlacesSound` (only a socket has
  bytes to rewind, only a tunnel keeps the rest of a frame, and a seen end left
  nothing behind).
* `WritesExact`, `VectorGrowsForUnwritten` - from `WriteInvariance`, `WSpec => []WInv`,
  for both strategies, any number of slices and all sizes.  `WriteAssumption` says that
  there is a longest frame; the bound on what waits is in terms of it and of the heads
  given since a body was last buffered.  Those have no bound, as said above.
  `DropsExactly` (`BufList::advance` takes exactly n bytes off the
  front and leaves no empty buffer) and `ShownInOrder` (the slices of a vectored write
  are the front of what waits) carry the order through a write.
* `ReadsExact` - from the inductive invariant `RInv`, for every head that ends in LF LF
  or CR LF CR LF, every number of 1xx heads, every body and all sizes of reads.  `RPlaced` says that what was taken
  and what is left is the input: the heads that were taken are whole ones, and the
  others stand at the front.  `RScanned` says that what was looked at before holds no
  end of a head, so that `is_complete_fast` may restart behind it.  `HeadAssumption`
  says of the heads what httparse says of their end (it is at their end and nowhere
  before), and that the empty line ends like the line in front of it: a head that ends
  in LF CR LF, which httparse accepts, is not covered.

The flattening of a queue is a fold of the library; `FlattenAppend` and `FlattenConcat`
are proved from it once.

### Messages

* `RequestsUnderstood`, `ResponsesFramed`, `ReuseIsAgreed` - from `FInvariance`,
  `FSpec => []FInv`, for every width and radix of a length, every list of header lines
  (`HeadsAssumption`), every status and method.  The code's loops over header lines are
  loops with an accumulator; `Runs` is what a loop does step by step, and each loop is
  given its meaning by induction on the lines: the Content-Length loop accepts a number
  only if every value denotes it, the parser of one value agrees with `Denotes` unless
  it overflows, the Connection loop keeps what the options say or has overruled a close.  `FInv` adds to
  `ResponseFramed` what the encoder chosen for a request says of its lines
  (`AskedRight`) and that an idle connection which is kept was kept by the last
  response and has not seen the end of the stream (`GoesOn`).  `ReuseIsAgreed` has no
  hypothesis on the responses: a close that the server overruled is part of the property.
* `CodecsAgree` - from `CodecInvariance`, `CSpec => []CodecInv`, for every radix, width
  of sizes, set of frames and of trailer fields (`CodecAssumption`,
  `TrailersAssumption`).  `CodecInv` says what is in the pipe: the rest of the chunk the
  decoder is in (`Within`, one case for each of its states), whole chunks (`Written`)
  and, once the message was ended, its end (`Flow`); or the decoder is behind the 0 of
  the last chunk (`AtEnd`).  Delivered data with the data in the pipe is what was
  given.  A decoder of a length waits for what is in the pipe and what is not encoded
  yet.  The rows of chunks and the digits of a size are the least sets closed under
  writing one more; `ChunkSizeSpells` shows that the digits `ChunkSize` writes are read
  back as the number.
* `DecodersExact` - `CSpec => []DecoderExact`, for every radix, width of sizes and all
  limits (`DecoderAssumption`), whatever bytes arrive, however they are cut and whenever
  the socket ends.  The grammar parses a whole string from its front, the decoder extends
  it at its end.  What joins them is `Fronting(p, D, E)`: p is whole chunks with the data
  D and E bytes of extensions, so that whatever follows p is parsed as if it stood alone
  and put behind D.  The inductive invariant `DecoderInv` places the decoder behind such
  chunks: between two of them (`AtStart`), in a chunk's line (`InLine`, with the size and
  the count of extension bytes that the line denotes), in its data or the CR LF behind it
  (`InData`), behind the last chunk (`InTail`, with the trailer bytes and fields counted),
  or failed on what may fail (`FailsJustly`).  One lemma for each state says where one
  more byte or slice leads.  `Parse` is a recursive function on all strings; `ParseRule`
  shows that it exists, from parsers of the strings shorter than n.  `CodecInv` is used
  for one thing: what the encoder put into the pipe are bytes.

Induction over numbers is done by least counterexample (`LeastNumber` of
`SequenceLemmas`, from the well-foundedness of the naturals), where the library's
induction theorems cannot be instantiated: for the partial sums above, for
flattened queues, loops over header lines and digits, and for the longest run of
informational heads at the front of the read buffer.  Recursive functions are shown to
exist the same way.  Every inductive invariant was checked by TLC on the constants of
its module's run before it was proved (the least sets of `CodecInv` in an enumerated form),
except `DecoderInv`: `Fronting` speaks of every string that may follow, so TLC checks only
what it says of the bytes that arrived, which is `DecoderExact`.

### Only model-checked

* Liveness: `WaiterWoken`, `BodySettles`, `PipeFinishes`, `ResetEndsPipe`, the HTTP/2
  tasks', and the fairness half of `PromiseSpec` - fairness and ENABLED are outside the
  prover's reach.

Every safety invariant that a passing run checks is stated by a theorem.

## Not modelled

* the write half of `H2Upgraded`: which error a write gets depends on what h2's
  `poll_capacity` returns on a closed stream, which this repository does not tell;
* `Pending`/`OnUpgrade`: a oneshot that is used once;
* httparse, header folding, header writing, header case and order: data;
* `without_shutdown`, options and builders: they set the constants of the models;
* the `poll_flush` of the socket itself (`io.rs:252`, `279`, `303`), once all buffered bytes
  were written: taken to be ready, as it is for a TCP stream;
* the limit of 16 queued buffers in `Http1Conn`, whose `CanBufferBody` has the limit on
  bytes only: it is in `WriteBuffer`, and both make the dispatcher flush first;
* the size hint of an HTTP/2 response to HEAD, whose content-length is not that of
  its (empty) body.

Left out for good: error wording, header parsing and printing (pure data),
extensions, tracing, and the runtime adapters of `wreq-rt` (pure i/o).
