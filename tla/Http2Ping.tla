------------------------------ MODULE Http2Ping ------------------------------
(***************************************************************************)
(* proto/http2/ping.rs: keep-alive and bandwidth (BDP) probing of one      *)
(* HTTP/2 connection.  Both use the single outstanding PING that h2        *)
(* allows.  `Ponger` is polled by the connection task before the           *)
(* connection itself (Conn::poll); `Recorder`s on other threads note what  *)
(* is read.  Each takes the lock of `Shared` once, so each is one action.  *)
(*                                                                         *)
(* Time is an integer clock.  The task runs only when it was woken: by its *)
(* Sleep, if the poll before registered with it, by h2, or by the socket.  *)
(***************************************************************************)
EXTENDS Integers

CONSTANTS
  Interval, Timeout,       \* Config: keep_alive_interval, keep_alive_timeout
  InitialWindow, Limit,    \* bdp_initial_window and BDP_LIMIT
  InitialDelay, MaxDelay,  \* ping_delay at first (100 ms) and its 10 s
  Sizes,                   \* bytes of a DATA frame
  MaxTime,                 \* bound: the clock
  MaxSample,               \* bound: the bytes of one sample
  Prompt                   \* a woken task runs before time passes

ASSUME PingAssumption ==
  /\ Prompt \in BOOLEAN
  /\ Interval \in Nat \ {0} /\ Timeout \in Nat \ {0}
  /\ Limit \in Nat /\ InitialWindow \in 2..Limit
  /\ MaxDelay \in Nat /\ InitialDelay \in 1..MaxDelay
  /\ Sizes \subseteq Nat \ {0} /\ MaxTime \in Nat /\ MaxSample \in Nat

Never == -1

VARIABLES
  now,      \* Timer::now
  sh,       \* Shared
  ka,       \* KeepAlive, with its Sleep
  bdp,      \* Bdp
  pingpong, \* h2's PING: "idle", "out", "acked" (in the socket) or "pong"
  users,    \* Recorders: of the ClientTask, of the open streams; a stream to come
  task,     \* "parked", "ponger", "conn" or "done"
  woken,    \* the task is scheduled
  sign,     \* ghost: when the peer was heard of, or an idle phase ended, last
  known     \* ghost: the Ponger was polled since a stream opened

gvars == <<now, sh, ka, bdp, pingpong, users, task, woken, sign, known>>

\* What Config asks for: a KeepAlive, pings while idle, a Bdp.
KeepAliveOn == ka.on
WhileIdle == ka.whileIdle
BdpOn == bdp.on

GInit ==
  /\ now = 0
  /\ sh = [sentAt |-> Never, bytes |-> 0, nextBdp |-> 0, lastRead |-> 0, timedOut |-> FALSE]
  /\ ka \in [state : {"Init"}, at : {Never}, sleep : {Interval}, armed : {FALSE},
             on : BOOLEAN, whileIdle : BOOLEAN]
  /\ bdp \in [bdp : {InitialWindow}, delay : {InitialDelay}, stable : {0}, on : BOOLEAN]
  /\ ka.whileIdle => ka.on
  /\ ka.on \/ bdp.on   \* is_enabled
  /\ pingpong = "idle"
  /\ users = [client |-> TRUE, opening |-> FALSE, streams |-> 0]
  /\ task = "parked"
  /\ woken = TRUE
  /\ sign = 0
  /\ known = TRUE

-----------------------------------------------------------------------------
(* The state a poll works on: sh, ka, pingpong and again (wake_by_ref).    *)

\* Shared::send_ping: h2 refuses a second ping.
SendPing(x) == IF x.pingpong = "idle" THEN [x EXCEPT !.pingpong = "out", !.sh.sentAt = now] ELSE x

\* KeepAlive::schedule.
Schedule(x) ==
  [x EXCEPT !.ka.state = "Scheduled", !.ka.at = x.sh.lastRead + Interval,
            !.ka.sleep = x.sh.lastRead + Interval, !.ka.armed = FALSE]

\* Ponger::is_idle: the task's own and one more reference.
IsIdle == (IF users.client THEN 1 ELSE 0) + users.streams <= 1

\* KeepAlive::maybe_schedule.
MaybeSchedule(x) ==
  IF \/ x.ka.state = "Init" /\ (WhileIdle \/ ~IsIdle)
     \/ x.ka.state = "PingSent" /\ x.sh.sentAt = Never
  THEN Schedule(x) ELSE x

\* Mutant of MaybePing: the sleep is not reset to the timeout.
MaybePingUnreset(x) ==
  IF x.ka.state # "Scheduled" THEN x
  ELSE IF x.ka.sleep > now THEN [x EXCEPT !.ka.armed = TRUE]
  ELSE IF x.sh.lastRead + Interval > x.ka.at
       THEN [x EXCEPT !.ka.state = "Init", !.ka.armed = FALSE, !.again = TRUE]
  ELSE IF ~WhileIdle /\ IsIdle THEN [x EXCEPT !.ka.armed = FALSE]
  ELSE [SendPing(x) EXCEPT !.ka.state = "PingSent", !.ka.armed = FALSE]

\* KeepAlive::maybe_ping.  A Sleep that fired wakes nobody until it is reset.
MaybePing(x) ==
  IF x.ka.state # "Scheduled" THEN x
  ELSE IF x.ka.sleep > now THEN [x EXCEPT !.ka.armed = TRUE]
  ELSE IF x.sh.lastRead + Interval > x.ka.at
       THEN [x EXCEPT !.ka.state = "Init", !.ka.armed = FALSE, !.again = TRUE]
  ELSE IF ~WhileIdle /\ IsIdle THEN [x EXCEPT !.ka.armed = FALSE]
  ELSE [SendPing(x) EXCEPT !.ka.state = "PingSent", !.ka.sleep = now + Timeout,
                          !.ka.armed = FALSE]

KeepAlive(x) == IF KeepAliveOn THEN MaybePing(MaybeSchedule(x)) ELSE x

\* Bdp::stabilize_delay.
StabilizeDelay(b) ==
  IF b.delay >= MaxDelay THEN b
  ELSE IF b.stable = 1 THEN [b EXCEPT !.stable = 0, !.delay = @ * 4]
  ELSE [b EXCEPT !.stable = 1]

\* Bdp::calculate; `faster` stands for the comparison of bandwidths, which
\* are floating-point averages.
Calculate(b, bytes, faster) ==
  IF b.bdp = Limit \/ ~faster \/ bytes < (b.bdp * 2) \div 3
  THEN StabilizeDelay(b)
  ELSE [b EXCEPT !.bdp = IF bytes * 2 < Limit THEN bytes * 2 ELSE Limit,
                 !.stable = 0, !.delay = @ \div 2]

-----------------------------------------------------------------------------
(* Conn::poll.                                                             *)

Poll ==
  /\ task = "parked" /\ woken
  /\ woken' = FALSE
  /\ task' = "ponger"
  /\ UNCHANGED <<now, sh, ka, bdp, pingpong, users, sign, known>>

Polled == KeepAlive([sh |-> sh, ka |-> ka, pingpong |-> pingpong, again |-> FALSE])

\* The peer has to be heard of from when the Ponger finds the stream.
Opened == sign' = IF KeepAliveOn /\ ~WhileIdle THEN now ELSE sign
Sees == known' = TRUE /\ IF known THEN UNCHANGED sign ELSE Opened

Keep(x) == sh' = x.sh /\ ka' = x.ka /\ pingpong' = x.pingpong /\ woken' = (woken \/ x.again)

\* Ponger::poll, no ping outstanding.
PongerNoPing ==
  /\ task = "ponger" /\ Polled.sh.sentAt = Never
  /\ Keep(Polled) /\ Sees
  /\ task' = "conn"
  /\ UNCHANGED <<now, bdp, users>>

\* Ponger::poll, a pong: keep-alive starts over and the sample is closed.
PongerPong(faster) ==
  LET x == KeepAlive([Polled EXCEPT !.pingpong = "idle", !.sh.sentAt = Never, !.sh.lastRead = now])
      b == Calculate(bdp, sh.bytes, faster)
  IN  /\ task = "ponger" /\ Polled.sh.sentAt # Never /\ Polled.pingpong = "pong"
      /\ IF BdpOn THEN /\ Keep([x EXCEPT !.sh.bytes = 0, !.sh.nextBdp = now + b.delay])
                       /\ bdp' = b
                  ELSE Keep(x) /\ UNCHANGED bdp
      /\ Sees
      /\ task' = "conn"
      /\ UNCHANGED <<now, users>>

NoPong == task = "ponger" /\ Polled.sh.sentAt # Never /\ Polled.pingpong # "pong"
Expired(x) == KeepAliveOn /\ x.ka.state = "PingSent" /\ x.ka.sleep <= now

\* Mutant of PongerWaits: maybe_timeout does not poll the sleep.
PongerWaitsDeaf ==
  /\ NoPong /\ ~Expired(Polled)
  /\ Keep(Polled) /\ Sees
  /\ task' = "conn"
  /\ UNCHANGED <<now, bdp, users>>

\* Ponger::poll, no pong yet; maybe_timeout registers with the sleep.
PongerWaits ==
  /\ NoPong /\ ~Expired(Polled)
  /\ Keep(IF Polled.ka.state = "PingSent" THEN [Polled EXCEPT !.ka.armed = TRUE] ELSE Polled)
  /\ Sees
  /\ task' = "conn"
  /\ UNCHANGED <<now, bdp, users>>

\* Ponger::poll, Ponged::KeepAliveTimedOut: the connection future ends.
PongerTimesOut ==
  /\ NoPong /\ Expired(Polled)
  /\ Keep([Polled EXCEPT !.sh.timedOut = TRUE])
  /\ task' = "done"
  /\ UNCHANGED <<now, bdp, users, sign, known>>

\* Then the connection reads its socket: a PONG there wakes the Ponger.
ConnPoll ==
  /\ task = "conn"
  /\ pingpong' = IF pingpong = "acked" THEN "pong" ELSE pingpong
  /\ woken' = (woken \/ pingpong = "acked")
  /\ task' = "parked"
  /\ UNCHANGED <<now, sh, ka, bdp, users, sign, known>>

-----------------------------------------------------------------------------
(* The recorders.                                                          *)

\* Shared::update_last_read_at: only if keep-alive is enabled.
ReadNow == IF KeepAliveOn THEN now ELSE sh.lastRead
Heard == sign' = IF KeepAliveOn THEN now ELSE sign

\* Mutant of RecordData: bytes are counted although no ping can be sent.
RecordDataUnsent(n) ==
  /\ users.streams > 0 /\ task # "done"
  /\ sh' = [sh EXCEPT !.lastRead = ReadNow, !.bytes = @ + n, !.nextBdp = Never]
  /\ Heard
  /\ UNCHANGED <<now, ka, bdp, pingpong, users, task, woken, known>>

\* Recorder::record_data.
RecordData(n) ==
  LET sample == BdpOn /\ sh.nextBdp <= now
      x == SendPing([sh |-> [sh EXCEPT !.lastRead = ReadNow, !.bytes = @ + n, !.nextBdp = Never],
                     ka |-> ka, pingpong |-> pingpong, again |-> pingpong = "idle"])
  IN  /\ users.streams > 0 /\ task # "done"
      /\ IF sample
         THEN sh.bytes + n <= MaxSample /\ Keep(IF sh.sentAt = Never THEN x ELSE
                  [x EXCEPT !.sh.sentAt = sh.sentAt, !.pingpong = pingpong, !.again = FALSE])
         ELSE sh' = [sh EXCEPT !.lastRead = ReadNow] /\ UNCHANGED <<ka, pingpong, woken>>
      /\ Heard
      /\ UNCHANGED <<now, bdp, users, task, known>>

\* Recorder::record_non_data.
RecordNonData ==
  /\ KeepAliveOn /\ users.streams > 0 /\ task # "done"
  /\ sh' = [sh EXCEPT !.lastRead = ReadNow]
  /\ Heard
  /\ UNCHANGED <<now, ka, bdp, pingpong, users, task, woken, known>>

\* ClientTask opens a stream: h2's send_request wakes the connection ...
SendRequest ==
  /\ users.client /\ ~users.opening /\ users.streams = 0 /\ task # "done"
  /\ users' = [users EXCEPT !.opening = TRUE]
  /\ woken' = TRUE
  /\ UNCHANGED <<now, sh, ka, bdp, pingpong, task, sign, known>>

\* ... and poll_pipe clones the recorder; then only frames of the request's
\* body, if it has any, wake the connection.
PollPipe(wakes) ==
  /\ users.opening /\ task # "done"
  /\ users' = [users EXCEPT !.opening = FALSE, !.streams = 1]
  /\ woken' = (woken \/ wakes)
  /\ Opened
  /\ known' = FALSE
  /\ UNCHANGED <<now, sh, ka, bdp, pingpong, task>>

\* The response was read, or the stream dropped (h2 may have to reset it).
CloseStream(wakes) ==
  /\ users.streams = 1 /\ task # "done"
  /\ users' = [users EXCEPT !.streams = 0]
  /\ woken' = (woken \/ wakes)
  /\ UNCHANGED <<now, sh, ka, bdp, pingpong, task, sign, known>>

\* ClientTask ends: its recorder is dropped, then its conn_drop_ref, which
\* wakes the connection unless a request body still holds another.
DropClient(wakes) ==
  /\ users.client /\ task # "done"
  /\ wakes \/ users.streams = 1
  /\ users' = [users EXCEPT !.client = FALSE, !.opening = FALSE]
  /\ woken' = (woken \/ wakes)
  /\ UNCHANGED <<now, sh, ka, bdp, pingpong, task, sign, known>>

\* The peer acknowledges the ping.
PeerAcks ==
  /\ pingpong = "out" /\ task # "done"
  /\ pingpong' = "acked"
  /\ woken' = TRUE
  /\ Heard
  /\ UNCHANGED <<now, sh, ka, bdp, users, task, known>>

\* Time passes; the Sleep wakes the task that registered with it.
Tick ==
  /\ now < MaxTime /\ task # "done"
  /\ Prompt => task = "parked" /\ ~woken
  /\ now' = now + 1
  /\ woken' = (woken \/ (ka.armed /\ ka.sleep <= now + 1))
  /\ UNCHANGED <<sh, ka, bdp, pingpong, users, task, sign, known>>

-----------------------------------------------------------------------------
GNext ==
  \/ Poll \/ PongerNoPing \/ PongerWaits \/ PongerTimesOut \/ ConnPoll
  \/ \E faster \in BOOLEAN : PongerPong(faster)
  \/ \E n \in Sizes : RecordData(n)
  \/ \E wakes \in BOOLEAN : PollPipe(wakes) \/ CloseStream(wakes) \/ DropClient(wakes)
  \/ RecordNonData \/ SendRequest \/ PeerAcks \/ Tick

GSpec == GInit /\ [][GNext]_gvars

-----------------------------------------------------------------------------
(* Properties.                                                             *)

\* The type invariant of Shared, KeepAlive and Bdp.
GTypeOK ==
  /\ sh.sentAt \in Never..now /\ sh.lastRead \in 0..now /\ sh.nextBdp \in Int
  /\ ka.state \in {"Init", "Scheduled", "PingSent"}
  /\ pingpong \in {"idle", "out", "acked", "pong"}
  /\ bdp.bdp \in InitialWindow..Limit /\ bdp.delay \in 0..(4 * MaxDelay)

\* `.expect("pong received implies ping_sent_at")` and is_ping_sent: Shared
\* and h2 agree on whether a ping is outstanding, whoever sent it.
PingTracked == pingpong = "idle" <=> sh.sentAt = Never

\* record_data: bytes are counted only into a sample that a pong will close;
\* otherwise the next sample would count them against the wrong round trip.
SampleHasPing == sh.bytes > 0 => sh.sentAt # Never

\* The peer was silent for longer than keep-alive lets it.
Overdue == KeepAliveOn /\ now > sign + Interval + Timeout

\* "If no frames are received in this amount of time, a PING frame is sent",
\* and "the connection will be closed if a pong is not received": while a
\* stream is open of which the Ponger knows, a silent peer is found out on
\* time.  No wake-up is lost between scheduling, BDP pings, idle phases and
\* frames read meanwhile.  (For as long as the ClientTask lives; with
\* while_idle, always and whether streams open or not.)
DeadPeerDetected ==
  Overdue /\ (WhileIdle \/ (users.client /\ users.streams > 0 /\ known)) => task = "done"

\* "If disabled, keep-alive pings are only sent while there are open
\* request/responses streams" (keep_alive_while_idle): then they are sent, so
\* a silent peer is found out whenever a stream is open.
OpenStreamsWatched == Overdue /\ users.client /\ users.streams > 0 => task = "done"

\* The deadline of the keep-alive ping the Ponger waits for.
Deadline == ka.sleep

\* "the connection will be closed if a pong is not received in this amount
\* of time": it is closed only then.  A ping is outstanding at least as long
\* as the timeout, and its pong is not at hand.
TimeoutIsReal ==
  sh.timedOut => sh.sentAt # Never /\ now >= sh.sentAt + Timeout /\ pingpong # "pong"

\* "If the ping is not acknowledged within the timeout, the connection will
\* be closed": an acknowledgement that reached the socket in time keeps the
\* connection.  Holds when a woken task runs at once; otherwise Conn::poll
\* asks the Ponger, whose timer expired, before it reads the socket.
AckInTimeKeeps == sh.timedOut /\ pingpong = "acked" => sign >= Deadline

\* Code: Shared, Ponger::poll, Recorder::record_data.  Keep-alive and the
\* bandwidth estimate share one PING and agree on it: the ping that is out is
\* the one Shared remembers, and each sample ends with its pong.
PingAccounting == GTypeOK /\ PingTracked /\ SampleHasPing

\* Code: KeepAlive::maybe_ping, maybe_timeout.  A connection is given up only
\* for a ping that was outstanding for the whole timeout and that the peer
\* did not acknowledge in time.
TimeoutJust == TimeoutIsReal /\ AckInTimeKeeps
=============================================================================
