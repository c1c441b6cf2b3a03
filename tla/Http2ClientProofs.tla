-------------------------- MODULE Http2ClientProofs --------------------------
(***************************************************************************)
(* The tasks of an HTTP/2 connection, for any number of requests, clones   *)
(* of SendRequest and streams the peer allows.  They use the request       *)
(* channel as DispatchChannel allows, so what is proved of the channel     *)
(* holds of the connection; and they share the requests taken from it      *)
(* without losing one, answering one twice or opening too many streams.    *)
(***************************************************************************)
EXTENDS Http2Client, DispatchChannelProofs

-----------------------------------------------------------------------------
(* The inductive invariant.                                                *)

\* Where ClientTask may be; the state of a stream.
CtPc == {"ready", "recv", "take", "sent", "parked", "ended", "drop1", "drop2", "drop3", "gone"}
Half == [st : {"none", "pending", "open", "closed"}, sent : BOOLEAN,
         rcvd : BOOLEAN, resp : {"none", "ok", "err"}]

\* ClientTask is a record (HTypeOK constrains its fields only).
CtRecord ==
  ct \in [pc : CtPc, cur : Req \cup {None}, fut : Req \cup {None},
          on : SUBSET {"open", "channel", "eof"}]

\* ClientTask takes a request only after poll_ready said that no stream
\* waits to be opened and after fut_ctx was resumed.
Admission ==
  ct.pc \in {"recv", "take"} => ct.fut = None /\ \A r \in Req : strm[r].st # "pending"

\* The inductive invariant, that of the channel included.
HInv ==
  /\ IInv
  /\ CtRecord
  /\ HTypeOK
  /\ TakenHasOneOwner
  /\ Admission
  /\ OnePendingOpen

-----------------------------------------------------------------------------
(* The tasks use the channel correctly.                                    *)

\* ClientTask takes requests, serializes them, and drops the receiver.
LEMMA CtUsesChannel ==
  ASSUME HTypeOK, CtStep \/ CtPoll \/ CtAborted
  PROVE  [Next]_vars
<1> USE DEF Next, ReceiverStep, CallbackStep
<1>1. CASE CtWake \/ CtPoll \/ CtNotReady \/ CtConnError \/ CtReady \/ CtSentPending
           \/ CtDropConnRef \/ CtDropHandle \/ CtAborted
  BY <1>1 DEF CtWake, CtPoll, CtNotReady, CtConnError, CtReady, CtSentPending, CtDropConnRef,
              CtDropHandle, CtAborted
<1>2. ASSUME NEW how, CtResume(how) \/ CtSentOk(how) PROVE UNCHANGED vars
  BY <1>2 DEF CtResume, CtSentOk
<1>3. CASE CtRecv \/ CtEmpty \/ CtWant \/ CtNoHandles \/ CtDropRx
  BY <1>3 DEF CtRecv, CtEmpty, CtWant, CtNoHandles, CtDropRx
<1>4. ASSUME NEW r \in Req, CtRefuse(r) \/ CtSendRequest(r) \/ CtSentError(r) PROVE Next
  BY <1>4 DEF CtRefuse, CtSendRequest, CtSentError
<1>5. CASE CtDropFut
  BY <1>5 DEF CtDropFut, HTypeOK
<1> QED  BY <1>1, <1>2, <1>3, <1>4, <1>5 DEF CtStep

\* The connection, the peer and the pipes leave the channel alone; SendWhen
\* answers, the callers send and leave.
LEMMA OthersUseChannel ==
  ASSUME \/ ConnStep \/ PeerStep
         \/ \E r \in Req : PipeStep(r) \/ SwStep(r) \/ ImplicitReset(r)
         \/ \E h \in Handle : HCaller(h)
         \/ \E r \in Req : HAbandon(r) \/ BodyDropped(r)
  PROVE  [Next]_vars
<1>1. CASE ConnStep  BY <1>1 DEF ConnStep, ConnTaskDone, ConnTaskParks
<1>2. CASE PeerStep
  BY <1>2 DEF PeerStep, PeerOpens, PeerResponds, PeerEndsStream, PeerResets, PeerGoesAway, ConnFails
<1>3. ASSUME NEW r \in Req, PipeStep(r) \/ ImplicitReset(r) \/ BodyDropped(r) PROVE UNCHANGED vars
  BY <1>3 DEF PipeStep, PipeCancelled, PipeSent, PipeBodyError, PipeReset, PipeEnds, ImplicitReset,
              BodyDropped
<1>4. ASSUME NEW r \in Req, SwStep(r) \/ HAbandon(r) PROVE Next
  BY <1>4 DEF SwStep, SwResponse, SwConnectBody, SwError, SwCancelled, HAbandon, Next, CallbackStep
<1>5. ASSUME NEW h \in Handle, HCaller(h) PROVE Next
  BY <1>5, Http2Assumption DEF HCaller, Next, HandleStep
<1> QED  BY <1>1, <1>2, <1>3, <1>4, <1>5

\* Every step of the tasks is a step of the channel or leaves it alone.
LEMMA StepUsesChannel == HTypeOK /\ [HNext]_hvars => [Next]_vars
<1>1. UNCHANGED hvars => UNCHANGED vars  BY DEF hvars
<1> QED  BY <1>1, CtUsesChannel, OthersUseChannel DEF HNext

-----------------------------------------------------------------------------
(* Streams.                                                                *)

\* The step of the library on the streams keeps their type and makes no
\* stream wait to be opened.
NoNewPending ==
  /\ strm' \in [Req -> Half]
  /\ \A r \in Req : strm'[r].st = "pending" => strm[r].st = "pending"

\* Ending a half of a stream, or the whole of it.
LEMMA StreamEnds ==
  ASSUME NEW s \in Half
  PROVE  /\ Broken(s) \in Half /\ Broken(s).st # "pending"
         /\ Shut([s EXCEPT !.sent = TRUE]) \in Half
         /\ Shut([s EXCEPT !.rcvd = TRUE]) \in Half
         /\ Shut([s EXCEPT !.sent = TRUE]).st = "pending" => s.st = "pending"
         /\ Shut([s EXCEPT !.rcvd = TRUE]).st = "pending" => s.st = "pending"
  BY DEF Half, Broken, Shut, Closed, Live

\* A step that changes one stream.
LEMMA OneStream ==
  ASSUME HInv, NEW r \in Req, NEW s \in Half, s.st = "pending" => strm[r].st = "pending",
         strm' = [strm EXCEPT ![r] = s]
  PROVE  NoNewPending
  BY DEF HInv, HTypeOK, NoNewPending, Half

\* A step of another task than ClientTask: the streams only end, and a
\* SendWhen task goes with the callback it answers.
LEMMA OtherTask ==
  ASSUME HInv, NoNewPending, ct' = ct, pipes' \subseteq pipes, told' \subseteq pipes',
         bodies' \subseteq Req,
         \/ sends' = sends /\ held' = held
         \/ \E r \in sends : sends' = sends \ {r} /\ held' = held \ {r}
  PROVE  (CtRecord /\ HTypeOK /\ TakenHasOneOwner /\ Admission /\ OnePendingOpen)'
<1>1. CtRecord'  BY DEF HInv, CtRecord
<1>2. HTypeOK'
  BY DEF HInv, HTypeOK, NoNewPending, Half
<1>3. TakenHasOneOwner'
  BY DEF HInv, TakenHasOneOwner
<1>4. Admission' /\ OnePendingOpen'
  BY DEF HInv, Admission, OnePendingOpen, NoNewPending
<1> QED  BY <1>1, <1>2, <1>3, <1>4

\* The peer, the connection, the pipes, the SendWhen tasks and the callers.
LEMMA OthersStep ==
  ASSUME HInv,
         \/ ConnStep \/ PeerStep
         \/ \E r \in Req : PipeStep(r) \/ SwStep(r) \/ ImplicitReset(r)
         \/ \E h \in Handle : HCaller(h)
         \/ \E r \in Req : HAbandon(r) \/ BodyDropped(r)
  PROVE  (CtRecord /\ HTypeOK /\ TakenHasOneOwner /\ Admission /\ OnePendingOpen)'
<1> DEFINE Goal == (CtRecord /\ HTypeOK /\ TakenHasOneOwner /\ Admission /\ OnePendingOpen)'
<1>0. /\ strm \in [Req -> Half] /\ sends \subseteq Req /\ bodies \subseteq Req
      /\ told \subseteq pipes
  BY DEF HInv, HTypeOK, Half
<1>s. strm' = strm => NoNewPending
  BY <1>0 DEF NoNewPending
<1> HIDE DEF Goal
<1>1. ASSUME NoNewPending, UNCHANGED <<ct, pipes, told, sends, bodies, held>> PROVE Goal
  BY <1>0, <1>1, OtherTask DEF Goal
<1>2. CASE ConnStep
  BY <1>1, <1>2, <1>s DEF ConnStep, ConnTaskDone, ConnTaskParks, Goal, vars
<1>3. ASSUME NEW r \in Req, PeerOpens(r) PROVE Goal
  <2>1. [strm[r] EXCEPT !.st = "open"] \in Half /\ [strm[r] EXCEPT !.st = "open"].st # "pending"
    BY <1>0 DEF Half
  <2>2. strm' = [strm EXCEPT ![r] = [strm[r] EXCEPT !.st = "open"]]
    BY <1>3 DEF PeerOpens
  <2> QED  BY <1>1, <1>3, <2>1, <2>2, OneStream DEF PeerOpens, vars
<1>4. ASSUME NEW r \in Req, PeerResponds(r) PROVE Goal
  <2>1. [strm[r] EXCEPT !.resp = "ok"] \in Half
        /\ [strm[r] EXCEPT !.resp = "ok"].st = strm[r].st
    BY <1>0 DEF Half
  <2>2. strm' = [strm EXCEPT ![r] = [strm[r] EXCEPT !.resp = "ok"]]
    BY <1>4 DEF PeerResponds
  <2> QED  BY <1>1, <1>4, <2>1, <2>2, OneStream DEF PeerResponds, vars
<1>5. ASSUME NEW r \in Req, PeerEndsStream(r) PROVE Goal
  BY <1>0, <1>1, <1>5, StreamEnds, OneStream DEF PeerEndsStream, vars
<1>6. ASSUME NEW r \in Req, PeerResets(r) \/ ImplicitReset(r) PROVE Goal
  BY <1>0, <1>1, <1>6, StreamEnds, OneStream DEF PeerResets, ImplicitReset, vars
<1>7. ASSUME NEW S \in SUBSET Req, PeerGoesAway(S) PROVE Goal
  <2>1. NoNewPending  BY <1>0, <1>7, StreamEnds DEF PeerGoesAway, NoNewPending
  <2> QED  BY <1>1, <1>7, <2>1 DEF PeerGoesAway, vars
<1>8. CASE ConnFails
  <2>1. NoNewPending  BY <1>0, <1>8, StreamEnds DEF ConnFails, NoNewPending
  <2> QED  BY <1>1, <1>8, <2>1 DEF ConnFails, Goal, vars
<1>9. ASSUME NEW r \in Req, PipeStep(r) PROVE Goal
  <2>1. PICK s \in Half : PipeEnds(r, s) /\ (s.st = "pending" => strm[r].st = "pending")
    BY <1>0, <1>9, StreamEnds DEF PipeStep, PipeCancelled, PipeSent, PipeBodyError, PipeReset
  <2>2. NoNewPending  BY <2>1, OneStream DEF PipeEnds
  <2> QED  BY <1>0, <2>1, <2>2, OtherTask DEF PipeEnds, Goal, vars
<1>10. ASSUME NEW r \in Req, SwStep(r) PROVE Goal
  <2>1. r \in sends /\ sends' = sends \ {r} /\ held' = held \ {r} /\ UNCHANGED <<ct, pipes>>
    BY <1>10 DEF SwStep, SwResponse, SwConnectBody, SwError, SwCancelled, SwEnds, SendOk, SendErr
  <2>2. told' \subseteq pipes' /\ bodies' \subseteq Req
    BY <1>0, <1>10, <2>1 DEF SwStep, SwResponse, SwConnectBody, SwError, SwCancelled
  <2>3. NoNewPending
    BY <1>0, <1>10, <1>s, StreamEnds, OneStream
    DEF SwStep, SwResponse, SwConnectBody, SwError, SwCancelled
  <2> QED  BY <2>1, <2>2, <2>3, OtherTask DEF Goal
<1>11. ASSUME NEW h \in Handle, HCaller(h) PROVE Goal
  BY <1>1, <1>11, <1>s DEF HCaller, TrySendUnbounded, DropHandle, tvars
<1>12. ASSUME NEW r \in Req, HAbandon(r) PROVE Goal
  BY <1>1, <1>12, <1>s DEF HAbandon, Abandon, tvars
<1>13. ASSUME NEW r \in Req, BodyDropped(r) PROVE Goal
  BY <1>0, <1>13, <1>s, OtherTask DEF BodyDropped, Goal, vars
<1> QED
  BY <1>2, <1>3, <1>4, <1>5, <1>6, <1>7, <1>8, <1>9, <1>10, <1>11, <1>12, <1>13 DEF PeerStep, Goal

-----------------------------------------------------------------------------
(* ClientTask.                                                             *)

\* A step of ClientTask that only moves its program counter, not to where a
\* request is taken, and leaves its wakers when it parks.
LEMMA CtMoves ==
  ASSUME HInv, NEW pc \in CtPc \ {"recv", "take", "sent"}, ct.pc \notin {"take", "sent"},
         NEW on \in SUBSET {"open", "channel", "eof"}, pc = "parked" <=> on # {},
         ct' = [ct EXCEPT !.pc = pc, !.on = on],
         UNCHANGED <<strm, pipes, sends, told, bodies, held>>
  PROVE  (CtRecord /\ HTypeOK /\ TakenHasOneOwner /\ Admission /\ OnePendingOpen)'
<1>1. CtRecord' /\ ct'.pc = pc /\ ct'.cur = ct.cur /\ ct'.fut = ct.fut /\ ct'.on = on
  BY DEF HInv, CtRecord
<1>2. HTypeOK'  BY <1>1 DEF HInv, HTypeOK, CtPc
<1>3. TakenHasOneOwner' /\ Admission' /\ OnePendingOpen'
  BY <1>1 DEF HInv, TakenHasOneOwner, Admission, OnePendingOpen
<1> QED  BY <1>1, <1>2, <1>3

\* ... or moves it between two points where it is awake.
LEMMA CtMovesAwake ==
  ASSUME HInv, NEW pc \in CtPc \ {"recv", "take", "sent", "parked"},
         ct.pc \notin {"take", "sent", "parked"},
         ct' = [ct EXCEPT !.pc = pc],
         UNCHANGED <<strm, pipes, sends, told, bodies, held>>
  PROVE  (CtRecord /\ HTypeOK /\ TakenHasOneOwner /\ Admission /\ OnePendingOpen)'
<1>1. ct.on = {} /\ CtRecord  BY DEF HInv, HTypeOK
<1>2. ct' = [ct EXCEPT !.pc = pc, !.on = {}]  BY <1>1 DEF CtRecord
<1> QED  BY <1>2, CtMoves

\* poll_pipe: a SendWhen task becomes the owner of the request, and a PipeMap
\* task is spawned only for a request with a body.
LEMMA PipeStarts ==
  ASSUME HInv, NEW r \in Req, NEW how, PollPipe(r, how)
  PROVE  /\ NoNewPending
         /\ sends' = sends \cup {r} /\ bodies' = bodies /\ told' = told
         /\ pipes \subseteq pipes' /\ pipes' \subseteq Req \ Connects
<1>0. strm \in [Req -> Half] /\ pipes \subseteq Req \ Connects
  BY DEF HInv, HTypeOK, Half
<1>1. PICK s \in Half : /\ s.st = "pending" => strm[r].st = "pending"
                       /\ strm' = [strm EXCEPT ![r] = s]
  <2> DEFINE s == CASE how = "ok" /\ Live(strm[r]) -> Shut([strm[r] EXCEPT !.sent = TRUE])
                    [] how = "err" -> Broken(strm[r])
                    [] OTHER -> strm[r]
  <2>1. strm' = [strm EXCEPT ![r] = s]  BY DEF PollPipe
  <2>2. s \in Half /\ (s.st = "pending" => strm[r].st = "pending")
    <3>1. CASE how = "ok" /\ Live(strm[r])
      <4>1. s = Shut([strm[r] EXCEPT !.sent = TRUE])  BY <3>1
      <4> QED  BY <1>0, <4>1, StreamEnds
    <3>2. CASE how = "err"
      <4>1. s = Broken(strm[r])  BY <3>2
      <4> QED  BY <1>0, <4>1, StreamEnds
    <3>3. CASE ~(how = "ok" /\ Live(strm[r])) /\ how # "err"
      <4>1. s = strm[r]  BY <3>3
      <4> QED  BY <1>0, <4>1
    <3> QED  BY <3>1, <3>2, <3>3
  <2> QED  BY <2>1, <2>2
<1>2. NoNewPending  BY <1>1, OneStream
<1>3. how = "run" => r \notin Connects  BY DEF PollPipe
<1> QED  BY <1>0, <1>2, <1>3 DEF PollPipe

\* Every step of ClientTask keeps the tasks' part of the invariant.
LEMMA CtStepKeeps ==
  ASSUME HInv, CtStep \/ CtPoll \/ CtAborted
  PROVE  (CtRecord /\ HTypeOK /\ TakenHasOneOwner /\ Admission /\ OnePendingOpen)'
<1> DEFINE Goal == (CtRecord /\ HTypeOK /\ TakenHasOneOwner /\ Admission /\ OnePendingOpen)'
<1> HIDE DEF Goal
<1>0. /\ CtRecord /\ HTypeOK /\ TakenHasOneOwner /\ Admission /\ OnePendingOpen
      /\ None \notin Req
  BY ChannelAssumption DEF HInv
<1>1. CASE CtPoll \/ CtNotReady \/ CtAborted
  <2>1. PICK pc \in {"ready", "parked", "ended"}, on \in {{}, {"open"}} :
          ct' = [ct EXCEPT !.pc = pc, !.on = on] /\ (pc = "parked" <=> on # {})
    BY <1>1 DEF CtPoll, CtNotReady, CtAborted, Park
  <2>2. ct.pc \notin {"take", "sent"} /\ UNCHANGED <<strm, pipes, sends, told, bodies, held>>
    BY <1>1 DEF CtPoll, CtNotReady, CtAborted, CtOnly, vars
  <2> QED  BY <2>1, <2>2, CtMoves DEF CtPc
<1>1a. CASE CtConnError \/ CtDropConnRef \/ CtDropHandle
  <2>1. PICK pc \in {"ended", "drop1", "drop2"} : ct' = [ct EXCEPT !.pc = pc]
    BY <1>1a DEF CtConnError, CtDropConnRef, CtDropHandle
  <2>2. /\ ct.pc \notin {"take", "sent", "parked"}
        /\ UNCHANGED <<strm, pipes, sends, told, bodies, held>>
    BY <1>1a DEF CtConnError, CtDropConnRef, CtDropHandle, CtOnly, vars
  <2> QED  BY <2>1, <2>2, CtMovesAwake DEF CtPc
<1>2. CASE CtReady
  <2>1. ct.cur = None /\ ct.fut = None /\ \A r \in Req : strm[r].st # "pending"
    BY <1>0, <1>2 DEF CtReady, ReadyOk, HTypeOK
  <2>2. ct' = [pc |-> "recv", cur |-> None, fut |-> None, on |-> {}]
    BY <1>0, <1>2, <2>1 DEF CtReady, CtRecord, HTypeOK
  <2>3. UNCHANGED <<strm, pipes, sends, told, bodies, held>>
    BY <1>2 DEF CtReady, CtOnly, vars
  <2>4. CtRecord' /\ HTypeOK'
    BY <1>0, <2>2, <2>3 DEF CtRecord, HTypeOK, CtPc
  <2>5. TakenHasOneOwner' /\ Admission' /\ OnePendingOpen'
    BY <1>0, <2>1, <2>2, <2>3 DEF TakenHasOneOwner, Admission, OnePendingOpen
  <2> QED  BY <2>4, <2>5
<1>3. ASSUME NEW how, CtResume(how) \/ CtSentOk(how) PROVE Goal
  <2>1. PICK r \in Req : /\ PollPipe(r, how)
                         /\ {ct.cur, ct.fut} \ {None} = {r}
                         /\ ct' = [pc |-> "ready", cur |-> None, fut |-> None, on |-> {}]
    <3>1. CASE CtResume(how)
      <4>1. ct.fut \in Req /\ ct.cur = None /\ ct' = [pc |-> "ready", cur |-> None, fut |-> None, on |-> {}]
        BY <1>0, <3>1 DEF CtResume, HTypeOK, CtRecord
      <4> QED  BY <1>0, <3>1, <4>1 DEF CtResume
    <3>2. CASE CtSentOk(how)
      <4>1. ct.cur \in Req /\ ct.fut = None /\ ct' = [pc |-> "ready", cur |-> None, fut |-> None, on |-> {}]
        BY <1>0, <3>2 DEF CtSentOk, HTypeOK, CtRecord, TakenHasOneOwner
      <4> QED  BY <1>0, <3>2, <4>1 DEF CtSentOk
    <3> QED  BY <1>3, <3>1, <3>2
  <2>2. held' = held  BY <1>3 DEF CtResume, CtSentOk, vars
  <2>3. /\ NoNewPending
        /\ sends' = sends \cup {r} /\ bodies' = bodies /\ told' = told
        /\ pipes \subseteq pipes' /\ pipes' \subseteq Req \ Connects
    BY <2>1, PipeStarts
  <2>4. CtRecord' /\ HTypeOK'
    BY <1>0, <2>1, <2>3 DEF CtRecord, HTypeOK, CtPc, NoNewPending, Half
  <2>5. TakenHasOneOwner'
    BY <1>0, <2>1, <2>2, <2>3 DEF TakenHasOneOwner
  <2>6. Admission' /\ OnePendingOpen'
    BY <1>0, <2>1, <2>3 DEF Admission, OnePendingOpen, NoNewPending
  <2> QED  BY <2>4, <2>5, <2>6 DEF Goal
<1>4. CASE CtRecv
  <2>1. ct.cur = None /\ ct.fut = None /\ \A r \in Req : strm[r].st # "pending"
    BY <1>0, <1>4 DEF CtRecv, Admission, HTypeOK
  <2>2. UNCHANGED <<strm, pipes, sends, told, bodies>>
    BY <1>4 DEF CtRecv, CtOnly
  <2>3. Head(queue) \in Req /\ Head(queue) \notin held
    <3>1. queue \in Seq(Req) /\ queue # <<>>
      BY <1>4 DEF CtRecv, RecvItem, HInv, IInv, TypeOK
    <3>2. Head(queue) \in Req /\ Head(queue) = queue[1] /\ 1 \in 1..Len(queue)
      BY <3>1, QueueFacts
    <3> QED  BY <3>2 DEF HInv, IInv, OneCallback, Queued
  <2>4. CASE promise[Head(queue)] = "pending"
    <3>1. ct' = [pc |-> "take", cur |-> Head(queue), fut |-> None, on |-> {}] /\ held' = held \cup {Head(queue)}
      BY <1>0, <1>4, <2>1, <2>4 DEF CtRecv, CtRecord, RecvItem, HTypeOK
    <3>2. CtRecord' /\ HTypeOK'
      BY <1>0, <2>2, <2>3, <3>1 DEF CtRecord, HTypeOK, CtPc
    <3>3. TakenHasOneOwner'
      BY <1>0, <2>1, <2>2, <2>3, <3>1 DEF TakenHasOneOwner
    <3>4. Admission' /\ OnePendingOpen'
      BY <1>0, <2>1, <2>2, <3>1 DEF Admission, OnePendingOpen
    <3> QED  BY <3>2, <3>3, <3>4
  <2>5. CASE promise[Head(queue)] # "pending"
    <3>1. ct' = [ct EXCEPT !.pc = "ready"] /\ held' = held
      BY <1>4, <2>5 DEF CtRecv, RecvItem
    <3> QED  BY <1>4, <2>2, <3>1, CtMovesAwake DEF CtRecv, CtPc
  <2> QED  BY <2>4, <2>5
<1>5. CASE CtEmpty
  <2>1. UNCHANGED <<ct, strm, pipes, sends, told, bodies, held>>
    BY <1>5 DEF CtEmpty, CtOnly, RecvEmpty
  <2> QED
    BY <1>0, <2>1 DEF CtRecord, HTypeOK, TakenHasOneOwner, Admission, OnePendingOpen
<1>6. CASE CtWant \/ CtNoHandles
  <2>1. ct.pc = "recv" /\ UNCHANGED <<strm, pipes, sends, told, bodies, held>>
    BY <1>6 DEF CtWant, CtNoHandles, CtOnly, RecvWant, RecvEnd
  <2>2. \/ ct' = [ct EXCEPT !.pc = "ended"]
        \/ ct' = [ct EXCEPT !.pc = "parked", !.on = {"channel", "eof"}]
    BY <1>6 DEF CtWant, CtNoHandles, Park
  <2>3. CASE ct' = [ct EXCEPT !.pc = "ended"]
    BY <2>1, <2>3, CtMovesAwake DEF CtPc
  <2>4. CASE ct' = [ct EXCEPT !.pc = "parked", !.on = {"channel", "eof"}]
    BY <2>1, <2>4, CtMoves DEF CtPc
  <2> QED  BY <2>2, <2>3, <2>4
<1>7. CASE CtSentPending
  <2>1. ct.cur \in Req /\ ct.fut = None /\ ct' = [pc |-> "parked", cur |-> None, fut |-> ct.cur, on |-> {"open"}]
    BY <1>0, <1>7 DEF CtSentPending, HTypeOK, TakenHasOneOwner, CtRecord, Park
  <2>2. UNCHANGED <<strm, pipes, sends, told, bodies, held>>
    BY <1>7 DEF CtSentPending, CtOnly, vars
  <2>3. CtRecord' /\ HTypeOK'
    BY <1>0, <2>1, <2>2 DEF CtRecord, HTypeOK, CtPc
  <2>4. TakenHasOneOwner' /\ Admission' /\ OnePendingOpen'
    BY <1>0, <2>1, <2>2 DEF TakenHasOneOwner, Admission, OnePendingOpen
  <2> QED  BY <2>3, <2>4
<1>8. ASSUME NEW r \in Req, CtRefuse(r) \/ CtSentError(r) PROVE Goal
  <2>1. ct.cur = r /\ ct.fut = None /\ ct' = [pc |-> "ready", cur |-> None, fut |-> None, on |-> {}]
    BY <1>0, <1>8 DEF CtRefuse, CtSentError, CtRecord, HTypeOK, TakenHasOneOwner
  <2>2. UNCHANGED <<strm, pipes, sends, told, bodies>> /\ held' = held \ {r}
    BY <1>8 DEF CtRefuse, CtSentError, CtOnly, SendErr
  <2>3. CtRecord' /\ HTypeOK'
    BY <1>0, <2>1, <2>2 DEF CtRecord, HTypeOK, CtPc
  <2>4. TakenHasOneOwner' /\ Admission' /\ OnePendingOpen'
    BY <1>0, <2>1, <2>2 DEF TakenHasOneOwner, Admission, OnePendingOpen
  <2> QED  BY <2>3, <2>4 DEF Goal
<1>9. ASSUME NEW r \in Req, CtSendRequest(r) PROVE Goal
  <2>1. ct.cur = r /\ ct.fut = None /\ ct' = [pc |-> "sent", cur |-> r, fut |-> None, on |-> {}]
    BY <1>0, <1>9 DEF CtSendRequest, CtRecord, HTypeOK, TakenHasOneOwner
  <2>2. UNCHANGED <<pipes, sends, told, bodies, held>>
    BY <1>9 DEF CtSendRequest, Serialize
  <2>3. \A q \in Req : strm[q].st # "pending"
    BY <1>0, <1>9 DEF CtSendRequest, Admission
  <2>4. PICK s \in Half : strm' = [strm EXCEPT ![r] = s]
    <3>1. \A st \in {"open", "pending"}, b \in BOOLEAN :
            [NoStream EXCEPT !.st = st, !.sent = b] \in Half
      BY DEF NoStream, Half
    <3> QED  BY <1>9, <3>1 DEF CtSendRequest
  <2>5. CtRecord' /\ HTypeOK'
    BY <1>0, <2>1, <2>2, <2>4 DEF CtRecord, HTypeOK, CtPc, Half
  <2>6. TakenHasOneOwner' /\ Admission'
    BY <1>0, <2>1, <2>2 DEF TakenHasOneOwner, Admission
  <2>7. OnePendingOpen'
    BY <1>0, <2>3, <2>4 DEF OnePendingOpen, HTypeOK
  <2> QED  BY <2>5, <2>6, <2>7 DEF Goal
<1>10. CASE CtDropRx
  <2>1. ct.pc = "drop2" /\ UNCHANGED <<strm, pipes, sends, told, bodies, held>>
    BY <1>10 DEF CtDropRx, CtOnly, DropCancel, DropInner
  <2>2. PICK pc \in {"drop2", "drop3"} : ct' = [ct EXCEPT !.pc = pc]
    BY <1>0, <1>10, <2>1 DEF CtDropRx, CtRecord
  <2> QED  BY <2>1, <2>2, CtMovesAwake DEF CtPc
<1>11. CASE CtDropFut
  <2>1. ct.cur = None /\ ct' = [pc |-> "gone", cur |-> None, fut |-> None, on |-> {}]
    BY <1>0, <1>11 DEF CtDropFut, CtRecord, HTypeOK
  <2>2. UNCHANGED <<strm, pipes, sends, told, bodies>> /\ held' = held \ {ct.fut}
    BY <1>0, <1>11 DEF CtDropFut, SendErr, vars, TakenHasOneOwner, HTypeOK
  <2>3. CtRecord' /\ HTypeOK'
    BY <1>0, <2>1, <2>2 DEF CtRecord, HTypeOK, CtPc
  <2>4. TakenHasOneOwner' /\ Admission' /\ OnePendingOpen'
    BY <1>0, <2>1, <2>2 DEF TakenHasOneOwner, Admission, OnePendingOpen, HTypeOK
  <2> QED  BY <2>3, <2>4
<1> QED
  BY <1>1, <1>1a, <1>2, <1>3, <1>4, <1>5, <1>6, <1>7, <1>8, <1>9, <1>10, <1>11
  DEF CtStep, CtWake, Goal

-----------------------------------------------------------------------------
(* The theorems.                                                           *)

\* The inductive invariant holds of every behaviour of the tasks.
THEOREM HInvariance == HSafety => []HInv
<1>1. ASSUME HInit PROVE HInv
  <2>1. IInv  BY <1>1, InitIInv DEF HInit
  <2>2. CtRecord /\ HTypeOK
    BY <1>1, ChannelAssumption DEF HInit, CtRecord, CtPc, HTypeOK, NoStream
  <2>3. TakenHasOneOwner /\ Admission /\ OnePendingOpen
    BY <1>1, ChannelAssumption
    DEF HInit, Init, TakenHasOneOwner, Admission, OnePendingOpen, NoStream
  <2> QED  BY <2>1, <2>2, <2>3 DEF HInv
<1>2. HInv /\ [HNext]_hvars => HInv'
  <2> SUFFICES ASSUME HInv, [HNext]_hvars PROVE HInv'  OBVIOUS
  <2>1. IInv'
    BY StepUsesChannel, StepIInv DEF HInv
  <2>2. (CtRecord /\ HTypeOK /\ TakenHasOneOwner /\ Admission /\ OnePendingOpen)'
    <3>1. CASE UNCHANGED hvars
      BY <3>1 DEF HInv, hvars, tvars, vars, CtRecord, HTypeOK, TakenHasOneOwner, Admission,
                  OnePendingOpen
    <3> QED  BY <3>1, OthersStep, CtStepKeeps DEF HNext
  <2> QED  BY <2>1, <2>2 DEF HInv
<1> QED  BY <1>1, <1>2, PTL DEF HSafety

\* client.rs: the tasks of a connection keep well-typed state, and every
\* request taken off the channel has exactly one of them to answer it:
\* ClientTask's hands, fut_ctx or its SendWhen task.
THEOREM Http2TasksConsistent == HSafety => []TasksConsistent
<1>1. HInv => TasksConsistent  BY DEF HInv, TasksConsistent
<1> QED  BY <1>1, HInvariance, PTL

\* client.rs: ClientTask never commits a second request to a connection on
\* which one still waits for the peer to open its stream.
THEOREM Http2OnePendingOpen == HSafety => []OnePendingOpen
<1>1. HInv => OnePendingOpen  BY DEF HInv
<1> QED  BY <1>1, HInvariance, PTL

\* client.rs, dispatch.rs: the tasks of an HTTP/2 connection use the channel
\* as its specification allows.
THEOREM Http2UsesChannel == HSafety => Safety
<1>1. HInit => Init  BY DEF HInit
<1>2. HInv /\ [HNext]_hvars => [Next]_vars  BY StepUsesChannel DEF HInv
<1> QED  BY <1>1, <1>2, HInvariance, PTL DEF HSafety, Safety

\* client.rs, dispatch.rs: however the tasks, the peer and the callers
\* interleave and the connection ends, a request is answered once at most,
\* with what was promised, and comes back only if h2 was never given it.
THEOREM Http2KeepsPromise == HSafety => PromiseKept
  BY Http2UsesChannel, ImplementsPromise, PTL DEF PromiseKept

\* dispatch.rs on an HTTP/2 connection: no callback is lost or doubled.
THEOREM Http2NoLostCallback == HSafety => []OneCallback
  BY Http2UsesChannel, NoLostCallback, PTL
=============================================================================
