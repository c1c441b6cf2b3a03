----------------------- MODULE DispatchChannelProofs -----------------------
(***************************************************************************)
(* Proofs about DispatchChannel, for any set of requests and handles, both *)
(* kinds of sender and any queue length.                                   *)
(***************************************************************************)
EXTENDS DispatchChannel, TLAPS

-----------------------------------------------------------------------------
(* The inductive invariant, in named parts.                                *)

\* Where a request can be, and what its caller then knows.
Places ==
  /\ \A i \in 1..Len(queue) : promise[queue[i]] \in {"pending", "abandoned"}
                              /\ queue[i] \notin written
  /\ \A r \in held : promise[r] \in {"pending", "abandoned"}
  /\ \A h \in Handle : txpc[h] = "push" => Bounded /\ promise[txreq[h]] = "sending"
  /\ \A r \in Req : promise[r] \in {"unsent", "sending", "returned"} => r \notin written

\* How the receiver's position, the queue's state and `want` agree.
Closing ==
  /\ rx \in {"cancel", "closed", "drop", "gone"} => want = "Closed"
  /\ rx \in {"idle", "empty", "cancel"} => inner = "open"
  /\ inner # "open" => want = "Closed"

\* An unused Want, a want() about to be called, a push in progress and the
\* free first message are each worth one more request.
Pushing == \E h \in Handle : txpc[h] = "push"
WantCredit == IF want = "Want" THEN 1 ELSE 0
PollCredit == IF rx = "empty" THEN 1 ELSE 0
PushCredit == IF Pushing THEN 1 ELSE 0
FreeCredit == IF bufferedOnce THEN 0 ELSE 1
Credits ==
  Bounded =>
    /\ Len(queue) + WantCredit + PollCredit + PushCredit + FreeCredit <= 3
    /\ ~bufferedOnce => queue = <<>> /\ ~Pushing

IInv ==
  /\ TypeOK
  /\ OneCallback
  /\ Places
  /\ Closing
  /\ Credits
  /\ ReadyIsKept
  /\ ParkedIsHeard

-----------------------------------------------------------------------------
(* Facts about queues.                                                     *)

\* Each credit is 0 or 1.
LEMMA CreditRange ==
  /\ WantCredit \in 0..1 /\ PollCredit \in 0..1 /\ PushCredit \in 0..1 /\ FreeCredit \in 0..1
  BY DEF WantCredit, PollCredit, PushCredit, FreeCredit

\* The credits as parts of one sum that a step must not raise.
LEMMA CreditSum ==
  ASSUME TypeOK, TypeOK', Credits,
         Bounded => Len(queue)' + WantCredit' + PollCredit' + PushCredit' + FreeCredit'
                      <= Len(queue) + WantCredit + PollCredit + PushCredit + FreeCredit,
         ~bufferedOnce' => queue' = <<>> /\ ~Pushing'
  PROVE  Credits'
<1>1. Len(queue) \in Nat /\ Len(queue)' \in Nat
  BY DEF TypeOK
<1>2. /\ WantCredit' \in 0..1 /\ PollCredit' \in 0..1
      /\ PushCredit' \in 0..1 /\ FreeCredit' \in 0..1
  BY DEF WantCredit, PollCredit, PushCredit, FreeCredit
<1> QED
  BY <1>1, <1>2, CreditRange DEF Credits

\* What Append and Tail do to a queue of requests, index by index.
LEMMA QueueFacts ==
  ASSUME NEW q \in Seq(Req)
  PROVE  /\ \A r \in Req : /\ Append(q, r) \in Seq(Req)
                           /\ Len(Append(q, r)) = Len(q) + 1
                           /\ \A i \in 1..Len(q) : Append(q, r)[i] = q[i]
                           /\ Append(q, r)[Len(q) + 1] = r
         /\ q # <<>> => /\ Head(q) \in Req /\ Head(q) = q[1]
                        /\ Tail(q) \in Seq(Req)
                        /\ Len(q) \in Nat \ {0}
                        /\ Len(Tail(q)) = Len(q) - 1
                        /\ \A i \in 1..Len(Tail(q)) : Tail(q)[i] = q[i + 1] /\ i + 1 \in 1..Len(q)
  OBVIOUS


\* Every step keeps the types.
LEMMA TypeStep == TypeOK /\ [Next]_vars => TypeOK'
<1> SUFFICES ASSUME TypeOK, [Next]_vars PROVE TypeOK'
  OBVIOUS
<1> USE ChannelAssumption DEF TypeOK, WantStates, TxStates, RxStates, PromiseStates, txVars
<1>1. ASSUME NEW h \in Handle, PollReady(h) PROVE TypeOK'
  BY <1>1 DEF PollReady
<1>2. ASSUME NEW h \in Handle, NEW r \in Req, TrySend(h, r) PROVE TypeOK'
  <2>1. txreq' \in [Handle -> Req \cup {None}] /\ txpc' \in [Handle -> TxStates]
    BY <1>2 DEF TrySend
  <2>2. \A g \in Handle \ {h} : txpc'[g] = txpc[g] /\ txreq'[g] = txreq[g]
    BY <1>2 DEF TrySend
  <2>3. txpc'[h] = "push" <=> txreq'[h] # None
    BY <1>2 DEF TrySend
  <2>4. promise' \in [Req -> PromiseStates] /\ want' \in WantStates /\ bufferedOnce' \in BOOLEAN
    BY <1>2, ZenonT(90) DEF TrySend
  <2>5. \A g \in Handle : txpc'[g] = "push" <=> txreq'[g] # None
    BY <2>2, <2>3
  <2> QED
    BY <1>2, <2>1, <2>4, <2>5 DEF TrySend
<1>3. ASSUME NEW h \in Handle, TrySendPush(h) PROVE TypeOK'
  <2>1. txreq[h] \in Req
    BY <1>3 DEF TrySendPush
  <2>2. txpc'[h] # "push" /\ txreq'[h] = None
    BY <1>3 DEF TrySendPush
  <2>3. \A g \in Handle \ {h} : txpc'[g] = txpc[g] /\ txreq'[g] = txreq[g]
    BY <1>3 DEF TrySendPush
  <2>4. queue' \in Seq(Req) /\ promise' \in [Req -> PromiseStates]
    <3>1. CASE inner = "open"
      <4>1. queue' = Append(queue, txreq[h]) /\ promise' = [promise EXCEPT ![txreq[h]] = "pending"]
        BY <1>3, <3>1 DEF TrySendPush, Send
      <4>2. Append(queue, txreq[h]) \in Seq(Req)
        BY <2>1, QueueFacts
      <4> QED
        BY <4>1, <4>2
    <3>2. CASE inner # "open"
      BY <1>3, <2>1, <3>2 DEF TrySendPush, Send
    <3> QED
      BY <3>1, <3>2
  <2> QED
    BY <1>3, <2>1, <2>2, <2>3, <2>4 DEF TrySendPush
<1>4. ASSUME NEW h \in Handle, NEW r \in Req, TrySendUnbounded(h, r) PROVE TypeOK'
  <2>1. queue' \in Seq(Req) /\ promise' \in [Req -> PromiseStates]
    <3>1. CASE inner = "open"
      <4>1. queue' = Append(queue, r) /\ promise' = [promise EXCEPT ![r] = "pending"]
        BY <1>4, <3>1 DEF TrySendUnbounded, Send
      <4> QED
        BY <4>1
    <3>2. CASE inner # "open"
      <4>1. queue' = queue /\ promise' = [promise EXCEPT ![r] = "returned"]
        BY <1>4, <3>2 DEF TrySendUnbounded, Send
      <4> QED
        BY <4>1
    <3> QED
      BY <3>1, <3>2
  <2>2. UNCHANGED <<want, bufferedOnce, txpc, txreq, inner, rx, held, written>>
    BY <1>4 DEF TrySendUnbounded
  <2> QED
    BY <2>1, <2>2
<1>5. ASSUME NEW h \in Handle, DropHandle(h) PROVE TypeOK'
  BY <1>5 DEF DropHandle
<1>6. ASSUME RecvItem PROVE TypeOK'
  BY <1>6 DEF RecvItem, MayPoll
<1>7. ASSUME RecvEmpty PROVE TypeOK'
  BY <1>7 DEF RecvEmpty, MayPoll
<1>8. ASSUME RecvWant PROVE TypeOK'
  BY <1>8 DEF RecvWant, Wake
<1>9. ASSUME RecvEnd PROVE TypeOK'
  BY <1>9 DEF RecvEnd, MayPoll
<1>10. ASSUME CloseCancel PROVE TypeOK'
  BY <1>10 DEF CloseCancel, Wake
<1>11. ASSUME CloseInner PROVE TypeOK'
  BY <1>11 DEF CloseInner
<1>12. ASSUME CloseTryRecv PROVE TypeOK'
  BY <1>12 DEF CloseTryRecv, Tell
<1>13. ASSUME DropCancel PROVE TypeOK'
  BY <1>13 DEF DropCancel, Wake
<1>14. ASSUME DropInner PROVE TypeOK'
  BY <1>14 DEF DropInner, Queued
<1>15. ASSUME NEW r \in Req, Serialize(r) PROVE TypeOK'
  BY <1>15 DEF Serialize
<1>16. ASSUME NEW r \in Req, SendOk(r) PROVE TypeOK'
  BY <1>16 DEF SendOk, Tell
<1>17. ASSUME NEW r \in Req, SendErr(r) PROVE TypeOK'
  BY <1>17 DEF SendErr, Tell
<1>18. ASSUME NEW r \in Req, Abandon(r) PROVE TypeOK'
  BY <1>18 DEF Abandon
<1>19. CASE UNCHANGED vars
  BY <1>19 DEF vars
<1> QED
  BY <1>1, <1>2, <1>3, <1>4, <1>5, <1>6, <1>7, <1>8, <1>9, <1>10, <1>11, <1>12, <1>13, <1>14, <1>15, <1>16, <1>17, <1>18, <1>19
  DEF Next, HandleStep, ReceiverStep, CallbackStep

\* Every step keeps each callback in exactly one place.
LEMMA OneCallbackStep == IInv /\ [Next]_vars => OneCallback'
<1> SUFFICES ASSUME IInv, [Next]_vars PROVE OneCallback'
  OBVIOUS
<1> USE ChannelAssumption DEF IInv, TypeOK, WantStates, TxStates, RxStates, PromiseStates, txVars, OneCallback, Places, Queued
<1>1. ASSUME NEW h \in Handle, PollReady(h) PROVE OneCallback'
  BY <1>1 DEF PollReady
<1>2. ASSUME NEW h \in Handle, NEW r \in Req, TrySend(h, r) PROVE OneCallback'
  BY <1>2 DEF TrySend
<1>3. ASSUME NEW h \in Handle, TrySendPush(h) PROVE OneCallback'
  <2>1. CASE inner # "open"
    BY <1>3, <2>1 DEF TrySendPush, Send
  <2>2. CASE inner = "open"
    <3>0. PICK q \in Req : q = txreq[h]
      BY <1>3 DEF TrySendPush, Send
    <3>1. promise[q] \in {"unsent", "sending"}
      BY <1>3, <3>0 DEF TrySendPush, Send
    <3>2. queue' = Append(queue, q) /\ promise' = [promise EXCEPT ![q] = "pending"] /\ held' = held
      BY <1>3, <2>2, <3>0 DEF TrySendPush, Send
    <3>3. ~Queued(q) /\ q \notin held
      BY <3>1
    <3>4. \A r \in Req \ {q} : Queued(r) => Queued(r)'
      BY <3>1, <3>2, QueueFacts
    <3>5. Queued(q)'
      <4>1. Len(queue)' = Len(queue) + 1 /\ queue'[Len(queue) + 1] = q
        BY <3>1, <3>2, QueueFacts
      <4>2. Len(queue) \in Nat /\ Len(queue) + 1 \in 1..Len(queue)'
        BY <4>1
      <4> QED
        BY <4>1, <4>2
    <3>6. \A r \in Req : Queued(r)' => Queued(r) \/ r = q
      BY <3>1, <3>2, QueueFacts
    <3>7. \A i, j \in 1..Len(queue)' : queue'[i] = queue'[j] => i = j
      BY <3>1, <3>2, <3>3, QueueFacts
    <3>8. \A r \in Req : promise'[r] = "pending" => (Queued(r)' \/ r \in held')
      BY <3>1, <3>2, <3>4, <3>5
    <3>9. \A r \in held' : ~Queued(r)'
      BY <3>1, <3>2, <3>3, <3>6
    <3> QED
      BY <3>7, <3>8, <3>9
  <2> QED
    BY <2>1, <2>2
<1>4. ASSUME NEW h \in Handle, NEW r \in Req, TrySendUnbounded(h, r) PROVE OneCallback'
  <2>1. CASE inner # "open"
    BY <1>4, <2>1 DEF TrySendUnbounded, Send
  <2>2. CASE inner = "open"
    <3>0. PICK q \in Req : q = r
      BY <1>4 DEF TrySendUnbounded, Send
    <3>1. promise[q] \in {"unsent", "sending"}
      BY <1>4, <3>0 DEF TrySendUnbounded, Send
    <3>2. queue' = Append(queue, q) /\ promise' = [promise EXCEPT ![q] = "pending"] /\ held' = held
      BY <1>4, <2>2, <3>0 DEF TrySendUnbounded, Send
    <3>3. ~Queued(q) /\ q \notin held
      BY <3>1
    <3>4. \A s \in Req \ {q} : Queued(s) => Queued(s)'
      BY <3>1, <3>2, QueueFacts
    <3>5. Queued(q)'
      <4>1. Len(queue)' = Len(queue) + 1 /\ queue'[Len(queue) + 1] = q
        BY <3>1, <3>2, QueueFacts
      <4>2. Len(queue) \in Nat /\ Len(queue) + 1 \in 1..Len(queue)'
        BY <4>1
      <4> QED
        BY <4>1, <4>2
    <3>6. \A s \in Req : Queued(s)' => Queued(s) \/ s = q
      BY <3>1, <3>2, QueueFacts
    <3>7. \A i, j \in 1..Len(queue)' : queue'[i] = queue'[j] => i = j
      BY <3>1, <3>2, <3>3, QueueFacts
    <3>8. \A s \in Req : promise'[s] = "pending" => (Queued(s)' \/ s \in held')
      BY <3>1, <3>2, <3>4, <3>5
    <3>9. \A s \in held' : ~Queued(s)'
      BY <3>1, <3>2, <3>3, <3>6
    <3> QED
      BY <3>7, <3>8, <3>9
  <2> QED
    BY <2>1, <2>2
<1>5. ASSUME NEW h \in Handle, DropHandle(h) PROVE OneCallback'
  BY <1>5 DEF DropHandle
<1>6. ASSUME RecvItem PROVE OneCallback'
  <2>1. CASE queue = <<>>
    BY <1>6, <2>1 DEF RecvItem, MayPoll
  <2>2. CASE queue # <<>>
    <3>1. queue' = Tail(queue)
      BY <1>6, <2>2 DEF RecvItem, MayPoll
    <3>2. \A r \in Req : Queued(r)' => Queued(r) /\ r # Head(queue)
      BY <2>2, <3>1, QueueFacts
    <3>3. \A r \in Req : Queued(r) => Queued(r)' \/ r = Head(queue)
      <4>1. SUFFICES ASSUME NEW r \in Req, NEW i \in 1..Len(queue), queue[i] = r
                     PROVE  Queued(r)' \/ r = Head(queue)
        OBVIOUS
      <4>2. CASE i = 1
        BY <2>2, <4>1, <4>2, QueueFacts
      <4>3. CASE i # 1
        <5>1. i - 1 \in 1..Len(Tail(queue)) /\ Tail(queue)[i - 1] = queue[i]
          BY <2>2, <4>3, QueueFacts
        <5> QED
          BY <3>1, <4>1, <5>1
      <4> QED
        BY <4>2, <4>3
    <3>4. \A i, j \in 1..Len(queue)' : queue'[i] = queue'[j] => i = j
      BY <2>2, <3>1, QueueFacts
    <3>5. Head(queue) \in Req /\ Queued(Head(queue)) /\ Head(queue) \notin held
      BY <2>2, QueueFacts
    <3>6. \A r \in held' : ~Queued(r)'
      BY <1>6, <2>2, <3>2, <3>5 DEF RecvItem, MayPoll
    <3>7. \A r \in Req : promise'[r] = "pending" => (Queued(r)' \/ r \in held')
      BY <1>6, <2>2, <3>3, <3>5 DEF RecvItem, MayPoll
    <3> QED
      BY <3>4, <3>6, <3>7
  <2> QED
    BY <2>1, <2>2
<1>7. ASSUME RecvEmpty PROVE OneCallback'
  BY <1>7 DEF RecvEmpty, MayPoll
<1>8. ASSUME RecvWant PROVE OneCallback'
  BY <1>8 DEF RecvWant, Wake
<1>9. ASSUME RecvEnd PROVE OneCallback'
  BY <1>9 DEF RecvEnd, MayPoll
<1>10. ASSUME CloseCancel PROVE OneCallback'
  BY <1>10 DEF CloseCancel, Wake
<1>11. ASSUME CloseInner PROVE OneCallback'
  BY <1>11 DEF CloseInner
<1>12. ASSUME CloseTryRecv PROVE OneCallback'
  <2>1. CASE queue = <<>>
    BY <1>12, <2>1 DEF CloseTryRecv, Tell
  <2>2. CASE queue # <<>>
    <3>1. queue' = Tail(queue)
      BY <1>12, <2>2 DEF CloseTryRecv, Tell
    <3>2. \A r \in Req : Queued(r)' => Queued(r) /\ r # Head(queue)
      BY <2>2, <3>1, QueueFacts
    <3>3. \A r \in Req : Queued(r) => Queued(r)' \/ r = Head(queue)
      <4>1. SUFFICES ASSUME NEW r \in Req, NEW i \in 1..Len(queue), queue[i] = r
                     PROVE  Queued(r)' \/ r = Head(queue)
        OBVIOUS
      <4>2. CASE i = 1
        BY <2>2, <4>1, <4>2, QueueFacts
      <4>3. CASE i # 1
        <5>1. i - 1 \in 1..Len(Tail(queue)) /\ Tail(queue)[i - 1] = queue[i]
          BY <2>2, <4>3, QueueFacts
        <5> QED
          BY <3>1, <4>1, <5>1
      <4> QED
        BY <4>2, <4>3
    <3>4. \A i, j \in 1..Len(queue)' : queue'[i] = queue'[j] => i = j
      BY <2>2, <3>1, QueueFacts
    <3>5. Head(queue) \in Req /\ Queued(Head(queue)) /\ Head(queue) \notin held
      BY <2>2, QueueFacts
    <3>6. \A r \in held' : ~Queued(r)'
      BY <1>12, <2>2, <3>2, <3>5 DEF CloseTryRecv, Tell
    <3>7. \A r \in Req : promise'[r] = "pending" => (Queued(r)' \/ r \in held')
      BY <1>12, <2>2, <3>3, <3>5 DEF CloseTryRecv, Tell
    <3> QED
      BY <3>4, <3>6, <3>7
  <2> QED
    BY <2>1, <2>2
<1>13. ASSUME DropCancel PROVE OneCallback'
  BY <1>13 DEF DropCancel, Wake
<1>14. ASSUME DropInner PROVE OneCallback'
  BY <1>14 DEF DropInner, Queued
<1>15. ASSUME NEW r \in Req, Serialize(r) PROVE OneCallback'
  BY <1>15 DEF Serialize
<1>16. ASSUME NEW r \in Req, SendOk(r) PROVE OneCallback'
  BY <1>16 DEF SendOk, Tell
<1>17. ASSUME NEW r \in Req, SendErr(r) PROVE OneCallback'
  BY <1>17 DEF SendErr, Tell
<1>18. ASSUME NEW r \in Req, Abandon(r) PROVE OneCallback'
  BY <1>18 DEF Abandon
<1>19. CASE UNCHANGED vars
  BY <1>19 DEF vars
<1> QED
  BY <1>1, <1>2, <1>3, <1>4, <1>5, <1>6, <1>7, <1>8, <1>9, <1>10, <1>11, <1>12, <1>13, <1>14, <1>15, <1>16, <1>17, <1>18, <1>19
  DEF Next, HandleStep, ReceiverStep, CallbackStep

\* Every step keeps a request's place and its promise in agreement.
LEMMA PlacesStep == IInv /\ [Next]_vars => Places'
<1> SUFFICES ASSUME IInv, [Next]_vars PROVE Places'
  OBVIOUS
<1> USE ChannelAssumption DEF IInv, TypeOK, WantStates, TxStates, RxStates, PromiseStates, txVars, OneCallback, Places, Queued
<1>1. ASSUME NEW h \in Handle, PollReady(h) PROVE Places'
  BY <1>1 DEF PollReady
<1>2. ASSUME NEW h \in Handle, NEW r \in Req, TrySend(h, r) PROVE Places'
  BY <1>2 DEF TrySend
<1>3. ASSUME NEW h \in Handle, TrySendPush(h) PROVE Places'
  BY <1>3 DEF TrySendPush, Send
<1>4. ASSUME NEW h \in Handle, NEW r \in Req, TrySendUnbounded(h, r) PROVE Places'
  <2>1. CASE inner # "open"
    BY <1>4, <2>1 DEF TrySendUnbounded, Send
  <2>2. CASE inner = "open"
    <3>1. queue' = Append(queue, r) /\ promise' = [promise EXCEPT ![r] = "pending"]
      BY <1>4, <2>2 DEF TrySendUnbounded, Send
    <3>2. r \notin written /\ \A g \in Handle : txpc[g] # "push"
      BY <1>4 DEF TrySendUnbounded, Send
    <3>3. \A i \in 1..Len(queue)' : promise'[queue'[i]] \in {"pending", "abandoned"}
                                    /\ queue'[i] \notin written
      BY <3>1, <3>2, QueueFacts
    <3> QED
      BY <1>4, <3>1, <3>2, <3>3 DEF TrySendUnbounded, Send
  <2> QED
    BY <2>1, <2>2
<1>5. ASSUME NEW h \in Handle, DropHandle(h) PROVE Places'
  BY <1>5 DEF DropHandle
<1>6. ASSUME RecvItem PROVE Places'
  BY <1>6 DEF RecvItem, MayPoll
<1>7. ASSUME RecvEmpty PROVE Places'
  BY <1>7 DEF RecvEmpty, MayPoll
<1>8. ASSUME RecvWant PROVE Places'
  BY <1>8 DEF RecvWant, Wake
<1>9. ASSUME RecvEnd PROVE Places'
  BY <1>9 DEF RecvEnd, MayPoll
<1>10. ASSUME CloseCancel PROVE Places'
  BY <1>10 DEF CloseCancel, Wake
<1>11. ASSUME CloseInner PROVE Places'
  BY <1>11 DEF CloseInner
<1>12. ASSUME CloseTryRecv PROVE Places'
  BY <1>12, SMTT(60) DEF CloseTryRecv, Tell
<1>13. ASSUME DropCancel PROVE Places'
  BY <1>13 DEF DropCancel, Wake
<1>14. ASSUME DropInner PROVE Places'
  BY <1>14 DEF DropInner, Queued
<1>15. ASSUME NEW r \in Req, Serialize(r) PROVE Places'
  BY <1>15 DEF Serialize
<1>16. ASSUME NEW r \in Req, SendOk(r) PROVE Places'
  BY <1>16 DEF SendOk, Tell
<1>17. ASSUME NEW r \in Req, SendErr(r) PROVE Places'
  BY <1>17 DEF SendErr, Tell
<1>18. ASSUME NEW r \in Req, Abandon(r) PROVE Places'
  BY <1>18 DEF Abandon
<1>19. CASE UNCHANGED vars
  BY <1>19 DEF vars
<1> QED
  BY <1>1, <1>2, <1>3, <1>4, <1>5, <1>6, <1>7, <1>8, <1>9, <1>10, <1>11, <1>12, <1>13, <1>14, <1>15, <1>16, <1>17, <1>18, <1>19
  DEF Next, HandleStep, ReceiverStep, CallbackStep

\* Every step keeps the order in which a connection closes.
LEMMA ClosingStep == IInv /\ [Next]_vars => Closing'
<1> SUFFICES ASSUME IInv, [Next]_vars PROVE Closing'
  OBVIOUS
<1> USE ChannelAssumption DEF IInv, TypeOK, WantStates, TxStates, RxStates, PromiseStates, txVars, Closing
<1>1. ASSUME NEW h \in Handle, PollReady(h) PROVE Closing'
  BY <1>1 DEF PollReady
<1>2. ASSUME NEW h \in Handle, NEW r \in Req, TrySend(h, r) PROVE Closing'
  BY <1>2 DEF TrySend
<1>3. ASSUME NEW h \in Handle, TrySendPush(h) PROVE Closing'
  BY <1>3 DEF TrySendPush, Send
<1>4. ASSUME NEW h \in Handle, NEW r \in Req, TrySendUnbounded(h, r) PROVE Closing'
  BY <1>4 DEF TrySendUnbounded, Send
<1>5. ASSUME NEW h \in Handle, DropHandle(h) PROVE Closing'
  BY <1>5 DEF DropHandle
<1>6. ASSUME RecvItem PROVE Closing'
  BY <1>6 DEF RecvItem, MayPoll
<1>7. ASSUME RecvEmpty PROVE Closing'
  BY <1>7 DEF RecvEmpty, MayPoll
<1>8. ASSUME RecvWant PROVE Closing'
  BY <1>8 DEF RecvWant, Wake
<1>9. ASSUME RecvEnd PROVE Closing'
  BY <1>9 DEF RecvEnd, MayPoll
<1>10. ASSUME CloseCancel PROVE Closing'
  BY <1>10 DEF CloseCancel, Wake
<1>11. ASSUME CloseInner PROVE Closing'
  BY <1>11 DEF CloseInner
<1>12. ASSUME CloseTryRecv PROVE Closing'
  BY <1>12 DEF CloseTryRecv, Tell
<1>13. ASSUME DropCancel PROVE Closing'
  BY <1>13 DEF DropCancel, Wake
<1>14. ASSUME DropInner PROVE Closing'
  BY <1>14 DEF DropInner, Queued
<1>15. ASSUME NEW r \in Req, Serialize(r) PROVE Closing'
  BY <1>15 DEF Serialize
<1>16. ASSUME NEW r \in Req, SendOk(r) PROVE Closing'
  BY <1>16 DEF SendOk, Tell
<1>17. ASSUME NEW r \in Req, SendErr(r) PROVE Closing'
  BY <1>17 DEF SendErr, Tell
<1>18. ASSUME NEW r \in Req, Abandon(r) PROVE Closing'
  BY <1>18 DEF Abandon
<1>19. CASE UNCHANGED vars
  BY <1>19 DEF vars
<1> QED
  BY <1>1, <1>2, <1>3, <1>4, <1>5, <1>6, <1>7, <1>8, <1>9, <1>10, <1>11, <1>12, <1>13, <1>14, <1>15, <1>16, <1>17, <1>18, <1>19
  DEF Next, HandleStep, ReceiverStep, CallbackStep

\* Every step keeps the count of credits.
LEMMA CreditsStep == IInv /\ [Next]_vars => Credits'
<1> SUFFICES ASSUME IInv, [Next]_vars, Bounded PROVE Credits'
  BY DEF Credits
<1> USE ChannelAssumption DEF IInv
<1>0. /\ TypeOK' /\ Len(queue) \in Nat /\ (~bufferedOnce => queue = <<>> /\ ~Pushing)
      /\ WantCredit' \in 0..1 /\ PollCredit' \in 0..1
      /\ PushCredit' \in 0..1 /\ FreeCredit' \in 0..1
  BY TypeStep DEF TypeOK, Credits, WantCredit, PollCredit, PushCredit, FreeCredit
<1>1. CASE UNCHANGED <<txpc, queue, want, rx, bufferedOnce>>
  BY <1>1 DEF Credits, WantCredit, PollCredit, PushCredit, FreeCredit, Pushing
<1>2. ASSUME NEW h \in Handle, PollReady(h) PROVE Credits'
  <2>1. WantCredit' <= WantCredit /\ PollCredit' = PollCredit /\ FreeCredit' = FreeCredit
    BY <1>2 DEF PollReady, WantCredit, PollCredit, FreeCredit
  <2>2. ~Pushing' /\ PushCredit' <= PushCredit
    BY <1>2 DEF PollReady, Pushing, PushCredit, TypeOK
  <2>3. queue' = queue /\ bufferedOnce' = bufferedOnce
    BY <1>2 DEF PollReady
  <2> QED
    BY <1>0, <2>1, <2>2, <2>3, CreditRange, CreditSum
<1>3. ASSUME NEW h \in Handle, NEW r \in Req, TrySend(h, r) PROVE Credits'
  <2>1. ~Pushing /\ PushCredit = 0 /\ queue' = queue /\ PollCredit' = PollCredit
    BY <1>3 DEF TrySend, Pushing, PushCredit, PollCredit
  <2>2. CASE want = "Want" \/ ~bufferedOnce
    <3>1. bufferedOnce' /\ FreeCredit' = 0 /\ WantCredit' = 0
      BY <1>3, <2>2 DEF TrySend, FreeCredit, WantCredit
    <3>2. PushCredit' = 1
      BY <1>3, <2>2 DEF TrySend, PushCredit, Pushing, TypeOK
    <3>3. WantCredit = 1 \/ FreeCredit = 1
      BY <2>2 DEF WantCredit, FreeCredit
    <3> QED
      BY <1>0, <2>1, <3>1, <3>2, <3>3, CreditRange, CreditSum
  <2>3. CASE want # "Want" /\ bufferedOnce
    <3>1. bufferedOnce' = bufferedOnce /\ FreeCredit' = FreeCredit /\ WantCredit' = WantCredit
      BY <1>3, <2>3 DEF TrySend, FreeCredit, WantCredit
    <3>2. ~Pushing' /\ PushCredit' = 0
      BY <1>3, <2>3 DEF TrySend, PushCredit, Pushing, TypeOK
    <3> QED
      BY <1>0, <2>1, <3>1, <3>2, CreditRange, CreditSum
  <2> QED
    BY <2>2, <2>3
<1>4. ASSUME NEW h \in Handle, TrySendPush(h) PROVE Credits'
  <2>1. PushCredit = 1 /\ bufferedOnce
    BY <1>0, <1>4 DEF TrySendPush, Pushing, PushCredit
  <2>2. ~Pushing' /\ PushCredit' = 0
    BY <1>4 DEF TrySendPush, Pushing, PushCredit, TypeOK
  <2>3. txreq[h] \in Req
    BY <1>4 DEF TrySendPush, TypeOK
  <2>4. Len(queue') <= Len(queue) + 1 /\ Len(queue') \in Nat
    BY <1>0, <1>4, <2>3, QueueFacts DEF TrySendPush, Send, TypeOK
  <2>5. WantCredit' = WantCredit /\ PollCredit' = PollCredit /\ FreeCredit' = FreeCredit
        /\ bufferedOnce' = bufferedOnce
    BY <1>4 DEF TrySendPush, WantCredit, PollCredit, FreeCredit
  <2> QED
    BY <1>0, <2>1, <2>2, <2>4, <2>5, CreditRange, CreditSum
<1>5. ASSUME NEW h \in Handle, DropHandle(h) PROVE Credits'
  <2>1. ~Pushing' /\ PushCredit' <= PushCredit
    BY <1>5 DEF DropHandle, Pushing, PushCredit, TypeOK
  <2>2. WantCredit' = WantCredit /\ PollCredit' = PollCredit /\ FreeCredit' = FreeCredit
        /\ bufferedOnce' = bufferedOnce /\ queue' = queue
    BY <1>5 DEF DropHandle, WantCredit, PollCredit, FreeCredit
  <2> QED
    BY <1>0, <2>1, <2>2, CreditRange, CreditSum
<1>6. CASE RecvEmpty
  <2>1. Len(queue)' = 0 /\ bufferedOnce' = bufferedOnce /\ (Pushing' <=> Pushing) /\ queue' = queue
    BY <1>6 DEF RecvEmpty, Pushing, txVars
  <2>2. PushCredit' = 0 \/ FreeCredit' = 0
    BY <1>0, <2>1 DEF PushCredit, FreeCredit
  <2>3. Len(queue)' + WantCredit' + PollCredit' + PushCredit' + FreeCredit' <= 3
    <3>1. Len(queue)' = 0
      BY <2>1
    <3>2. /\ WantCredit' \in 0..1 /\ PollCredit' \in 0..1
          /\ PushCredit' \in 0..1 /\ FreeCredit' \in 0..1
      BY <1>0
    <3>3. \A n \in Nat, a, b, c, d \in 0..1 : n = 0 /\ (c = 0 \/ d = 0) => n + a + b + c + d <= 3
      OBVIOUS
    <3>4. Len(queue)' \in Nat
      BY <3>1
    <3> QED
      BY <2>2, <3>1, <3>2, <3>3, <3>4, Zenon
  <2>4. ~bufferedOnce' => queue' = <<>> /\ ~Pushing'
    BY <1>0, <2>1
  <2> QED
    BY <2>3, <2>4 DEF Credits
<1>7. CASE RecvItem \/ CloseTryRecv \/ DropInner
  <2>1. WantCredit' = WantCredit /\ PushCredit' = PushCredit /\ FreeCredit' = FreeCredit
        /\ bufferedOnce' = bufferedOnce /\ (Pushing' <=> Pushing)
    BY <1>7 DEF RecvItem, CloseTryRecv, DropInner, txVars, WantCredit, PushCredit, FreeCredit, Pushing
  <2>2. PollCredit' = 0
    BY <1>7 DEF RecvItem, MayPoll, CloseTryRecv, DropInner, PollCredit
  <2>3. Len(queue') <= Len(queue) /\ Len(queue') \in Nat /\ (queue = <<>> => queue' = <<>>)
    BY <1>0, <1>7, QueueFacts DEF RecvItem, CloseTryRecv, DropInner, TypeOK
  <2> QED
    BY <1>0, <2>1, <2>2, <2>3, CreditRange, CreditSum
<1>8. CASE RecvWant
  <2>1. PollCredit = 1 /\ PollCredit' = 0 /\ WantCredit' = 1
    BY <1>8 DEF RecvWant, PollCredit, WantCredit
  <2>2. (Pushing' <=> Pushing) /\ PushCredit' = PushCredit
    BY <1>8 DEF RecvWant, Wake, Pushing, PushCredit, TypeOK
  <2>3. FreeCredit' = FreeCredit /\ bufferedOnce' = bufferedOnce /\ queue' = queue
    BY <1>8 DEF RecvWant, FreeCredit
  <2> QED
    BY <1>0, <2>1, <2>2, <2>3, CreditRange, CreditSum
<1>9. CASE CloseCancel \/ DropCancel
  <2>1. PollCredit' = 0 /\ WantCredit' = 0
    BY <1>9 DEF CloseCancel, DropCancel, PollCredit, WantCredit
  <2>2. (Pushing' <=> Pushing) /\ PushCredit' = PushCredit
    BY <1>9 DEF CloseCancel, DropCancel, Wake, Pushing, PushCredit, TypeOK
  <2>3. FreeCredit' = FreeCredit /\ bufferedOnce' = bufferedOnce /\ queue' = queue
    BY <1>9 DEF CloseCancel, DropCancel, FreeCredit
  <2> QED
    BY <1>0, <2>1, <2>2, <2>3, CreditRange, CreditSum
<1>10. CASE RecvEnd \/ CloseInner
  <2>1. PollCredit' = 0 /\ UNCHANGED <<txpc, queue, want, bufferedOnce>>
    BY <1>10 DEF RecvEnd, CloseInner, PollCredit, txVars
  <2>2. WantCredit' = WantCredit /\ PushCredit' = PushCredit /\ FreeCredit' = FreeCredit
        /\ (Pushing' <=> Pushing)
    BY <2>1 DEF WantCredit, PushCredit, FreeCredit, Pushing
  <2> QED
    BY <1>0, <2>1, <2>2, CreditRange, CreditSum
<1>11. ASSUME NEW r \in Req, CallbackStep(r) \/ Abandon(r) PROVE Credits'
  <2>1. UNCHANGED <<txpc, queue, want, rx, bufferedOnce>>
    BY <1>11 DEF CallbackStep, Serialize, SendOk, SendErr, Abandon, txVars
  <2> QED
    BY <1>1, <2>1
<1>12. CASE UNCHANGED vars
  BY <1>1, <1>12 DEF vars
<1>13. ASSUME NEW h \in Handle, NEW r \in Req, TrySendUnbounded(h, r) PROVE Credits'
  BY <1>13 DEF TrySendUnbounded
<1> QED
  BY <1>2, <1>3, <1>4, <1>5, <1>6, <1>7, <1>8, <1>9, <1>10, <1>11, <1>12, <1>13
  DEF Next, HandleStep, ReceiverStep

\* Every step keeps ready handles ready and parked handles registered.
LEMMA WaitersStep == IInv /\ [Next]_vars => (ReadyIsKept /\ ParkedIsHeard)'
<1> SUFFICES ASSUME IInv, [Next]_vars PROVE (ReadyIsKept /\ ParkedIsHeard)'
  OBVIOUS
<1> USE ChannelAssumption DEF IInv, TypeOK, WantStates, TxStates, RxStates, PromiseStates, txVars, ReadyIsKept, ParkedIsHeard, Closing
<1>1. ASSUME NEW h \in Handle, PollReady(h) PROVE (ReadyIsKept /\ ParkedIsHeard)'
  BY <1>1 DEF PollReady
<1>2. ASSUME NEW h \in Handle, NEW r \in Req, TrySend(h, r) PROVE (ReadyIsKept /\ ParkedIsHeard)'
  BY <1>2 DEF TrySend
<1>3. ASSUME NEW h \in Handle, TrySendPush(h) PROVE (ReadyIsKept /\ ParkedIsHeard)'
  BY <1>3 DEF TrySendPush, Send
<1>4. ASSUME NEW h \in Handle, NEW r \in Req, TrySendUnbounded(h, r) PROVE (ReadyIsKept /\ ParkedIsHeard)'
  BY <1>4 DEF TrySendUnbounded, Send
<1>5. ASSUME NEW h \in Handle, DropHandle(h) PROVE (ReadyIsKept /\ ParkedIsHeard)'
  BY <1>5 DEF DropHandle
<1>6. ASSUME RecvItem PROVE (ReadyIsKept /\ ParkedIsHeard)'
  BY <1>6 DEF RecvItem, MayPoll
<1>7. ASSUME RecvEmpty PROVE (ReadyIsKept /\ ParkedIsHeard)'
  BY <1>7 DEF RecvEmpty, MayPoll
<1>8. ASSUME RecvWant PROVE (ReadyIsKept /\ ParkedIsHeard)'
  BY <1>8 DEF RecvWant, Wake
<1>9. ASSUME RecvEnd PROVE (ReadyIsKept /\ ParkedIsHeard)'
  BY <1>9 DEF RecvEnd, MayPoll
<1>10. ASSUME CloseCancel PROVE (ReadyIsKept /\ ParkedIsHeard)'
  BY <1>10 DEF CloseCancel, Wake
<1>11. ASSUME CloseInner PROVE (ReadyIsKept /\ ParkedIsHeard)'
  BY <1>11 DEF CloseInner
<1>12. ASSUME CloseTryRecv PROVE (ReadyIsKept /\ ParkedIsHeard)'
  BY <1>12 DEF CloseTryRecv, Tell
<1>13. ASSUME DropCancel PROVE (ReadyIsKept /\ ParkedIsHeard)'
  BY <1>13 DEF DropCancel, Wake
<1>14. ASSUME DropInner PROVE (ReadyIsKept /\ ParkedIsHeard)'
  BY <1>14 DEF DropInner, Queued
<1>15. ASSUME NEW r \in Req, Serialize(r) PROVE (ReadyIsKept /\ ParkedIsHeard)'
  BY <1>15 DEF Serialize
<1>16. ASSUME NEW r \in Req, SendOk(r) PROVE (ReadyIsKept /\ ParkedIsHeard)'
  BY <1>16 DEF SendOk, Tell
<1>17. ASSUME NEW r \in Req, SendErr(r) PROVE (ReadyIsKept /\ ParkedIsHeard)'
  BY <1>17 DEF SendErr, Tell
<1>18. ASSUME NEW r \in Req, Abandon(r) PROVE (ReadyIsKept /\ ParkedIsHeard)'
  BY <1>18 DEF Abandon
<1>19. CASE UNCHANGED vars
  BY <1>19 DEF vars
<1> QED
  BY <1>1, <1>2, <1>3, <1>4, <1>5, <1>6, <1>7, <1>8, <1>9, <1>10, <1>11, <1>12, <1>13, <1>14, <1>15, <1>16, <1>17, <1>18, <1>19
  DEF Next, HandleStep, ReceiverStep, CallbackStep

-----------------------------------------------------------------------------
(* The theorems.                                                           *)

\* The channel starts in the inductive invariant ...
LEMMA InitIInv ==
  ASSUME Init
  PROVE  IInv
<1> USE ChannelAssumption DEF Init
<1>1. TypeOK
  <2>1. txpc \in [Handle -> TxStates] /\ txreq \in [Handle -> Req \cup {None}]
    BY DEF TxStates
  <2>2. promise \in [Req -> PromiseStates] /\ queue \in Seq(Req)
    BY DEF PromiseStates
  <2>3. \A h \in Handle : txpc[h] = "push" <=> txreq[h] # None
    OBVIOUS
  <2>4. want \in WantStates /\ rx \in RxStates /\ bufferedOnce \in BOOLEAN
    BY DEF WantStates, RxStates
  <2> QED
    BY <2>1, <2>2, <2>3, <2>4 DEF TypeOK
<1>2. OneCallback /\ Places
  BY DEF OneCallback, Queued, Places
<1>3. Closing /\ ReadyIsKept /\ ParkedIsHeard
  BY DEF Closing, ReadyIsKept, ParkedIsHeard
<1>4. Len(queue) = 0 /\ ~Pushing /\ WantCredit = 0 /\ PollCredit = 0
  BY DEF Pushing, WantCredit, PollCredit
<1> QED
  BY <1>1, <1>2, <1>3, <1>4, CreditRange DEF IInv, Credits

\* ... and no step leaves it.
LEMMA StepIInv == IInv /\ [Next]_vars => IInv'
  BY TypeStep, OneCallbackStep, PlacesStep, ClosingStep, CreditsStep, WaitersStep DEF IInv

\* The inductive invariant holds of every behaviour of the channel.
THEOREM Invariance == Safety => []IInv
  BY InitIInv, StepIInv, PTL DEF Safety

\* dispatch.rs keeps its state well typed.
THEOREM TypeCorrect == Safety => []TypeOK
<1>1. IInv => TypeOK
  BY DEF IInv
<1> QED
  BY <1>1, Invariance, PTL

\* dispatch.rs:55: the mpsc queue of a Sender never holds more than three
\* requests, whatever the interleaving of try_send and poll_recv.
THEOREM BoundedQueue == Safety => []QueueBounded
<1>1. IInv => QueueBounded
  <2>1. TypeOK => Len(queue) \in Nat
    BY DEF TypeOK
  <2> QED
    BY <2>1, CreditRange DEF IInv, Credits, QueueBounded
<1> QED
  BY <1>1, Invariance, PTL

\* No callback is lost or doubled, so the panic in try_send_request is
\* unreachable.
THEOREM NoLostCallback == Safety => []OneCallback
<1>1. IInv => OneCallback
  BY DEF IInv
<1> QED
  BY <1>1, Invariance, PTL

\* TrySendError::message carries only requests that never reached the wire.
THEOREM SafeRetry == Safety => []ReturnedIsUnsent
<1>1. IInv => ReturnedIsUnsent
  BY DEF IInv, Places, ReturnedIsUnsent, Queued, TypeOK
<1> QED
  BY <1>1, Invariance, PTL

\* A handle whose push fails already reads the connection as closed.
THEOREM ClosureVisible == Safety => []CloseIsVisible
<1>1. IInv => CloseIsVisible
  BY DEF IInv, Closing, CloseIsVisible
<1> QED
  BY <1>1, Invariance, PTL

\* poll_ready neither breaks its word nor loses a wake-up.
THEOREM WaitersServed == Safety => [](ReadyIsKept /\ ParkedIsHeard)
<1>1. IInv => ReadyIsKept /\ ParkedIsHeard
  BY DEF IInv
<1> QED
  BY <1>1, Invariance, PTL

-----------------------------------------------------------------------------
(* The channel implements RequestPromise.                                  *)

\* What a caller has been told changes for one request at a time.
LEMMA BarUpdate ==
  ASSUME NEW r \in Req, NEW a \in PromiseStates \ {"sending"}, TypeOK,
         promise' = [promise EXCEPT ![r] = a]
  PROVE  outcomeBar' = [outcomeBar EXCEPT ![r] = a]
  BY DEF outcomeBar, TypeOK

\* Telling a caller that left changes nothing.
LEMMA TellCases ==
  ASSUME NEW r \in Req, NEW a, TypeOK, promise' = Tell(r, a)
  PROVE  \/ promise[r] = "pending" /\ promise' = [promise EXCEPT ![r] = a]
         \/ promise[r] # "pending" /\ promise' = promise
  BY DEF Tell, TypeOK

\* The caller's view of a request is the channel's, but for a call of
\* try_send that has not returned.
LEMMA BarValue ==
  ASSUME NEW r \in Req
  PROVE  /\ promise[r] # "sending" => outcomeBar[r] = promise[r]
         /\ promise[r] = "sending" => outcomeBar[r] = "unsent"
  BY DEF outcomeBar

\* Every step of the channel is a step of the promise or is not seen by the
\* caller.
LEMMA PromiseStep == IInv /\ [Next]_vars => [Promise!PNext]_(Promise!absVars)
<1> SUFFICES ASSUME IInv, [Next]_vars
             PROVE  Promise!PNext \/ UNCHANGED <<outcomeBar, written>>
  BY DEF Promise!absVars
<1> USE ChannelAssumption DEF IInv
<1> DEFINE Goal == Promise!PNext \/ UNCHANGED <<outcomeBar, written>>
<1>0. ASSUME UNCHANGED <<promise, written>> PROVE Goal
  BY <1>0 DEF outcomeBar
<1>1. ASSUME NEW h \in Handle, PollReady(h) \/ DropHandle(h) PROVE Goal
  BY <1>0, <1>1 DEF PollReady, DropHandle
<1>2. ASSUME NEW h \in Handle, NEW r \in Req, TrySend(h, r) PROVE Goal
  <2>1. promise[r] = "unsent" /\ written' = written
    BY <1>2 DEF TrySend
  <2>2. CASE promise' = [promise EXCEPT ![r] = "sending"]
    <3>1. outcomeBar' = outcomeBar
      BY <2>1, <2>2 DEF outcomeBar, TypeOK
    <3> QED
      BY <2>1, <3>1
  <2>3. CASE promise' = [promise EXCEPT ![r] = "returned"]
    <3>1. outcomeBar' = [outcomeBar EXCEPT ![r] = "returned"]
      BY <2>3, BarUpdate DEF PromiseStates
    <3>2. Promise!Refuse(r)
      BY <2>1, <3>1, BarValue DEF Promise!Refuse, Promise!Answer
    <3> QED
      BY <3>2 DEF Promise!PNext
  <2> QED
    BY <1>2, <2>2, <2>3 DEF TrySend
<1>3. ASSUME NEW r \in Req, promise[r] \in {"unsent", "sending"}, Send(r), written' = written PROVE Goal
  <2>1. outcomeBar[r] = "unsent"
    BY <1>3, BarValue
  <2>2. CASE promise' = [promise EXCEPT ![r] = "pending"]
    <3>1. outcomeBar' = [outcomeBar EXCEPT ![r] = "pending"]
      BY <2>2, BarUpdate DEF PromiseStates
    <3>2. Promise!Accept(r)
      BY <1>3, <2>1, <3>1 DEF Promise!Accept, Promise!Answer
    <3> QED
      BY <3>2 DEF Promise!PNext
  <2>3. CASE promise' = [promise EXCEPT ![r] = "returned"]
    <3>1. outcomeBar' = [outcomeBar EXCEPT ![r] = "returned"]
      BY <2>3, BarUpdate DEF PromiseStates
    <3>2. Promise!Refuse(r)
      BY <1>3, <2>1, <3>1 DEF Promise!Refuse, Promise!Answer
    <3> QED
      BY <3>2 DEF Promise!PNext
  <2> QED
    BY <1>3, <2>2, <2>3 DEF Send
<1>4. ASSUME NEW h \in Handle, TrySendPush(h) PROVE Goal
  <2>1. txreq[h] \in Req /\ promise[txreq[h]] = "sending"
    BY <1>4 DEF TrySendPush, TypeOK, Places
  <2> QED
    BY <1>3, <1>4, <2>1 DEF TrySendPush
<1>5. ASSUME NEW h \in Handle, NEW r \in Req, TrySendUnbounded(h, r) PROVE Goal
  BY <1>3, <1>5 DEF TrySendUnbounded
<1>6. CASE RecvItem \/ RecvEmpty \/ RecvWant \/ RecvEnd \/ CloseCancel \/ CloseInner \/ DropCancel
  BY <1>0, <1>6 DEF RecvItem, RecvEmpty, RecvWant, RecvEnd, CloseCancel, CloseInner, DropCancel
<1>7. CASE CloseTryRecv
  <2>1. CASE queue # <<>>
    <3>1. PICK r \in Req : r = Head(queue) /\ Queued(r) /\ r \notin written
      BY <2>1 DEF TypeOK, Places, Queued
    <3>2. promise' = Tell(r, "returned") /\ written' = written
      BY <1>7, <2>1, <3>1 DEF CloseTryRecv
    <3>3. CASE promise[r] = "pending"
      <4>1. outcomeBar' = [outcomeBar EXCEPT ![r] = "returned"]
        BY <3>2, <3>3, TellCases, BarUpdate DEF PromiseStates
      <4>2. Promise!GiveBack(r)
        BY <3>1, <3>2, <3>3, <4>1, BarValue DEF Promise!GiveBack, Promise!Answer
      <4> QED
        BY <4>2 DEF Promise!PNext, Promise!Settle
    <3>4. CASE promise[r] # "pending"
      BY <1>0, <3>2, <3>4, TellCases
    <3> QED
      BY <3>3, <3>4
  <2>2. CASE queue = <<>>
    BY <1>0, <1>7, <2>2 DEF CloseTryRecv
  <2> QED
    BY <2>1, <2>2
<1>8. CASE DropInner
  <2> DEFINE S == {r \in Req : Queued(r) /\ promise[r] = "pending"}
  <2>1. \A r \in S : outcomeBar[r] = "pending" /\ r \notin written
    BY BarValue DEF Places, Queued
  <2>2. written' = written /\ promise' = [r \in Req |-> IF r \in S THEN "returned" ELSE promise[r]]
    BY <1>8 DEF DropInner
  <2>3. outcomeBar' = [r \in Req |-> IF r \in S THEN "returned" ELSE outcomeBar[r]]
    BY <2>2 DEF outcomeBar
  <2>4. Promise!GiveBackAll(S)
    BY <2>1, <2>2, <2>3 DEF Promise!GiveBackAll
  <2>5. S \in SUBSET Req
    OBVIOUS
  <2> QED
    BY <2>4, <2>5 DEF Promise!PNext
<1>9. ASSUME NEW r \in Req, Serialize(r) PROVE Goal
  <2>1. outcomeBar[r] \in {"pending", "abandoned"}
    BY <1>9, BarValue DEF Serialize, Places
  <2>2. outcomeBar' = outcomeBar /\ written' = written \cup {r}
    BY <1>9 DEF Serialize, outcomeBar
  <2>3. Promise!Serialize(r)
    BY <2>1, <2>2 DEF Promise!Serialize
  <2> QED
    BY <2>3 DEF Promise!PNext
<1>10. ASSUME NEW r \in Req, SendOk(r) PROVE Goal
  <2>1. promise' = Tell(r, "ok") /\ written' = written /\ r \in written
    BY <1>10 DEF SendOk
  <2>2. CASE promise[r] = "pending"
    <3>1. outcomeBar' = [outcomeBar EXCEPT ![r] = "ok"]
      BY <2>1, <2>2, TellCases, BarUpdate DEF PromiseStates
    <3>2. Promise!Respond(r)
      BY <2>1, <2>2, <3>1, BarValue DEF Promise!Respond, Promise!Answer
    <3> QED
      BY <3>2 DEF Promise!PNext, Promise!Settle
  <2> QED
    BY <1>0, <2>1, <2>2, TellCases
<1>11. ASSUME NEW r \in Req, SendErr(r) PROVE Goal
  <2>1. promise' = Tell(r, "error") /\ written' = written
    BY <1>11 DEF SendErr
  <2>2. CASE promise[r] = "pending"
    <3>1. outcomeBar' = [outcomeBar EXCEPT ![r] = "error"]
      BY <2>1, <2>2, TellCases, BarUpdate DEF PromiseStates
    <3>2. Promise!Fail(r)
      BY <2>1, <2>2, <3>1, BarValue DEF Promise!Fail, Promise!Answer
    <3> QED
      BY <3>2 DEF Promise!PNext, Promise!Settle
  <2> QED
    BY <1>0, <2>1, <2>2, TellCases
<1>12. ASSUME NEW r \in Req, Abandon(r) PROVE Goal
  <2>1. promise[r] = "pending" /\ promise' = [promise EXCEPT ![r] = "abandoned"] /\ written' = written
    BY <1>12 DEF Abandon
  <2>2. outcomeBar' = [outcomeBar EXCEPT ![r] = "abandoned"]
    BY <2>1, BarUpdate DEF PromiseStates
  <2>3. Promise!Abandon(r)
    BY <2>1, <2>2, BarValue DEF Promise!Abandon, Promise!Answer
  <2> QED
    BY <2>3 DEF Promise!PNext, Promise!Settle
<1>13. CASE UNCHANGED vars
  BY <1>0, <1>13 DEF vars
<1> QED
  BY <1>1, <1>2, <1>4, <1>5, <1>6, <1>7, <1>8, <1>9, <1>10, <1>11, <1>12, <1>13
  DEF Next, HandleStep, ReceiverStep, CallbackStep

\* try_send_request over dispatch.rs: whatever the interleaving, a request is
\* answered at most once, only with what was promised, and given back only
\* while unserialized.
THEOREM ImplementsPromise == Safety => Promise!PSafety
<1>1. Init => Promise!PInit
  BY DEF Init, Promise!PInit, outcomeBar
<1>2. IInv /\ [Next]_vars => [Promise!PNext]_(Promise!absVars)
  BY PromiseStep
<1> QED
  BY <1>1, <1>2, Invariance, PTL DEF Safety, Promise!PSafety
=============================================================================
