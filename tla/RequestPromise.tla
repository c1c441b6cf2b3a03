--------------------------- MODULE RequestPromise ---------------------------
(***************************************************************************)
(* What `try_send_request` promises its caller, whatever connection is     *)
(* behind it (conn/http1.rs and conn/http2.rs, dispatch.rs TrySendError):  *)
(* a request is answered once and for all with a response, with an error,  *)
(* or with an error that carries the message back; the message comes back  *)
(* only while no byte of it has been serialized, so that a retry is safe;  *)
(* and an accepted request does not stay unanswered.                       *)
(***************************************************************************)
CONSTANT Req           \* the requests a client may send

VARIABLES
  outcome,             \* [Req -> Outcomes]: what the caller has been told
  written              \* requests of which some byte was serialized

absVars == <<outcome, written>>

Answers == {"ok", "error", "returned", "abandoned"}

PInit ==
  /\ outcome = [r \in Req |-> "unsent"]
  /\ written = {}

Answer(r, a) ==
  /\ outcome' = [outcome EXCEPT ![r] = a]
  /\ UNCHANGED written

Accept(r)   == outcome[r] = "unsent" /\ Answer(r, "pending")
Refuse(r)   == outcome[r] = "unsent" /\ Answer(r, "returned")
Respond(r)  == outcome[r] = "pending" /\ r \in written /\ Answer(r, "ok")
Fail(r)     == outcome[r] = "pending" /\ Answer(r, "error")
GiveBack(r) == outcome[r] = "pending" /\ r \notin written /\ Answer(r, "returned")
\* The caller drops the future it was given.
Abandon(r)  == outcome[r] = "pending" /\ Answer(r, "abandoned")

Serialize(r) ==
  /\ outcome[r] \in {"pending", "abandoned"}
  /\ written' = written \cup {r}
  /\ UNCHANGED outcome

\* A connection that goes away gives back everything it never started on.
GiveBackAll(S) ==
  /\ \A r \in S : outcome[r] = "pending" /\ r \notin written
  /\ outcome' = [r \in Req |-> IF r \in S THEN "returned" ELSE outcome[r]]
  /\ UNCHANGED written

Settle(r) == Respond(r) \/ Fail(r) \/ GiveBack(r) \/ Abandon(r)

PNext ==
  \/ \E r \in Req : Accept(r) \/ Refuse(r) \/ Settle(r) \/ Serialize(r)
  \/ \E S \in SUBSET Req : GiveBackAll(S)

PSafety == PInit /\ [][PNext]_absVars

PSpec ==
  /\ PSafety
  /\ \A r \in Req : WF_absVars(Settle(r) \/ \E S \in SUBSET Req : r \in S /\ GiveBackAll(S))
=============================================================================
