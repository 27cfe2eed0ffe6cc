---- MODULE AppendBroker ----
(***************************************************************************)
(* The append broker (src/d9/control-plane/state-append-broker.mjs): the   *)
(* launcher hands its appends to a worker process under another user, over *)
(* a pipe, one at a time.  When no proper answer comes back the client     *)
(* kills the worker and reads in the store itself what became of the       *)
(* request.                                                                *)
(*                                                                         *)
(* A request carries the transaction, its events and the time its caller   *)
(* took; the worker opened the store as one process, so the operation lock *)
(* is held (lock.alive) exactly while the worker that made it lives.       *)
(***************************************************************************)
EXTENDS ControlLedger

VARIABLES
  broker,    \* the session: open for its client, the worker alive, the pair it is pinned to
  queue,     \* #pending: requests that wait for the one in flight
  flight,    \* None, or the request in flight, the inspection before it, its reply
  answers    \* what each finished call was told, for the callers to read

brokerVars == <<broker, queue, flight, answers>>
storeVars == <<log, head, pending, mutex, lock>>

Request(call, txn, events, t) == [call |-> call, txn |-> txn, events |-> events, at |-> t]

EndTxns == {"operation.no-effect", "operation.recovery-required"}

Answered(call) == \E a \in answers : a.call = call

Told(call, verdict) == \E a \in answers : a.call = call /\ a.says = verdict

Failed(call) == Answered(call) /\ ~Told(call, "persisted")

Tell(req, verdict) ==
  answers' = answers \cup {[call |-> req.call, txn |-> req.txn, events |-> req.events, at |-> req.at, says |-> verdict]}

\* inspect() of a store opened for the purpose.
Inspection ==
  [seq |-> head, reasons |-> Seen, op |-> IF lock # None /\ lock.whole THEN lock.op ELSE None]

----------------------------------------------------------------------------
(* The client.                                                             *)

\* #dispatch, up to its first turn: whoever calls fixes the time of the request.
Dispatches(call, txn, events) == queue' = Append(queue, Request(call, txn, events, clock))

\* Variant: the queue of a closed session is forgotten.
Send_forgets ==
  /\ queue # <<>> /\ flight = None
  /\ queue' = Tail(queue)
  /\ flight' = IF broker.open THEN [req |-> Head(queue), prior |-> Inspection, reply |-> None] ELSE None
  /\ UNCHANGED <<vars, broker, answers>>

\* The turn of the next request: the client looks at the store before it sends.
Send ==
  /\ queue # <<>> /\ flight = None
  /\ queue' = Tail(queue)
  /\ IF broker.open
     THEN /\ flight' = [req |-> Head(queue), prior |-> Inspection, reply |-> None]
          /\ UNCHANGED answers
     ELSE Tell(Head(queue), "closed") /\ UNCHANGED flight
  /\ UNCHANGED <<vars, broker>>

\* A response in time that names the request.
Receive ==
  /\ flight # None /\ flight.reply # None /\ broker.open
  /\ LET revoked == flight.reply = "persisted" /\ flight.req.txn = "generation-pair.revocation" IN
     broker' = [broker EXCEPT !.open = flight.reply # "terminal" /\ ~revoked]
  /\ Tell(flight.req, IF flight.reply = "persisted" THEN "persisted" ELSE "rejected")
  /\ flight' = None
  /\ UNCHANGED <<vars, queue>>

FactsOf(req) == { [at |-> req.at, says |-> req.events[j]] : j \in DOMAIN req.events }

\* Does the projection show exactly the requested effect?  The reads that serve
\* ordinary work refuse to answer while a recovery is due.
Shows(req) ==
  /\ FactsOf(req) \subseteq Now
  /\ req.txn # "operation.begin"
  /\ req.txn = "registry.bundle_seal" => Seen = {} /\ SealLive(Now, req.events[1].seal, req.at)
  /\ req.txn = "permit.issuance" => Seen = {} /\ PermitState(Now, req.events[1].permit) = "ready"
  /\ req.txn \in EndTxns =>
       /\ Inspection.op = None
       /\ (Seen # {}) <=> (req.txn = "operation.recovery-required")

\* Variant: only the head is compared with the one before the request.
Reconciled_headOnly(req, prior) ==
  IF head = prior.seq THEN "absent"
  ELSE IF head = prior.seq + 1 /\ Shows(req) THEN "persisted"
  ELSE "ambiguous"

\* reconcileAfterResponseLoss.
Reconciled(req, prior) ==
  IF Inspection = prior THEN (IF req.txn \in EndTxns THEN "ambiguous" ELSE "absent")
  ELSE IF head = prior.seq + 1 /\ Shows(req) THEN "persisted"
  ELSE "ambiguous"

\* No response, a late one or one that does not name the request: the worker is
\* killed, then the store is read; it may fail to open.
LoseResponse ==
  /\ flight # None
  /\ IF broker.alive
     THEN /\ broker' = [broker EXCEPT !.open = FALSE, !.alive = FALSE]
          /\ lock' = Orphaned(lock)
          /\ UNCHANGED <<flight, answers>>
     ELSE /\ broker' = [broker EXCEPT !.open = FALSE]
          /\ \/ Tell(flight.req, Reconciled(flight.req, flight.prior))
             \/ Tell(flight.req, "ambiguous")
          /\ flight' = None
          /\ UNCHANGED lock
  /\ UNCHANGED <<clock, log, head, pending, mutex, queue>>

----------------------------------------------------------------------------
(* The worker.                                                             *)

\* What the calls of the store test before they append, and the operation lock
\* while, after and in spite of the append.
Callable(req) ==
  LET last == req.events[Len(req.events)] IN
  CASE req.txn = "operation.begin" -> lock = None
    [] req.txn \in EndTxns         -> lock # None /\ lock.alive /\ lock.op = last.op
    [] OTHER                       -> TRUE

HeldLock(req) ==
  LET last == req.events[Len(req.events)] IN
  IF req.txn = "operation.begin" THEN Lease(last.op, last.nonce, req.at) ELSE lock

LockAfter(req) == IF req.txn \in EndTxns THEN None ELSE HeldLock(req)

LockIfCaught(req) == IF req.txn = "operation.no-effect" THEN None ELSE HeldLock(req)

Replies(reply) == flight' = [flight EXCEPT !.reply = reply]

\* The pair of the session must be the one in force at the request's time.
Pinned(req) == Selects(Now, req.at, broker.gen)

Appends(req) ==
  /\ Publishable(req.at, req.txn, req.events) /\ Callable(req)
  /\ \/ Published(req.at, req.txn, req.events, LockAfter(req)) /\ Replies("persisted") /\ UNCHANGED broker
     \/ /\ CutShort(req.at, req.txn, req.events, HeldLock(req), LockIfCaught(req), FALSE)
        /\ Replies("rejected") /\ UNCHANGED broker
     \/ /\ CutShort(req.at, req.txn, req.events, HeldLock(req), LockIfCaught(req), TRUE)
        /\ broker' = [broker EXCEPT !.alive = FALSE] /\ UNCHANGED flight

Refuses(req) ==
  /\ ~(Publishable(req.at, req.txn, req.events) /\ Callable(req))
  /\ Replies("rejected") /\ UNCHANGED <<storeVars, broker>>

\* A refusal of the pair itself ends the worker.
Serve ==
  /\ flight # None /\ flight.reply = None /\ broker.alive
  /\ LET req == flight.req IN
     IF Reasons # {} THEN Replies("rejected") /\ UNCHANGED <<storeVars, broker>>
     ELSE IF ~Pinned(req)
     THEN /\ Replies("terminal")
          /\ broker' = [broker EXCEPT !.alive = FALSE]
          /\ lock' = Orphaned(lock) /\ UNCHANGED <<log, head, pending, mutex>>
     ELSE Appends(req) \/ Refuses(req)
  /\ UNCHANGED <<clock, queue, answers>>

\* The worker dies, or leaves when its client has closed the pipe.
WorkerDies ==
  /\ broker.alive
  /\ broker' = [broker EXCEPT !.alive = FALSE]
  /\ lock' = Orphaned(lock)
  /\ UNCHANGED <<clock, log, head, pending, mutex, queue, flight, answers>>

BrokerInit == broker = [open |-> TRUE, alive |-> TRUE, gen |-> 1] /\ queue = <<>> /\ flight = None /\ answers = {}

BrokerStep == Send \/ Receive \/ LoseResponse \/ Serve \/ WorkerDies
====
