------------------------------- MODULE Custody -------------------------------
(***************************************************************************)
(* Primary custody of one document per operation: the adapter              *)
(* (d9/custody/adapter.mjs) runs the stream open_staged, prepare,          *)
(* verify_prepared, publish_no_replace; each request and response is       *)
(* persisted by the journal broker (journal.mjs), which also persists the  *)
(* primary receipt and the operation's two journal events.  The adapter,   *)
(* the broker and the CAS live in one process that may die at any write    *)
(* and be restarted over the two roots.                                    *)
(*                                                                         *)
(* The process is single threaded: an action is what runs between two      *)
(* awaits, and several handle calls interleave at them.  Records are       *)
(* written in a fixed order, so a broker exchange is the number of its     *)
(* records written so far: request, then subject (or effect), then         *)
(* response.  DurableStore and RestrictedCas show what one append and one  *)
(* publication may leave; here they are one step with those outcomes.      *)
(***************************************************************************)
EXTENDS Naturals, FiniteSets

CONSTANTS
    Ops,            \* operations (identity and nonce)
    Artifacts,
    ArtifactOf(_),  \* the artifact of an operation's custody intent
    Calls,          \* handle calls that may be in progress at once
    None,
    MaxRestarts,    \* bound: restarts of the process
    MaxFaults,      \* bound: appends and CAS calls that fail
    MaxExpired      \* bound: expired seals, handoffs and capabilities still in use

ASSUME CustodyAssumption ==
    /\ \A o \in Ops : ArtifactOf(o) \in Artifacts
    /\ None \notin Calls \cup Ops
    /\ {MaxRestarts, MaxFaults, MaxExpired} \subseteq Nat

\* Adapter requests 1 to 4, in stream order.
Open == 1
Prepare == 2
Verify == 3
Publish == 4
Stages == Open .. Publish
Kinds == {"request", "response"}
Events == {"operation_started", "custody_object_durable"}
\* The admitted records an operation rests on, each active for a time.
Grounds == {"seal", "handoff"}
\* Requests of one identity, numbered as the broker meets them: 1 is the
\* first, 2 any other; 0 stands for none.
Versions == {1, 2}
Exchange == [version: 0 .. 2, level: 0 .. 3]
NoExchange == [version |-> 0, level |-> 0]
CallState == [op: Ops \cup {None}, stage: Stages,
              at: {"idle", "request", "receipt", "response", "finish"}]
Idle == [op |-> None, stage |-> Open, at |-> "idle"]

VARIABLES
    \* On disk.
    support,     \* support[o][i][k]: records of the supporting exchange of a message
    late,        \* late[o]: requests acknowledged after what they rest on had expired
    event,       \* event[o][e]: the append exchange of a journal event
    receipt,     \* receipt[o]: the exchange of the primary receipt
    object,      \* object[a]: none, linked (a temporary still names it), settled
    temporary,   \* temporary[o]: o's private temporary exists
    stuck,       \* an append left its pending name in the broker's store
    lapsed,      \* lapsed[o]: the bundle seal, the collector handoff of o have expired
    \* In memory.
    up,          \* the process runs
    store,       \* store: the broker and its store accept work
    cas,         \* the CAS accepts work
    inFlight,    \* primaryPublicationInFlight or custodyMutationInFlight
    stream,      \* stream[o]: completed stages
    source,      \* source[o]: the call whose source capability was delivered
    call,        \* call[c]: a handle call and the await it is at
    expired,     \* expired, not yet consumed: <<o, c>> sources, <<o>> preparations
    \* History and bounds.
    done,        \* done[o]: stages 2 to 4 whose effect this process has begun
    performed,   \* performed[o][i]: how often the effect of stage i has been begun
    restarts,
    faults

durable == <<support, late, event, receipt, object, temporary, stuck, lapsed>>
memory == <<up, store, cas, inFlight, stream, source, call, expired, done>>
vars == <<durable, memory, performed, restarts, faults>>

TypeOK ==
    /\ support \in [Ops -> [Stages -> [Kinds -> 0 .. 3]]]
    /\ late \in [Ops -> SUBSET Stages]
    /\ event \in [Ops -> [Events -> Exchange]]
    /\ receipt \in [Ops -> Exchange]
    /\ \A o \in Ops : \A x \in {receipt[o]} \cup {event[o][e] : e \in Events} :
         x.level = 0 <=> x.version = 0
    /\ object \in [Artifacts -> {"none", "linked", "settled"}]
    /\ temporary \in [Ops -> BOOLEAN]
    /\ lapsed \in [Ops -> SUBSET Grounds]
    /\ {stuck, up, store, cas, inFlight} \subseteq BOOLEAN
    /\ stream \in [Ops -> 0 .. Publish]
    /\ source \in [Ops -> Calls \cup {None}]
    /\ call \in [Calls -> CallState]
    /\ done \in [Ops -> SUBSET Stages]

\* Memory of a process that has only been started.
Forget ==
    /\ store' = TRUE
    /\ inFlight' = FALSE
    /\ stream' = [o \in Ops |-> 0]
    /\ source' = [o \in Ops |-> None]
    /\ call' = [c \in Calls |-> Idle]
    /\ expired' = {}
    /\ done' = [o \in Ops |-> {}]

Init ==
    /\ support = [o \in Ops |-> [i \in Stages |-> [k \in Kinds |-> 0]]]
    /\ late = [o \in Ops |-> {}]
    /\ event = [o \in Ops |-> [e \in Events |-> NoExchange]]
    /\ receipt = [o \in Ops |-> NoExchange]
    /\ object = [a \in Artifacts |-> "none"]
    /\ temporary = [o \in Ops |-> FALSE]
    /\ stuck = FALSE
    /\ lapsed = [o \in Ops |-> {}]
    /\ up = TRUE /\ store = TRUE /\ cas = TRUE /\ inFlight = FALSE
    /\ stream = [o \in Ops |-> 0]
    /\ source = [o \in Ops |-> None]
    /\ call = [c \in Calls |-> Idle]
    /\ expired = {}
    /\ done = [o \in Ops |-> {}]
    /\ performed = [o \in Ops |-> [i \in Stages |-> 0]]
    /\ restarts = 0 /\ faults = 0

-----------------------------------------------------------------------------
(* What the appends of an exchange may do, from level l: all succeed; one  *)
(* fails and leaves nothing; one fails with its record or its pending name *)
(* left, which latches the broker (protectedAppend).  A process that dies  *)
(* during an append leaves what a latched broker leaves.                   *)

Outcome == [level: 0 .. 3, how: {"done", "failed", "latched"}, stuck: BOOLEAN]

Outcomes(l) ==
    {w \in Outcome :
        /\ l <= w.level
        /\ w.how = "done" => w.level = 3 /\ ~w.stuck
        /\ w.how = "failed" => w.level < 3 /\ ~w.stuck
        /\ w.how = "latched" => l < 3}

Leaves(w) ==
    /\ stuck' = (stuck \/ w.stuck)
    /\ store' = (store /\ w.how # "latched")
    /\ w.how # "done" => faults < MaxFaults
    /\ faults' = faults + (IF w.how = "done" THEN 0 ELSE 1)

Working == up /\ store

\* A CAS call fails.
CasFails == faults < MaxFaults /\ faults' = faults + 1

-----------------------------------------------------------------------------
(* Evidence the broker asks for, on its own records. *)

Complete(o, i, k) == support[o][i][k] = 3
Started(o) == event[o]["operation_started"].level >= 2

\* Mutant: the publication request is not among them.
SevenRecords_early(o) == \A i \in {Open, Prepare, Verify} : \A k \in Kinds : Complete(o, i, k)

\* The seven records before the receipt (validateReceiptPrerequisites).
SevenRecords(o) ==
    /\ \A i \in {Open, Prepare, Verify} : \A k \in Kinds : Complete(o, i, k)
    /\ Complete(o, Publish, "request")

\* validateCustodyFinalization
Finalized(o) ==
    /\ Started(o)
    /\ \A i \in Stages : \A k \in Kinds : Complete(o, i, k)
    /\ receipt[o].level = 3

\* Mutant: a request-only exchange does not reserve its operation.
Reserved_unanswered(x, v) == x.level >= 2 /\ x.version # v

\* Another request holds the identity, the operation or the journal head.
Reserved(x, v) == x.level >= 1 /\ x.version # v

Entered(v, l) == [version |-> IF l = 0 THEN 0 ELSE v, level |-> l]

\* appendSemantic: a new event, an eventless request completed, or an
\* acknowledgement rebuilt.  Until its event is persisted the seal must be active.
AppendSemantic(o, e, v) ==
    LET x == event[o][e] IN
    /\ Working
    /\ ~Reserved(x, v)
    /\ x.level = 0 => v = 1
    /\ x.level < 3
    /\ x.level < 2 => "seal" \notin lapsed[o]
    /\ e = "custody_object_durable" => Finalized(o)
    /\ \E w \in Outcomes(x.level) :
         /\ event' = [event EXCEPT ![o][e] = Entered(v, w.level)]
         /\ Leaves(w)
    /\ UNCHANGED <<support, late, receipt, object, temporary, lapsed, up, cas, inFlight,
                   stream, source, call, expired, done, performed, restarts>>

\* persistPrimaryReceipt, called with an exact or a competing request.
PersistPrimaryReceipt(o, v) ==
    LET x == receipt[o] IN
    /\ Working
    /\ ~Reserved(x, v)
    /\ x.level = 0 => v = 1
    /\ x.level < 3
    /\ SevenRecords(o)
    /\ \E w \in Outcomes(x.level) :
         /\ receipt' = [receipt EXCEPT ![o] = Entered(v, w.level)]
         /\ Leaves(w)
    /\ UNCHANGED <<support, late, event, object, temporary, lapsed, up, cas, inFlight,
                   stream, source, call, expired, done, performed, restarts>>

-----------------------------------------------------------------------------
(* handle, up to its first await: guards, capability, CAS effect. *)

\* Mutant: a mutation whose chain is incomplete does not stop the next one.
Admits_unflagged(c, o, i) == up /\ call[c] = Idle /\ stream[o] = i - 1

\* The stage a call of o may request: the next of its stream, and only while
\* every mutation has its acknowledged chain.
Admits(c, o, i) ==
    /\ up /\ ~inFlight
    /\ call[c] = Idle
    /\ stream[o] = i - 1

Awaits(c, o, i) == call' = [call EXCEPT ![c] = [op |-> o, stage |-> i, at |-> "request"]]

Performs(o, i) ==
    /\ done' = [done EXCEPT ![o] = @ \cup {i}]
    /\ performed' = [performed EXCEPT ![o][i] = @ + 1]

OpenStaged(c, o) ==
    /\ Admits(c, o, Open)
    /\ Working
    /\ Started(o) /\ event[o]["custody_object_durable"].level < 2
    /\ lapsed[o] = {}
    /\ Awaits(c, o, Open)
    /\ expired' = expired \ {<<o, c>>}
    /\ UNCHANGED <<durable, up, store, cas, inFlight, stream, source, done, performed, restarts, faults>>

\* cas.prepare may fail before or after it has created its temporary; the
\* source capability is consumed and the flag set before it is called.
PrepareStage(c, o) ==
    /\ Admits(c, o, Prepare)
    /\ <<o, source[o]>> \notin expired
    /\ inFlight' = TRUE
    /\ \/ /\ cas
          /\ temporary' = [temporary EXCEPT ![o] = TRUE]
          /\ Performs(o, Prepare)
          /\ \/ Awaits(c, o, Prepare) /\ UNCHANGED <<cas, faults>>
             \/ cas' = FALSE /\ CasFails /\ UNCHANGED call
       \/ /\ cas => CasFails
          /\ ~cas => UNCHANGED faults
          /\ UNCHANGED <<temporary, cas, call, done, performed>>
    /\ expired' = expired \ {<<o>>}
    /\ UNCHANGED <<support, late, event, receipt, object, stuck, lapsed, up, store, stream, source,
                   restarts>>

VerifyStage(c, o) ==
    /\ Admits(c, o, Verify)
    /\ <<o>> \notin expired
    /\ inFlight' = TRUE
    /\ \/ cas /\ Awaits(c, o, Verify) /\ Performs(o, Verify) /\ UNCHANGED <<cas, faults>>
       \/ cas /\ cas' = FALSE /\ CasFails /\ UNCHANGED <<call, done, performed>>
       \/ ~cas /\ UNCHANGED <<cas, call, done, performed, faults>>
    /\ UNCHANGED <<durable, up, store, stream, source, expired, restarts>>

\* What a publication that is cut short leaves of the object and the temporary.
CutPublications(o) ==
    LET b == object[ArtifactOf(o)] IN
    {<<b, TRUE>>, <<"settled", FALSE>>} \cup (IF b = "none" THEN {<<"linked", TRUE>>} ELSE {})

Publishes(o, r) ==
    /\ object' = [object EXCEPT ![ArtifactOf(o)] = r[1]]
    /\ temporary' = [temporary EXCEPT ![o] = r[2]]
    /\ Performs(o, Publish)

\* The flag is set after publishNoReplace has returned.
PublishStage(c, o) ==
    /\ Admits(c, o, Publish)
    /\ <<o>> \notin expired
    /\ cas
    /\ \/ /\ Publishes(o, <<"settled", FALSE>>)
          /\ Awaits(c, o, Publish)
          /\ inFlight' = TRUE
          /\ UNCHANGED <<cas, faults>>
       \/ /\ \E r \in CutPublications(o) : Publishes(o, r)
          /\ cas' = FALSE /\ CasFails
          /\ UNCHANGED <<call, inFlight>>
    /\ UNCHANGED <<support, late, event, receipt, stuck, lapsed, up, store, stream, source, expired,
                   restarts>>

-----------------------------------------------------------------------------
(* handle, after its awaits. *)

Moves(c, at) == call' = [call EXCEPT ![c].at = at]
Throws(c) == call' = [call EXCEPT ![c] = Idle]

\* What the request of stage i rests on has expired since the call was
\* admitted: the seal or the handoff, or the capability it consumes.
Outlived(o, i) ==
    \/ i = Open /\ lapsed[o] # {}
    \/ i = Prepare /\ <<o, source[o]>> \in expired
    \/ i \in {Verify, Publish} /\ <<o>> \in expired

\* A message persisted before carries another time, so this one collides.
Persists(o, i, k) == Working /\ support[o][i][k] = 0

\* Mutant: the publication's response does not wait for its receipt.
After_early(i, k) == IF k = "response" THEN "finish" ELSE "response"

\* Where a call goes when message k of stage i is acknowledged.
After(i, k) ==
    CASE k = "response" -> "finish"
      [] k = "request" /\ i = Publish -> "receipt"
      [] OTHER -> "response"

\* persistSupportingRecord, for the request or the response of c's call.
PersistMessage(c, k) ==
    LET o == call[c].op  i == call[c].stage IN
    /\ up
    /\ call[c].at = k
    /\ \/ /\ Persists(o, i, k)
          /\ \E w \in Outcomes(support[o][i][k]) :
               /\ support' = [support EXCEPT ![o][i][k] = w.level]
               /\ late' = IF k = "request" /\ w.level = 3 /\ Outlived(o, i)
                          THEN [late EXCEPT ![o] = @ \cup {i}] ELSE late
               /\ Leaves(w)
               /\ IF w.how = "done" THEN Moves(c, After(i, k)) ELSE Throws(c)
       \/ /\ ~Persists(o, i, k)
          /\ Throws(c)
          /\ UNCHANGED <<support, late, stuck, store, faults>>
    /\ UNCHANGED <<event, receipt, object, temporary, lapsed, up, cas, inFlight, stream, source,
                   expired, done, performed, restarts>>

\* The receipt of c's publication; the preparation capability is then
\* consumed, unless it has expired meanwhile.
PersistReceipt(c) ==
    LET o == call[c].op  x == receipt[o] IN
    /\ up
    /\ call[c].at = "receipt"
    /\ \/ /\ Working /\ SevenRecords(o) /\ x.level = 0
          /\ \E w \in Outcomes(0) :
               /\ receipt' = [receipt EXCEPT ![o] = Entered(1, w.level)]
               /\ Leaves(w)
               /\ IF w.how = "done" /\ <<o>> \notin expired
                  THEN Moves(c, "response") ELSE Throws(c)
       \/ /\ ~(Working /\ SevenRecords(o) /\ x.level = 0)
          /\ Throws(c)
          /\ UNCHANGED <<receipt, stuck, store, faults>>
    /\ UNCHANGED <<support, late, event, object, temporary, lapsed, up, cas, inFlight, stream,
                   source, expired, done, performed, restarts>>

Finish(c) ==
    LET o == call[c].op  i == call[c].stage IN
    /\ up
    /\ call[c].at = "finish"
    /\ stream' = [stream EXCEPT ![o] = i]
    /\ source' = IF i = Open THEN [source EXCEPT ![o] = c] ELSE source
    /\ inFlight' = (inFlight /\ i = Open)
    /\ expired' = expired \ (IF i = Prepare THEN {<<o, source[o]>>} ELSE IF i = Publish THEN {<<o>>} ELSE {})
    /\ Throws(c)
    /\ UNCHANGED <<durable, up, store, cas, done, performed, restarts, faults>>

Runs(c, o, i) == call[c].op = o /\ call[c].stage >= i

\* Capabilities of o that a call may still consume.
Issued(o) ==
    {<<o, c>> : c \in {d \in Calls : stream[o] < Prepare /\ (source[o] = d \/ Runs(d, o, Open))}}
    \cup (IF stream[o] \in {Prepare, Verify} \/ \E c \in Calls : Runs(c, o, Prepare)
          THEN {<<o>>} ELSE {})

Expiries == Cardinality(expired) + Cardinality({x \in Ops \X Grounds : x[2] \in lapsed[x[1]]})

\* 30 s after a source capability was issued, 60 s after a preparation.
Expire(o) ==
    /\ up
    /\ Expiries < MaxExpired
    /\ \E x \in Issued(o) \ expired : expired' = expired \cup {x}
    /\ UNCHANGED <<durable, up, store, cas, inFlight, stream, source, call, done, performed, restarts, faults>>

\* What the next request about o would ask of: both until the open is persisted,
\* then the seal, for the durability event.
Asked(o) ==
    IF support[o][Open]["request"] = 0 THEN Grounds
    ELSE IF Finalized(o) /\ event[o]["custody_object_durable"].level < 2 THEN {"seal"} ELSE {}

\* A seal or a handoff expires; an expiry that nothing asks about, or while the
\* process is down, is the same as one just before the next question.
Lapse(o) ==
    /\ up
    /\ Expiries < MaxExpired
    /\ \E x \in Asked(o) \ lapsed[o] : lapsed' = [lapsed EXCEPT ![o] = @ \cup {x}]
    /\ UNCHANGED <<support, late, event, receipt, object, temporary, stuck, memory, performed,
                   restarts, faults>>

-----------------------------------------------------------------------------
(* The process dies; the constructors of the broker and the CAS. *)

Die ==
    /\ up
    /\ restarts < MaxRestarts
    /\ up' = FALSE
    /\ cas' = FALSE
    /\ Forget
    /\ UNCHANGED <<durable, performed, restarts, faults>>

\* Protected requests of o's custody stream.
Requests(o) == {i \in Stages : support[o][i]["request"] > 0}
Responses(o) == {i \in Stages : support[o][i]["response"] > 0}

WholeExchanges == \A o \in Ops : \A i \in Stages : \A k \in Kinds : support[o][i][k] \in {0, 3}

AnsweredInTime == \A o \in Ops : late[o] \subseteq Responses(o)

\* Every conjunct refuses with an error of its own (createProtectedJournalBroker).
Admissible ==
    /\ ~stuck
    /\ WholeExchanges
    /\ AnsweredInTime
    /\ \A o \in Ops :
         /\ Responses(o) \subseteq Requests(o)
         /\ \A i \in Requests(o) : \A j \in 1 .. (i - 1) : j \in Responses(o)
         /\ Requests(o) # {} => Started(o)
         /\ Publish \in Responses(o) => receipt[o].level = 3
         /\ receipt[o].level >= 1 => SevenRecords(o)
         /\ event[o]["custody_object_durable"].level >= 1 => Finalized(o)

\* The CAS starts latched over temporaries; an object whose directory entry
\* was not synchronized may be gone.
Restart ==
    /\ ~up
    /\ Admissible
    /\ restarts' = restarts + 1
    /\ up' = TRUE
    /\ \E kept \in SUBSET {a \in Artifacts : object[a] = "linked"} :
         object' = [a \in Artifacts |-> IF object[a] = "linked" /\ a \notin kept THEN "none" ELSE object[a]]
    /\ cas' = \A o \in Ops : ~temporary[o]
    /\ UNCHANGED <<support, late, event, receipt, temporary, stuck, lapsed, store, inFlight, stream,
                   source, call, expired, done, performed, faults>>

-----------------------------------------------------------------------------

Handle(c) ==
    \/ \E o \in Ops : OpenStaged(c, o) \/ PrepareStage(c, o) \/ VerifyStage(c, o) \/ PublishStage(c, o)
    \/ \E k \in Kinds : PersistMessage(c, k)
    \/ PersistReceipt(c) \/ Finish(c)

Client(o) ==
    \E v \in Versions :
        \/ \E e \in Events : AppendSemantic(o, e, v)
        \/ PersistPrimaryReceipt(o, v)

Next ==
    \/ \E c \in Calls : Handle(c)
    \/ \E o \in Ops : Client(o) \/ Expire(o) \/ Lapse(o)
    \/ Die \/ Restart

Spec == Init /\ [][Next]_vars

-----------------------------------------------------------------------------
(* Properties *)

\* A receipt names an object that is durable in the CAS and rests on seven
\* acknowledged records; a durability event rests on the acknowledged
\* receipt and all eight (the four durability claims of the receipt).
ReceiptFounded ==
    \A o \in Ops :
        /\ receipt[o].level >= 2 =>
             object[ArtifactOf(o)] = "settled" /\ SevenRecords(o) /\ Started(o)
        /\ event[o]["custody_object_durable"].level >= 2 => Finalized(o)

\* Whatever the broker has written of a custody stream when it dies, its own
\* constructor accepts it again.  The exceptions are a pending name, a
\* supporting exchange cut short, and a request that was never answered and
\* whose acknowledgement came after what it rests on had expired: the source
\* or the preparation capability, or for open_staged the seal or the handoff,
\* which the adapter tests only before it waits.
Reopenable == ~stuck /\ WholeExchanges /\ AnsweredInTime => Admissible

\* At most one custody mutation lacks its acknowledged request and response,
\* however calls interleave and fail (custodyMutationInFlight,
\* primaryPublicationInFlight and the latch of the CAS together); and a stage
\* of an operation takes effect once, retries and restarts included.
OneUnsettled ==
    /\ Cardinality({m \in Ops \X Stages :
         m[2] \in done[m[1]] /\ \E k \in Kinds : ~Complete(m[1], m[2], k)}) <= 1
    /\ \A o \in Ops : \A i \in Stages : performed[o][i] <= 1

\* Once a request of an operation is protected, no other request takes its
\* place, before and after its effect, across restarts.
ReservationHolds ==
    [][\A o \in Ops :
         /\ receipt[o].level > 0 => receipt'[o].version = receipt[o].version
         /\ \A e \in Events : event[o][e].level > 0 => event'[o][e].version = event[o][e].version]_vars
=============================================================================
