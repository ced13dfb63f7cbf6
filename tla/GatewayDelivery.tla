--------------------------- MODULE GatewayDelivery ---------------------------
(***************************************************************************)
(* The gateway behind the delivery port: GatewayOutboundAdapter            *)
(* (crates/gateway/src/outbound.rs), the durable sessions, wire_outbox and *)
(* command_delivery_attempts (crates/store/src/gateway_delivery.rs), the   *)
(* process-local transport handles (registry.rs, session.rs) and what the  *)
(* transport writer does with a frame (writer.rs, native_tcp.rs,           *)
(* execution_ws.rs).  Each action is one write transaction, one step of    *)
(* the transport, or one mutex-protected step of the session registry.     *)
(*                                                                         *)
(* A timestamp is abstracted to the comparison it is made for.  The code   *)
(* reads the clock before it waits for the write transaction, so a check   *)
(* against expires_at may use an older time: see Reads.                    *)
(***************************************************************************)
EXTENDS DeliveryCalls, FiniteSets

CONSTANTS
    Sessions,       \* transport sessions, in any order of arrival
    ClientOf,       \* session -> the client identity it registers
    MaxInflight     \* max_inflight_commands of a session

ASSUME GatewayAssumption ==
    /\ ClientOf \in [Sessions -> {ClientOf[x] : x \in Sessions}]
    /\ MaxInflight \in Nat

VARIABLES
    stage,          \* worker -> where its call is inside the adapter
    delivery,       \* subject -> generation -> rows of the message
    sink,           \* subject -> generation -> the frame in the transport
    session,        \* session -> its durable row
    live,           \* session -> its process-local handle
    guard,          \* the session holding the activation mutex, as a set
    expired         \* subjects whose expires_at has passed

gatewayVars == <<stage, delivery, sink, session, live, guard, expired>>

Stages == {"none", "enter", "prepared", "claimed", "sinking", "refused", "backpressure"}

OutboxStatuses == {"none", "Pending", "WriteStarted", "Sent", "Acked", "Failed", "Cancelled"}

AttemptStatuses == {"none", "Pending", "Sent", "Acked", "Unconfirmed", "Failed",
                    "Backpressure", "Cancelled", "NoActiveSession"}

\* `error' is the part of last_error the code branches on; `sent' says whether
\* sent_at is set, and whether validate_delivery_evidence will accept it.
Deliveries == [outbox : OutboxStatuses, attempt : AttemptStatuses,
               session : SUBSET Sessions, error : {"none", "expired", "rejected"},
               sent : {"none", "good", "bad"}]

NoDelivery == [outbox |-> "none", attempt |-> "none", session |-> {},
               error |-> "none", sent |-> "none"]

SinkStates == {"none", "queued", "written", "partial", "dropped"}

\* The health of a row that is not ACTIVE is never read.
SessionRows == [status : {"New", "Active", "Closed"},
                health : {"Synced", "Unsynced", "Stale"}]

NewSession == [status |-> "New", health |-> "Unsynced"]
ClosedSession == [status |-> "Closed", health |-> "Unsynced"]

GatewayInit ==
    /\ stage = [w \in Workers |-> "none"]
    /\ delivery = [s \in Subjects |-> [g \in Generations |-> NoDelivery]]
    /\ sink = [s \in Subjects |-> [g \in Generations |-> "none"]]
    /\ session = [x \in Sessions |-> NewSession]
    /\ live = [x \in Sessions |-> "none"]
    /\ guard = {}
    /\ expired = {}

\* The values a check `now >= expires_at' can have for a clock reading taken
\* somewhat before the transaction.  A request does not expire.
Reads(s) == IF s \in Commands \cap expired THEN BOOLEAN ELSE {FALSE}

Active(x) == session[x].status = "Active"

-----------------------------------------------------------------------------
(* The replay matrix: what the rows say about a message.                   *)

PeerRejected(d) == d.outbox = "Failed" /\ d.error = "rejected"

SentOutcome(d) == IF d.sent = "bad" THEN "SentBadEvidence" ELSE "Sent"

\* durable_delivery_outcome; "Inconsistent" is its infrastructure error.
DurableOutcome(d) ==
    CASE d.outbox \in {"WriteStarted", "Sent", "Acked", "Failed"} /\ d.attempt = "Acked"
            -> SentOutcome(d)
      [] PeerRejected(d) /\ d.attempt \in {"Pending", "Sent", "Failed", "Unconfirmed"}
            -> "TransportRejected"
      [] \/ d.outbox = "WriteStarted" /\ d.attempt = "Pending"
         \/ /\ d.outbox \in {"WriteStarted", "Sent", "Acked", "Failed"}
            /\ d.attempt = "Unconfirmed" /\ ~PeerRejected(d)
            -> "Unconfirmed"
      [] \/ d.outbox = "Sent" /\ d.attempt = "Sent"
         \/ d.outbox = "Acked" /\ d.attempt \in {"Pending", "Sent", "Backpressure", "Failed"}
            -> SentOutcome(d)
      [] d.outbox = "Failed" /\ d.attempt = "Backpressure"
            -> "RejectedRetryable"
      [] d.outbox = "Failed" /\ d.attempt = "Failed" /\ ~PeerRejected(d)
            -> "NotWritten"
      [] d.outbox = "Cancelled" /\ d.attempt = "Cancelled"
            -> IF d.error = "expired" THEN "RejectedExpired" ELSE "NotWritten"
      [] d.outbox = "Cancelled" /\ d.attempt = "NoActiveSession"
            -> "RejectedRetryable"
      [] OTHER -> "Inconsistent"

\* replay_rejection: the message was rejected before it was bound to a session.
Unbound(d) == d.outbox = "none" /\ d.attempt # "none"

ReplayRejection(d) ==
    IF d.attempt = "Cancelled" THEN "RejectedExpired" ELSE "RejectedRetryable"

\* Variant: a claimed frame may be claimed again.
UnwrittenOrClaimed(d) == d.outbox \in {"Pending", "WriteStarted"} /\ d.attempt = "Pending"

\* The prepared frame may still be written, once.
Unwritten(d) == d.outbox = "Pending" /\ d.attempt = "Pending"

Reply(o) == IF o = "Inconsistent" THEN "InfrastructureError" ELSE o

-----------------------------------------------------------------------------
(* A call of the port.                                                     *)

\* The worker's call returns o, and the rows of its message are now d.
AnswerWith(w, d, o) ==
    /\ Answer(w, Reply(o))
    /\ stage' = [stage EXCEPT ![w] = "none"]
    /\ delivery' = [delivery EXCEPT ![call[w].subject][call[w].generation] = d]

MoveTo(w, st, d) ==
    /\ stage' = [stage EXCEPT ![w] = st]
    /\ delivery' = [delivery EXCEPT ![call[w].subject][call[w].generation] = d]
    /\ UNCHANGED callVars

RowOf(w) == delivery[call[w].subject][call[w].generation]

\* The command attempts that count against the limit of session x.
Inflight(x) ==
    {m \in Commands \X Generations :
        LET d == delivery[m[1]][m[2]] IN
        /\ d.session = {x}
        /\ d.attempt \in {"Pending", "Sent", "Unconfirmed"}
        /\ ~PeerRejected(d)}

\* Variant: one command too many.
WindowHasNoRoom(x) == Cardinality(Inflight(x)) > MaxInflight

WindowIsFull(x) == Cardinality(Inflight(x)) >= MaxInflight

\* resolve_session_route: no session, more than one, or one that is not ready.
Routable(s) ==
    {x \in Sessions :
        /\ Active(x)
        /\ \A y \in Sessions : Active(y) => y = x
        /\ session[x].health = "Synced" \/ (session[x].health = "Unsynced" /\ s \notin Commands)}

\* prepare_and_write, up to the commit of its transaction.
Prepare(w) ==
    LET s == call[w].subject
        d == RowOf(w)
        Reject(attempt) == [NoDelivery EXCEPT !.attempt = attempt]
    IN
    /\ stage[w] = "enter"
    /\ \/ /\ d = NoDelivery
          /\ \E late \in Reads(s) :
             \/ /\ late
                /\ AnswerWith(w, Reject("Cancelled"), "RejectedExpired")
             \/ /\ ~late /\ Routable(s) = {}
                /\ AnswerWith(w, Reject("NoActiveSession"), "RejectedRetryable")
             \/ /\ ~late
                /\ \E x \in Routable(s) :
                   IF s \in Commands /\ WindowIsFull(x)
                   THEN AnswerWith(w, Reject("Backpressure"), "RejectedRetryable")
                   ELSE MoveTo(w, "prepared",
                               [NoDelivery EXCEPT !.outbox = "Pending", !.attempt = "Pending",
                                                  !.session = {x}])
       \/ Unbound(d) /\ AnswerWith(w, d, ReplayRejection(d))
       \/ Unwritten(d) /\ MoveTo(w, "prepared", d)
       \/ /\ d.outbox # "none" /\ ~Unwritten(d)
          /\ AnswerWith(w, d, DurableOutcome(d))
    /\ UNCHANGED <<sink, session, live, guard, expired>>

\* claim_outbox and the early returns of write_prepared.  The row has changed
\* since it was prepared exactly when it is not PENDING any more.
ClaimOutbox(w) ==
    LET s == call[w].subject
        d == RowOf(w)
        Cancel(attempt, error) == [d EXCEPT !.outbox = "Cancelled", !.attempt = attempt,
                                            !.error = error]
    IN
    /\ stage[w] = "prepared"
    /\ \/ ~Unwritten(d) /\ AnswerWith(w, d, DurableOutcome(d))
       \/ /\ Unwritten(d)
          /\ \E x \in d.session, late \in Reads(s) :
             IF ~Active(x) \/ session[x].health = "Stale"
                \/ (s \in Commands /\ session[x].health # "Synced")
             THEN AnswerWith(w, Cancel("NoActiveSession", "none"), "RejectedRetryable")
             ELSE IF late
             THEN AnswerWith(w, Cancel("Cancelled", "expired"), "RejectedExpired")
             ELSE MoveTo(w, "claimed", [d EXCEPT !.outbox = "WriteStarted"])
    /\ UNCHANGED <<sink, session, live, guard, expired>>

\* LiveSessionHandle::write and QueuedOutboundSink::enqueue: the frame is
\* queued, or refused by a fence, a closed sink or a full queue.
HandOver(w) ==
    LET s == call[w].subject
        g == call[w].generation
    IN
    /\ stage[w] = "claimed"
    /\ \E x \in RowOf(w).session :
       \/ /\ live[x] = "open"
          /\ sink' = [sink EXCEPT ![s][g] = "queued"]
          /\ stage' = [stage EXCEPT ![w] = "sinking"]
          /\ UNCHANGED live
       \/ /\ live[x] = "open"
          /\ live' = [live EXCEPT ![x] = "closed"]
          /\ stage' = [stage EXCEPT ![w] = "backpressure"]
          /\ UNCHANGED sink
       \/ /\ live[x] # "open"
          /\ stage' = [stage EXCEPT ![w] = "refused"]
          /\ UNCHANGED <<sink, live>>
    /\ UNCHANGED <<callVars, delivery, session, guard, expired>>

CloseSink(x) == [live EXCEPT ![x] = IF @ = "open" THEN "closed" ELSE @]

\* The transport writer takes the frame: it writes it, breaks off in the middle,
\* or drops it because the sink was closed.  The last two end the writer.
Transmit(s, g) ==
    /\ sink[s][g] = "queued"
    /\ \E x \in delivery[s][g].session, r \in {"written", "partial", "dropped"} :
       /\ sink' = [sink EXCEPT ![s][g] = r]
       /\ live' = IF r = "written" THEN live ELSE CloseSink(x)
    /\ UNCHANGED <<callVars, stage, delivery, session, guard, expired>>

\* Variant: a write that broke off counts as not written.
PartialWriteFails(d, r, late) ==
    IF d.outbox # "WriteStarted" \/ d.attempt # "Pending" THEN d
    ELSE IF r = "written"
    THEN [d EXCEPT !.outbox = "Sent", !.attempt = "Sent",
                   !.sent = IF late THEN "bad" ELSE "good"]
    ELSE [d EXCEPT !.outbox = "Failed",
                   !.attempt = IF r = "backpressure" THEN "Backpressure" ELSE "Failed"]

\* finish_transport_write: the rows after a sink outcome r; `late' says that
\* the write completed after expires_at.
AfterWrite(d, r, late) ==
    LET stamp == IF late THEN "bad" ELSE "good" IN
    CASE PeerRejected(d) /\ d.attempt = "Pending"
            -> [d EXCEPT !.attempt = "Sent"]
      [] d.outbox \in {"WriteStarted", "Sent", "Acked", "Failed"} /\ d.attempt = "Acked"
            -> IF d.outbox = "WriteStarted"
               THEN [d EXCEPT !.outbox = "Sent", !.sent = stamp] ELSE d
      [] d.outbox = "Acked" /\ d.attempt \in {"Pending", "Failed", "Backpressure"}
            -> [d EXCEPT !.attempt = "Sent"]
      [] d.outbox = "WriteStarted" /\ d.attempt = "Pending"
            -> CASE r = "written" -> [d EXCEPT !.outbox = "Sent", !.attempt = "Sent",
                                               !.sent = stamp]
                 [] r = "partial" -> [d EXCEPT !.attempt = "Unconfirmed"]
                 [] r = "backpressure" -> [d EXCEPT !.outbox = "Failed",
                                                    !.attempt = "Backpressure"]
                 [] OTHER -> [d EXCEPT !.outbox = "Failed", !.attempt = "Failed"]
      [] OTHER -> d

\* The sink answers and the adapter records the outcome.
FinishWrite(w) ==
    LET s == call[w].subject
        g == call[w].generation
        r == IF stage[w] = "sinking" THEN sink[s][g] ELSE stage[w]
    IN
    /\ stage[w] \in {"sinking", "refused", "backpressure"}
    /\ r # "queued"
    /\ \E late \in Reads(s) :
       LET d == AfterWrite(RowOf(w), r, late) IN AnswerWith(w, d, DurableOutcome(d))
    /\ UNCHANGED <<sink, session, live, guard, expired>>

\* A clock or store error ends the call; its transaction is rolled back.
CallFails(w) ==
    /\ stage[w] \in {"enter", "prepared", "sinking", "refused", "backpressure"}
    /\ stage[w] = "sinking" => sink[call[w].subject][call[w].generation] # "queued"
    /\ AnswerWith(w, RowOf(w), "InfrastructureError")
    /\ UNCHANGED <<sink, session, live, guard, expired>>

-----------------------------------------------------------------------------
(* Sessions.  A session is activated and closed under the activation mutex *)
(* (`guard'): the local handle is fenced first, then the rows change.      *)

\* Variant: the attempt of a cancelled frame is forgotten.
CloseForgetsAttempt(d) ==
    CASE \/ d.attempt = "Sent" /\ d.outbox # "Failed"
         \/ d.attempt = "Pending" /\ d.outbox \in {"WriteStarted", "Sent", "Acked"}
            -> [d EXCEPT !.attempt = "Unconfirmed"]
      [] Unwritten(d) -> [d EXCEPT !.outbox = "Cancelled"]
      [] OTHER -> d

\* Variant: a frame that a worker has claimed is cancelled with the session.
CloseCancelsClaimed(d) ==
    IF d.attempt = "Pending" /\ d.outbox \in {"Pending", "WriteStarted"}
    THEN [d EXCEPT !.outbox = "Cancelled", !.attempt = "Cancelled"]
    ELSE IF d.attempt = "Sent" /\ d.outbox # "Failed"
    THEN [d EXCEPT !.attempt = "Unconfirmed"] ELSE d

\* settle_rejected_pending_attempts, unconfirm_session_attempts and
\* cancel_session_pending_deliveries, applied to a row of a closing session.
AfterClose(d) ==
    CASE PeerRejected(d) /\ d.attempt = "Pending" -> [d EXCEPT !.attempt = "Sent"]
      [] \/ d.attempt = "Sent" /\ d.outbox # "Failed"
         \/ d.attempt = "Pending" /\ d.outbox \in {"WriteStarted", "Sent", "Acked"}
            -> [d EXCEPT !.attempt = "Unconfirmed"]
      [] Unwritten(d) -> [d EXCEPT !.outbox = "Cancelled", !.attempt = "Cancelled"]
      [] OTHER -> d

ClosedDeliveries(closing) ==
    [s \in Subjects |-> [g \in Generations |->
        LET d == delivery[s][g] IN
        IF \E x \in closing : d.session = {x} THEN AfterClose(d) ELSE d]]

\* Variant: a route is a session.
SameSession(x) == {x}

SameRoute(x) == {y \in Sessions : ClientOf[y] = ClientOf[x]}

\* activate: fence_route.
BeginActivation(x) ==
    /\ guard = {}
    /\ session[x].status = "New"
    /\ guard' = {x}
    /\ live' = [y \in Sessions |->
                  IF y \in SameRoute(x) /\ live[y] = "open" THEN "closed" ELSE live[y]]
    /\ UNCHANGED <<callVars, stage, delivery, sink, session, expired>>

\* activate: replace_active_session.  A handle that was fenced but whose
\* session is not the replaced one fails the new session closed.
ReplaceSession(x) ==
    LET replaced == {y \in SameRoute(x) : Active(y)}
        preFenced == {y \in SameRoute(x) : live[y] # "none"}
        mismatch == ~(preFenced \subseteq replaced)
    IN
    /\ guard = {x}
    /\ session[x].status = "New"
    /\ delivery' = ClosedDeliveries(replaced)
    /\ session' = [y \in Sessions |->
                     IF y \in replaced THEN ClosedSession
                     ELSE IF y = x
                     THEN IF mismatch THEN ClosedSession
                                      ELSE [status |-> "Active", health |-> "Unsynced"]
                     ELSE session[y]]
    /\ guard' = IF mismatch THEN {} ELSE guard
    /\ UNCHANGED <<callVars, stage, sink, live, expired>>

\* activate: the new handle replaces the route's old one.
Publish(x) ==
    /\ guard = {x}
    /\ Active(x)
    /\ live[x] = "none"
    /\ live' = [y \in Sessions |-> IF y = x THEN "open"
                                   ELSE IF y \in SameRoute(x) THEN "none" ELSE live[y]]
    /\ guard' = {}
    /\ UNCHANGED <<callVars, stage, delivery, sink, session, expired>>

\* replace_active_session fails: the new session never exists.  The fenced
\* handle stays where it is until its own connection closes.
AbandonActivation(x) ==
    /\ guard = {x}
    /\ session[x].status = "New"
    /\ guard' = {}
    /\ session' = [session EXCEPT ![x] = ClosedSession]
    /\ UNCHANGED <<callVars, stage, delivery, sink, live, expired>>

\* close (mark_stale, disconnect, a dropped connection): fence the handle ...
BeginClose(x) ==
    /\ guard = {}
    /\ live[x] # "none"
    /\ guard' = {x}
    /\ live' = CloseSink(x)
    /\ UNCHANGED <<callVars, stage, delivery, sink, session, expired>>

\* ... close the session, if it is still ACTIVE, with its deliveries
\* (close_exact_session), and remove the handle ...
FinishClose(x) ==
    LET closing == {y \in {x} : Active(y)} IN
    /\ guard = {x}
    /\ live[x] # "none"
    /\ delivery' = ClosedDeliveries(closing)
    /\ session' = [y \in Sessions |-> IF y \in closing THEN ClosedSession ELSE session[y]]
    /\ live' = [live EXCEPT ![x] = "none"]
    /\ guard' = {}
    /\ UNCHANGED <<callVars, stage, sink, expired>>

\* ... or fail in the store, and leave the fenced handle behind.
CloseFails(x) ==
    /\ guard = {x}
    /\ live[x] # "none"
    /\ guard' = {}
    /\ UNCHANGED <<callVars, stage, delivery, sink, session, live, expired>>

\* A heartbeat is assessed (assess_heartbeat), or none comes for too long.
Heartbeat(x, h) ==
    /\ Active(x)
    /\ session[x].health # h
    /\ session' = [session EXCEPT ![x].health = h]
    /\ UNCHANGED <<callVars, stage, delivery, sink, live, guard, expired>>

-----------------------------------------------------------------------------
(* The client, the clock and the process.                                  *)

\* Whoever answers a message has seen its bytes.
Seen(s, g) == sink[s][g] \in {"written", "partial"}

\* record_transport_ack.  acked_at comes from the client: as a sent_at it may be
\* acceptable or not.
AfterAck(d, accepted, stamp) ==
    IF d.outbox \notin {"WriteStarted", "Sent", "Failed"} \/ d.error = "rejected"
    THEN d
    ELSE [d EXCEPT !.outbox = IF accepted THEN "Acked" ELSE "Failed",
                   !.error = IF accepted THEN "none" ELSE "rejected",
                   !.sent = IF @ = "none" THEN stamp ELSE @]

TransportAck(s, g) ==
    /\ Seen(s, g)
    /\ \E accepted \in BOOLEAN, stamp \in {"good", "bad"} :
          delivery' = [delivery EXCEPT ![s][g] = AfterAck(@, accepted, stamp)]
    /\ UNCHANGED <<callVars, stage, sink, session, live, guard, expired>>

\* delivery_dispatch_evidence_at and record_command_received_attempt.
ReceiptAccepted(d) ==
    /\ \/ d.outbox \in {"WriteStarted", "Sent", "Acked"} \/ d.sent # "none"
       \/ d.attempt \in {"Sent", "Acked", "Unconfirmed"}
    /\ d.attempt \in {"Acked", "Pending", "Sent", "Unconfirmed", "Failed", "Backpressure"}

\* What command.received does to the rows of the delivery it answers.
ReceiptRecorded(c, g) ==
    /\ Seen(c, g)
    /\ ReceiptAccepted(delivery[c][g])
    /\ delivery' = [delivery EXCEPT ![c][g].attempt = "Acked"]
    /\ UNCHANGED <<callVars, stage, sink, session, live, guard, expired>>

ExpiryPasses(c) ==
    /\ c \notin expired
    /\ expired' = expired \cup {c}
    /\ UNCHANGED <<callVars, stage, delivery, sink, session, live, guard>>

\* fence_interrupted_writes, after the rows of the ACTIVE sessions are closed.
AfterFence(d) ==
    IF d.outbox = "WriteStarted" /\ d.attempt \in {"Pending", "Sent"}
    THEN [d EXCEPT !.attempt = "Unconfirmed"] ELSE d

\* The process dies.  A queued frame may or may not have left with it.  The next
\* process fences what it finds before it opens a listener (main.rs: run).
Restart ==
    /\ DropCalls
    /\ stage' = [w \in Workers |-> "none"]
    /\ \E r \in {"written", "partial", "dropped"} :
          sink' = [s \in Subjects |-> [g \in Generations |->
                     IF sink[s][g] = "queued" THEN r ELSE sink[s][g]]]
    /\ LET closed == ClosedDeliveries({x \in Sessions : Active(x)}) IN
       delivery' = [s \in Subjects |-> [g \in Generations |-> AfterFence(closed[s][g])]]
    /\ session' = [x \in Sessions |->
                     IF session[x].status = "New" THEN NewSession ELSE ClosedSession]
    /\ live' = [x \in Sessions |-> "none"]
    /\ guard' = {}
    /\ UNCHANGED expired

\* Every step that leaves the calls of the port alone.
SessionStep ==
    \/ \E x \in Sessions : BeginActivation(x)
    \/ \E x \in Sessions : ReplaceSession(x)
    \/ \E x \in Sessions : Publish(x)
    \/ \E x \in Sessions : AbandonActivation(x)
    \/ \E x \in Sessions : BeginClose(x)
    \/ \E x \in Sessions : FinishClose(x)
    \/ \E x \in Sessions : CloseFails(x)
    \/ \E x \in Sessions, h \in {"Synced", "Unsynced", "Stale"} : Heartbeat(x, h)

\* Every step of a call in progress.
CallStep ==
    \/ \E w \in Workers : Prepare(w)
    \/ \E w \in Workers : ClaimOutbox(w)
    \/ \E w \in Workers : HandOver(w)
    \/ \E w \in Workers : FinishWrite(w)
    \/ \E w \in Workers : CallFails(w)
    \/ \E s \in Subjects, g \in Generations : Transmit(s, g)

\* The caller enters the adapter.
Enter(w) ==
    /\ stage' = [stage EXCEPT ![w] = "enter"]
    /\ UNCHANGED <<delivery, sink, session, live, guard, expired>>

Init == CallInit /\ GatewayInit

\* The gateway under callers that may submit any message at any time.
Next ==
    \/ \E w \in Workers, s \in Subjects, g \in Generations : Submit(w, s, g) /\ Enter(w)
    \/ \E w \in Workers : Return(w) /\ UNCHANGED gatewayVars
    \/ CallStep
    \/ SessionStep
    \/ \E s \in Subjects, g \in Generations : TransportAck(s, g)
    \/ \E c \in Commands, g \in Generations : ReceiptRecorded(c, g)
    \/ \E c \in Commands : ExpiryPasses(c)
    \/ Restart

vars == <<call, submitted, stage, delivery, sink, session, live, guard, expired>>

Spec == Init /\ [][Next]_vars

-----------------------------------------------------------------------------
(* Properties.                                                             *)

\* The type of the rows and of the process-local state.
TypeOK ==
    /\ call \in [Workers -> Calls]
    /\ submitted \in [Subjects -> SUBSET Generations]
    /\ stage \in [Workers -> Stages]
    /\ \A w \in Workers : stage[w] # "none" <=> call[w].pc = "busy"
    /\ delivery \in [Subjects -> [Generations -> Deliveries]]
    /\ sink \in [Subjects -> [Generations -> SinkStates]]
    /\ session \in [Sessions -> SessionRows]
    /\ live \in [Sessions -> {"none", "open", "closed"}]
    /\ guard \in {{}} \cup {{x} : x \in Sessions}
    /\ expired \subseteq Commands

\* Whatever acks, receipts, closings, crashes and late writers did to the rows of
\* a message, the replay matrix (durable_delivery_outcome) has an answer for it:
\* a retried call never ends in an inconsistent-state error.
ReplayMatrixIsTotal ==
    \A s \in Subjects, g \in Generations :
        LET d == delivery[s][g] IN
        d.outbox # "none" /\ ~Unwritten(d) => DurableOutcome(d) # "Inconsistent"

\* The frame of a message is handed to a transport at most once: whoever is about
\* to hand it over is alone, and nobody did it before (claim_outbox is a CAS).
HandedOverOnce ==
    \A w \in Workers :
        stage[w] = "claimed" =>
            /\ sink[call[w].subject][call[w].generation] = "none"
            /\ \A v \in Workers \ {w} :
                  stage[v] \in {"claimed", "sinking", "refused", "backpressure"} =>
                      <<call[v].subject, call[v].generation>>
                          # <<call[w].subject, call[w].generation>>

\* reserve_outbound_sequence checks the limit when it adds an attempt; no later
\* change of an attempt makes a session exceed max_inflight_commands.
InflightIsBounded ==
    \A x \in Sessions : Cardinality(Inflight(x)) <= MaxInflight

\* A client identity has at most one ACTIVE session, and outside the activation
\* mutex a session has a transport handle exactly when it is durably ACTIVE: no
\* route is left without a transport, and no handle of a replaced session makes
\* every later activation of its route fail closed (ReplacementFenceMismatch).
OneActiveSession ==
    \A x, y \in Sessions : Active(x) /\ Active(y) /\ ClientOf[x] = ClientOf[y] => x = y

HandlesMatchSessions ==
    guard = {} => \A x \in Sessions : live[x] # "none" <=> Active(x)

OneSessionPerRoute == OneActiveSession /\ HandlesMatchSessions

\* The fate of a message's bytes, read off the rows and the transport.
Fate == [s \in Subjects |-> [g \in Generations |->
    LET d == delivery[s][g] IN
    CASE sink[s][g] \in {"written", "partial"} -> "written"
      [] d = NoDelivery \/ Unwritten(d) -> "open"
      [] \/ Unbound(d) \/ d.outbox = "Cancelled"
         \/ d.outbox = "Failed" /\ d.attempt \in {"Failed", "Backpressure"}
            -> "not_written"
      [] OTHER -> "started"]]

Port == INSTANCE DeliveryPort WITH fate <- Fate

\* The adapter, with everything behind it, keeps the promise of the delivery port:
\* an answer that bytes left, or never will, is true and stays true.
ImplementsPort == Port!PortSpec
=============================================================================
