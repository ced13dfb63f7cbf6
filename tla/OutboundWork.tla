---------------------------- MODULE OutboundWork ----------------------------
(***************************************************************************)
(* Durable outbound delivery work: the table outbound_delivery_work        *)
(* (crates/store/src/outbound_work.rs) and the processor that claims a     *)
(* row, calls the delivery port and commits the answer together with the   *)
(* lifecycle of the subject (crates/core/src/outbound_processor.rs).  Each *)
(* action is one write transaction.  Of the delivery port this module only *)
(* sees the calls; modules that compose it with a port add the rest.       *)
(*                                                                         *)
(* Timestamps are abstracted to what the code compares them for: whether   *)
(* the lease of a row has run out (`leased').  A retry delay is any delay. *)
(* A worker handles one claim at a time, so the row has the revision that  *)
(* the worker claimed exactly when the row still names it as the owner.    *)
(***************************************************************************)
EXTENDS DeliveryCalls

CONSTANTS
    RequestOf,      \* command -> the request of its DELIVERY_UNCONFIRMED run
    Bound           \* bound: subject -> the last generation that is claimed

Requests == Subjects \ Commands

\* The id of the request is derived from the id of the command.
ASSUME SubjectAssumption ==
    /\ RequestOf \in [Commands -> Requests]
    /\ Bound \in [Subjects -> 0 .. MaxGeneration]
    /\ \A c, d \in Commands : RequestOf[c] = RequestOf[d] => c = d

VARIABLES
    status,         \* subject -> status of its business row
    work            \* subject -> its row of outbound_delivery_work

workVars == <<status, work>>

\* "CommandReceived" stands for the receipt and every status that follows it;
\* "Settled" for every status of a run other than REQUESTED.
Statuses ==
    {"Created", "Dispatched", "DeliveryUnconfirmed", "CommandReceived", "Expired"}
    \cup {"None", "Requested", "Settled"}

Outcomes == {"none", "Sent", "Unconfirmed", "Superseded", "Expired",
             "PermanentRejection"}

Rows == [status : {"None", "Pending", "Processing", "Delivered"},
         generation : 1 .. MaxGeneration + 1,
         owner : {{}} \cup {{w} : w \in Workers},
         leased : BOOLEAN,
         outcome : Outcomes]

NoRow == [status |-> "None", generation |-> 1, owner |-> {}, leased |-> FALSE,
          outcome |-> "none"]

WorkInit ==
    /\ status = [s \in Subjects |-> IF s \in Commands THEN "Created" ELSE "None"]
    /\ work = [s \in Subjects |-> NoRow]

\* The subject still wants delivery.
Needed(s) == status[s] = IF s \in Commands THEN "Created" ELSE "Requested"

\* Variant: a row in PROCESSING is never taken over.
ClaimableWithoutTakeover(s) ==
    \/ work[s].status = "None" /\ Needed(s)
    \/ work[s].status = "Pending"

\* Variant: only rows whose subject still wants delivery are claimed.
ClaimableWhenNeeded(s) ==
    /\ Needed(s)
    /\ work[s].status # "Delivered"
    /\ work[s].status = "Processing" => ~work[s].leased

Claimable(s) ==
    \/ work[s].status = "None" /\ Needed(s)
    \/ work[s].status = "Pending"
    \/ work[s].status = "Processing" /\ ~work[s].leased

\* claim_next_outbound_delivery, then process_next up to the call of the port;
\* a subject that moved on is not delivered.
Claim(w, s) ==
    /\ call[w] = Idle
    /\ Claimable(s)
    /\ work[s].generation <= Bound[s]
    /\ work' = [work EXCEPT ![s] = [@ EXCEPT !.status = "Processing",
                                             !.owner = {w}, !.leased = TRUE]]
    /\ LET g == work[s].generation IN
       IF Needed(s)
       THEN Submit(w, s, g)
       ELSE /\ call' = [call EXCEPT ![w] = Done(s, g, "Superseded")]
            /\ UNCHANGED submitted
    /\ UNCHANGED status

Complete(s, o) ==
    work' = [work EXCEPT ![s] = [@ EXCEPT !.status = "Delivered", !.owner = {},
                                          !.leased = FALSE, !.outcome = o]]

Retry(s, advance) ==
    LET g == work[s].generation IN
    work' = [work EXCEPT ![s] = [@ EXCEPT !.status = "Pending", !.owner = {},
                                          !.leased = FALSE,
                                          !.generation = IF advance THEN g + 1 ELSE g]]

\* Variant: the test for stronger business evidence is inverted.
ScheduleRetryInverted(s, advance) ==
    /\ IF Needed(s) THEN Complete(s, "Superseded") ELSE Retry(s, advance)
    /\ UNCHANGED status

ScheduleRetry(s, advance) ==
    /\ IF Needed(s) THEN Retry(s, advance) ELSE Complete(s, "Superseded")
    /\ UNCHANGED status

StopDelivery(s, o) == Complete(s, o) /\ UNCHANGED status

\* Variant: an uncertain write dispatches the command.
DeliveryAlwaysDispatches(c, o) == [status EXCEPT ![c] = "Dispatched"]

\* Variant: the reconciliation run is left to somebody else.
DeliveryOpensNoRun(c, o) ==
    [status EXCEPT ![c] = IF o = "Sent" THEN "Dispatched" ELSE "DeliveryUnconfirmed"]

\* next_delivery_state, and ensure_delivery_reconciliation for an uncertain write.
AfterDelivery(c, o) ==
    IF o = "Sent"
    THEN [status EXCEPT ![c] = "Dispatched"]
    ELSE [status EXCEPT ![c] = "DeliveryUnconfirmed", ![RequestOf[c]] = "Requested"]

CommitCommandDelivery(c, o) ==
    IF Needed(c)
    THEN Complete(c, o) /\ status' = AfterDelivery(c, o)
    ELSE Complete(c, "Superseded") /\ UNCHANGED status

\* Variant: an expired message is sent again.
RetriesExpired(c) == ScheduleRetry(c, FALSE)

\* apply_command_expiry_transition.
AfterExpiry(c) == [status EXCEPT ![c] = "Expired"]

ExpireCommand(c) ==
    IF Needed(c)
    THEN Complete(c, "Expired") /\ status' = AfterExpiry(c)
    ELSE Complete(c, "Superseded") /\ UNCHANGED status

\* The answers that are tried again.
RetryableAnswers == {"RejectedRetryable", "NotWritten", "SentBadEvidence",
                     "InfrastructureError"}

\* Variant: every retry is a new message.
AlwaysAdvances(o) == TRUE

\* A new message replaces the old one only on evidence that it was not written.
AdvancesGeneration(o) == o \in {"RejectedRetryable", "NotWritten"}

FinishCommand(c, o) ==
    \/ /\ o \in {"Sent", "Unconfirmed"}
       /\ CommitCommandDelivery(c, o)
    \/ /\ o = "RejectedExpired"
       /\ ExpireCommand(c)
    \/ /\ o \in {"RejectedIdentity", "TransportRejected"}
       /\ StopDelivery(c, "PermanentRejection")
    \/ /\ o \in RetryableAnswers
       /\ ScheduleRetry(c, AdvancesGeneration(o))

\* Only the retryable rejections of a request are tried again.
FinishReconciliation(r, o) ==
    \/ /\ o \in {"Sent", "Unconfirmed"}
       /\ StopDelivery(r, o)
    \/ /\ o \in {"RejectedExpired", "RejectedIdentity", "TransportRejected"}
       /\ StopDelivery(r, "PermanentRejection")
    \/ /\ o \in RetryableAnswers
       /\ ScheduleRetry(r, AdvancesGeneration(o))

Finish(s, o) ==
    \/ /\ o = "Superseded"
       /\ StopDelivery(s, "Superseded")
    \/ /\ o # "Superseded"
       /\ IF s \in Commands THEN FinishCommand(s, o) ELSE FinishReconciliation(s, o)

\* Variant: the owner of the row is not compared.
OwnsAnyone(w, s) == work[s].status = "Processing"

\* validate_owned_work compares the lease with a time read before the
\* transaction began, so a lease that ran out in between still passes.
Owns(w, s) == work[s].status = "Processing" /\ work[s].owner = {w}

Commit(w) ==
    /\ Return(w)
    /\ Owns(w, call[w].subject)
    /\ Finish(call[w].subject, call[w].outcome)

\* The row is not the worker's any more, or its lease ran out.
RollBack(w) ==
    /\ Return(w)
    /\ ~Owns(w, call[w].subject) \/ ~work[call[w].subject].leased
    /\ UNCHANGED workVars

\* The transaction fails (I/O, a full disk): everything it did is undone.
StoreFails(w) == Return(w) /\ UNCHANGED workVars

LeaseExpires(s) ==
    /\ work[s].leased
    /\ work' = [work EXCEPT ![s].leased = FALSE]
    /\ UNCHANGED <<status, call, submitted>>

\* handle_session_resume opens a run that no command asked for.
ResumeRun(r) ==
    /\ r \in Requests \ {RequestOf[c] : c \in Commands}
    /\ status[r] = "None"
    /\ status' = [status EXCEPT ![r] = "Requested"]
    /\ UNCHANGED <<work, call, submitted>>

\* The client's own evidence is handled: command.received or an execution
\* event for a command, reconciliation.result for a request.
Evidence(s) ==
    /\ status' = [status EXCEPT ![s] = IF s \in Commands THEN "CommandReceived"
                                                         ELSE "Settled"]
    /\ status[s] \in {"Created", "Dispatched", "DeliveryUnconfirmed", "Requested"}
    /\ UNCHANGED <<work, call, submitted>>
=============================================================================
