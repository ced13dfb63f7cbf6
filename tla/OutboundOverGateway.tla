------------------------ MODULE OutboundOverGateway ------------------------
(***************************************************************************)
(* Core's outbound workers (OutboundWork) over the gateway                 *)
(* (GatewayDelivery), with the handlers of the client's answers            *)
(* (crates/core/src/inbound_processor.rs): the outbound half of the        *)
(* trading core in one process.                                            *)
(***************************************************************************)
EXTENDS OutboundWork, GatewayDelivery

CONSTANT MaxFaults      \* bound: faults of the store, the process and the leases

ASSUME FaultAssumption == MaxFaults \in Nat

VARIABLE faults         \* faults so far

systemVars == <<status, work, call, submitted, stage, delivery, sink, session, live, guard,
                expired, faults>>

SystemInit == WorkInit /\ CallInit /\ GatewayInit /\ faults = 0

\* process_next claims a row and enters the adapter.
ClaimAndCall(w, s) ==
    /\ Claim(w, s)
    /\ IF Needed(s) THEN Enter(w) ELSE UNCHANGED gatewayVars

\* handle_command_received: the attempt is ACKED and the command CommandReceived
\* in one transaction, through DISPATCHED when the answer of the port is still on
\* its way.  A receipt for an expired command is refused.
CommandReceived(c, g) ==
    /\ ReceiptRecorded(c, g)
    /\ \/ Evidence(c)
       \/ status[c] = "CommandReceived" /\ UNCHANGED workVars

\* handle_execution_event: from CREATED it is an invalid transition.
ExecutionEvent(c) ==
    /\ \E g \in Generations : Seen(c, g)
    /\ status[c] # "Created"
    /\ Evidence(c)
    /\ UNCHANGED gatewayVars

\* handle_reconciliation_result.
ReconciliationResult(r) ==
    /\ \E g \in Generations : Seen(r, g)
    /\ Evidence(r)
    /\ UNCHANGED gatewayVars

\* The owner of the row is working on it.
OwnerAlive(s) == \E w \in work[s].owner : call[w] # Idle /\ call[w].subject = s

Settle(w) == (Commit(w) \/ RollBack(w)) /\ UNCHANGED gatewayVars

AbandonedLeaseExpires(s) == ~OwnerAlive(s) /\ LeaseExpires(s) /\ UNCHANGED gatewayVars

NormalStep ==
    \/ \E w \in Workers, s \in Subjects : ClaimAndCall(w, s)
    \/ \E w \in Workers : Settle(w)
    \/ \E s \in Subjects : AbandonedLeaseExpires(s)
    \/ \E r \in Requests : ResumeRun(r) /\ UNCHANGED gatewayVars
    \/ \E c \in Commands, g \in Generations : CommandReceived(c, g)
    \/ \E c \in Commands : ExecutionEvent(c)
    \/ \E r \in Requests : ReconciliationResult(r)
    \/ \E s \in Subjects, g \in Generations : TransportAck(s, g) /\ UNCHANGED workVars
    \/ \E w \in Workers : Prepare(w) /\ UNCHANGED workVars
    \/ \E w \in Workers : ClaimOutbox(w) /\ UNCHANGED workVars
    \/ \E w \in Workers : HandOver(w) /\ UNCHANGED workVars
    \/ \E w \in Workers : FinishWrite(w) /\ UNCHANGED workVars
    \/ \E s \in Subjects, g \in Generations : Transmit(s, g) /\ UNCHANGED workVars
    \/ \E x \in Sessions : BeginActivation(x) /\ UNCHANGED workVars
    \/ \E x \in Sessions : ReplaceSession(x) /\ UNCHANGED workVars
    \/ \E x \in Sessions : Publish(x) /\ UNCHANGED workVars
    \/ \E x \in Sessions : BeginClose(x) /\ UNCHANGED workVars
    \/ \E x \in Sessions : FinishClose(x) /\ UNCHANGED workVars
    \/ \E x \in Sessions, h \in {"Synced", "Unsynced", "Stale"} :
          Heartbeat(x, h) /\ UNCHANGED workVars
    \/ \E c \in Commands : ExpiryPasses(c) /\ UNCHANGED workVars

\* A crash, a failed transaction, or a lease that runs out under its owner.
FaultStep ==
    \/ Restart /\ UNCHANGED workVars
    \/ \E w \in Workers : StoreFails(w) /\ UNCHANGED gatewayVars
    \/ \E w \in Workers : CallFails(w) /\ UNCHANGED workVars
    \/ \E x \in Sessions : CloseFails(x) /\ UNCHANGED workVars
    \/ \E x \in Sessions : AbandonActivation(x) /\ UNCHANGED workVars
    \/ \E s \in Subjects : OwnerAlive(s) /\ LeaseExpires(s) /\ UNCHANGED gatewayVars

SystemNext ==
    \/ NormalStep /\ UNCHANGED faults
    \/ FaultStep /\ faults < MaxFaults /\ faults' = faults + 1

SystemSpec == SystemInit /\ [][SystemNext]_systemVars

-----------------------------------------------------------------------------
(* Fairness.  The worker polls until it is told to stop and awaits every   *)
(* call it makes; the transport writer bounds every write by a timeout;    *)
(* time passes.  Nothing is assumed of the client, of its connections, or  *)
(* of faults.                                                              *)

CallProgress(w) == Prepare(w) \/ ClaimOutbox(w) \/ HandOver(w) \/ FinishWrite(w)

Fairness ==
    /\ \A w \in Workers :
          /\ WF_systemVars((\E s \in Subjects : ClaimAndCall(w, s)) /\ UNCHANGED faults)
          /\ WF_systemVars(CallProgress(w) /\ UNCHANGED <<workVars, faults>>)
          /\ WF_systemVars(Settle(w) /\ UNCHANGED faults)
    /\ \A s \in Subjects :
          /\ WF_systemVars(AbandonedLeaseExpires(s) /\ UNCHANGED faults)
          /\ \A g \in Generations :
                WF_systemVars(Transmit(s, g) /\ UNCHANGED <<workVars, faults>>)
    /\ \A c \in Commands : WF_systemVars(ExpiryPasses(c) /\ UNCHANGED <<workVars, faults>>)

FairSystemSpec == SystemSpec /\ Fairness

-----------------------------------------------------------------------------
(* Properties.                                                             *)

System == INSTANCE OutboundOverPort WITH fate <- Fate

\* The whole outbound path implements the workers over the abstract port, so
\* everything shown of OutboundOverPort holds of it.
ImplementsOutboundOverPort == System!Spec

\* The model stops following a subject whose next generation is out of bounds.
OutOfGenerations(s) == work[s].generation > Bound[s]

\* A claim never outlives its owner: after a crash, a lost lease or a failed
\* commit, somebody finishes or reschedules the row.
ClaimsAreReleased ==
    \A s \in Subjects : work[s].status = "Processing" ~> work[s].status # "Processing"

\* A row whose subject moved on by itself (a receipt or an event came before the
\* answer of the port, or its commit was lost) is taken up once more and closed as
\* SUPERSEDED: nothing is scheduled for ever for a subject that needs nothing.
SupersededWorkEnds ==
    \A s \in Subjects :
        work[s].status \in {"Pending", "Processing"} /\ ~Needed(s) ~>
            work[s].status = "Delivered" \/ OutOfGenerations(s)

\* Once expires_at has passed, the delivery of a command comes to an end: the
\* command leaves CREATED, or the peer rejected the message for good.  The one
\* exception is a write that was claimed in time and reported as sent too late:
\* validate_delivery_evidence refuses the answer, every retry replays it.
EveryCommandIsSettled ==
    \A c \in Commands :
        c \in expired ~>
            \/ ~Needed(c)
            \/ work[c].outcome = "PermanentRejection"
            \/ \E g \in Generations : delivery[c][g].sent = "bad"
            \/ OutOfGenerations(c)
=============================================================================
