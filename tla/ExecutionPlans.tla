--------------------------- MODULE ExecutionPlans ---------------------------
(***************************************************************************)
(* The projection of an execution plan: the rows of execution_plans and    *)
(* execution_legs, derived from the command states and execution events of *)
(* the plan's legs (crates/execution/src/projector.rs) and rewritten with  *)
(* every command transition by two processes, the inbound and the outbound *)
(* processor (crates/core/src), through the compare-and-set bundle of      *)
(* crates/store/src/repository.rs.                                         *)
(*                                                                         *)
(* One plan with its legs; each leg has one command, whose row follows     *)
(* module CommandLifecycle.  Every action is one write transaction: it     *)
(* loads the plan, moves a command, and persists the projection.  A        *)
(* transaction that fails anywhere is rolled back and is no step.          *)
(***************************************************************************)
EXTENDS Integers, FiniteSetsExt

CONSTANTS
    Legs,           \* the legs of the plan
    CreatedAt,      \* recorded_at of the plan, created_at of its commands
    ExpiresAt,      \* expires_at of the commands
    Moments         \* bound: the timestamps of deliveries and reports

ASSUME PlanAssumption ==
    /\ Legs # {}
    /\ CreatedAt \in Nat
    /\ ExpiresAt \in Nat
    /\ Moments \subseteq Nat

VARIABLES
    commands,       \* leg -> row of execution_command_states
    events,         \* the rows of execution_events of the plan
    projection      \* [plan |-> row of execution_plans, legs |-> leg -> row]

vars == <<commands, events, projection>>

C == INSTANCE CommandLifecycle WITH state <- commands, held <- commands,
                                   Owners <- {}, MaxTime <- Max(Moments)

None == -1

LegStatuses ==
    {"Pending", "Sent", "DeliveryUnconfirmed", "Reconciling",
     "ManualReconciliationRequired", "CommandReceived", "Accepted", "Rejected",
     "OrderSent", "PartiallyFilled", "Filled", "Failed", "Expired", "Cancelled"}

PlanStatuses ==
    {"Pending", "Reconciling", "ManualReconciliationRequired", "Partial",
     "Completed", "Failed", "Cancelled", "Expired"}

Rows(statuses) == [status : statuses, updated_at : Int]

-----------------------------------------------------------------------------
(* The projector. *)

LegTerminal == {"Rejected", "Filled", "Failed", "Expired", "Cancelled"}

Exposed == {"PartiallyFilled", "Filled"}

LegOfCommand(status) ==
    CASE status = "Created"    -> "Pending"
      [] status = "Dispatched" -> "Sent"
      [] OTHER                 -> status

Reported(es, leg, status) == \E e \in es : e.leg = leg /\ e.status = status

\* project_leg: a reported fill outlives whatever the command becomes.
ProjectLeg(cs, es, leg) ==
    IF Reported(es, leg, "Filled") THEN "Filled"
    ELSE IF Reported(es, leg, "PartiallyFilled") THEN "PartiallyFilled"
    ELSE LegOfCommand(cs[leg].status)

ProjectLegs(cs, es) == [leg \in Legs |-> ProjectLeg(cs, es, leg)]

\* project_leg gives up on DELIVERY_FAILED, and on an event older than the command.
Projectable(cs, es) ==
    /\ \A leg \in Legs : cs[leg].status # "DeliveryFailed"
    /\ \A e \in es : e.at >= CreatedAt

\* Variant: the terminal states are looked at before the fills.
FailedFirst(ls) ==
    LET All(status) == \A leg \in Legs : ls[leg] = status
        Some(S)     == \E leg \in Legs : ls[leg] \in S
    IN
    CASE All("Filled")    -> "Completed"
      [] All("Cancelled") -> "Cancelled"
      [] All("Expired")   -> "Expired"
      [] ~Some(LegStatuses \ LegTerminal) /\ ~All("Filled") /\ ~All("Cancelled")
         /\ ~All("Expired") -> "Failed"
      [] OTHER -> IF Some(Exposed) THEN "Partial" ELSE "Pending"

\* Variant: one failed leg fails the plan.
FailsEarly(ls) ==
    LET All(status) == \A leg \in Legs : ls[leg] = status
        Some(S)     == \E leg \in Legs : ls[leg] \in S
    IN
    IF All("Filled") THEN "Completed"
    ELSE IF All("Cancelled") THEN "Cancelled"
    ELSE IF All("Expired") THEN "Expired"
    ELSE IF Some(Exposed) THEN "Partial"
    ELSE IF Some(LegTerminal) THEN "Failed"
    ELSE IF Some({"DeliveryUnconfirmed", "Reconciling"}) THEN "Reconciling"
    ELSE "Pending"

\* derive_execution_plan_status of the leg statuses ls.
DeriveStatus(ls) ==
    LET All(status) == \A leg \in Legs : ls[leg] = status
        Some(S)     == \E leg \in Legs : ls[leg] \in S
    IN
    IF All("Filled") THEN "Completed"
    ELSE IF All("Cancelled") THEN "Cancelled"
    ELSE IF All("Expired") THEN "Expired"
    ELSE IF Some({"ManualReconciliationRequired"}) THEN "ManualReconciliationRequired"
    ELSE IF Some(Exposed) THEN "Partial"
    ELSE IF \A leg \in Legs : ls[leg] \in LegTerminal THEN "Failed"
    ELSE IF Some({"DeliveryUnconfirmed", "Reconciling"}) THEN "Reconciling"
    ELSE "Pending"

\* filled_legs and failed_legs as project_plan fills them in and as
\* ExecutionPlan::validate demands them.
FilledLegs(ls) == {leg \in Legs : ls[leg] \in Exposed}
FailedLegs(ls) == {leg \in Legs : ls[leg] \in {"Rejected", "Failed"}}

\* decide_recovery for a rollback mode ("Unset" when the plan has none).
Decision(kind, ls) == [kind |-> kind, legs |-> ls]

DecideRecovery(status, filled, mode, failurePolicy) ==
    IF status # "Partial" THEN Decision("None", {})
    ELSE IF mode = "CloseFilled" /\ filled # {} THEN Decision("CloseFilled", filled)
    ELSE IF mode = "None" THEN Decision("LeavePartial", {})
    ELSE IF mode = "Unset" /\ failurePolicy = "PartialFill" THEN Decision("LeavePartial", {})
    ELSE Decision("ManualReview", {})

-----------------------------------------------------------------------------
(* The rows and how they are read and rewritten. *)

LegStatusOf(p) == [leg \in Legs |-> p.legs[leg].status]

\* execution_plan_from_row rebuilds the summary lists from the leg rows...
StoredFilledLegs(ls) == {leg \in Legs : ls[leg] = "Filled"}

StoredFailedLegs(ls) == {leg \in Legs : ls[leg] \in {"Rejected", "Failed"}}

\* ... and hands the plan to ExecutionPlan::validate.
ValidPlan(status, filled, failed, ls) ==
    /\ filled = FilledLegs(ls)
    /\ failed = FailedLegs(ls)
    /\ status = DeriveStatus(ls)

Readable(p) ==
    LET ls == LegStatusOf(p) IN
    /\ p.plan.updated_at >= CreatedAt
    /\ \A leg \in Legs : p.legs[leg].updated_at >= CreatedAt
    /\ ValidPlan(p.plan.status, StoredFilledLegs(ls), StoredFailedLegs(ls), ls)

Changed(p, cs, es) == {leg \in Legs : ProjectLeg(cs, es, leg) # p.legs[leg].status}

\* Variant: the version is the time of the evidence.
EvidenceVersion(p, changed, at) == Max({p.plan.updated_at, at})

\* updated_at of persist_plan_projection.
ProjectionVersion(p, changed, at) ==
    Max({p.plan.updated_at, at} \cup {p.legs[leg].updated_at : leg \in changed}) + 1

\* The rows persist_plan_projection leaves; with no changed leg it writes nothing.
Persisted(p, cs, es, at) ==
    LET changed == Changed(p, cs, es)
        version == ProjectionVersion(p, changed, at)
    IN
    IF changed = {} THEN p
    ELSE [plan |-> [status     |-> DeriveStatus(ProjectLegs(cs, es)),
                    updated_at |-> version],
          legs |-> [leg \in Legs |->
                      IF leg \in changed
                      THEN [status |-> ProjectLeg(cs, es, leg), updated_at |-> version]
                      ELSE p.legs[leg]]]

\* Variant: the bundle is not read back before it is released.
PersistsUnread(p, cs, es, at) ==
    LET next == Persisted(p, cs, es, at) IN
    /\ Projectable(cs, es)
    /\ next # p => next.plan.updated_at > p.plan.updated_at

\* update_execution_lifecycle_on accepts the update: every version moves
\* forward, the plan is valid and no leg is newer than it, and the rewritten
\* plan can be read back.
Persists(p, cs, es, at) ==
    LET next    == Persisted(p, cs, es, at)
        changed == Changed(p, cs, es)
        ls      == ProjectLegs(cs, es)
    IN
    /\ Projectable(cs, es)
    /\ changed # {} =>
         /\ next.plan.updated_at > p.plan.updated_at
         /\ \A leg \in changed : next.legs[leg].updated_at > p.legs[leg].updated_at
         /\ ValidPlan(next.plan.status, FilledLegs(ls), FailedLegs(ls), LegStatusOf(next))
         /\ \A leg \in Legs : next.plan.updated_at >= next.legs[leg].updated_at
         /\ Readable(next)

-----------------------------------------------------------------------------
Evidence(kind, at) ==
    [kind |-> kind, at |-> at, ok |-> TRUE, status |-> "Created", filled_at |-> None]

EventEvidence(e) ==
    [kind |-> "ExecutionEvent", at |-> e.at, ok |-> TRUE,
     status |-> e.status,
     filled_at |-> IF e.status \in C!FillStatuses THEN e.at ELSE None]

\* A report of the execution client, well-formed (a fill is reported when it
\* happens).  execution_id is abstracted to the content: a redelivery is an event
\* already stored.
EventsOf(leg) == [leg : {leg}, status : C!EventStatuses, at : Moments]

\* next_delivery_state: the row after a delivery at d, observed uncertain at u.
DeliveryStart(st, d) ==
    IF st.status = "Created" THEN C!Candidate(st, Evidence("Dispatched", d)) ELSE st

DeliveryState(st, d, u) ==
    LET first == DeliveryStart(st, d) IN
    IF u # None /\ first.status = "Dispatched"
    THEN C!Candidate(first, Evidence("DeliveryUnconfirmed", u)) ELSE first

DeliveryAdmitted(st, d, u) ==
    LET first == DeliveryStart(st, d) IN
    /\ st.status = "Created" => C!Applies(st, Evidence("Dispatched", d))
    /\ u # None /\ first.status = "Dispatched" =>
           C!Applies(first, Evidence("DeliveryUnconfirmed", u))

\* transition_command succeeds: it applies, or the row is already there.
Admitted(st, ev) ==
    \/ C!Applies(st, ev)
    \/ /\ C!ValidCommandState(st) /\ C!EvidenceIsValid(ev)
       /\ IF ev.kind \in C!ReceiptKinds
          THEN st.command_received_at = ev.at /\ ev.at >= st.dispatched_at
          ELSE C!NotBeforeLatest(st, ev.at) /\ C!EvidenceTarget(ev) = st.status

Outcome(st, ev) == IF C!Applies(st, ev) THEN C!Candidate(st, ev) ELSE st

-----------------------------------------------------------------------------
Init ==
    /\ commands = [leg \in Legs |-> C!InitialCommandState]
    /\ events = {}
    /\ projection =
         [plan |-> [status |-> "Pending", updated_at |-> CreatedAt],
          legs |-> [leg \in Legs |-> [status |-> "Pending", updated_at |-> CreatedAt]]]

\* apply_command_delivery_transition of the outbound processor.
Deliver(leg, d, u) ==
    LET cs == [commands EXCEPT ![leg] = DeliveryState(commands[leg], d, u)]
        at == IF u = None THEN d ELSE u
    IN
    /\ Readable(projection)
    /\ DeliveryAdmitted(commands[leg], d, u)
    /\ cs # commands
    /\ Persists(projection, cs, events, at)
    /\ commands' = cs
    /\ projection' = Persisted(projection, cs, events, at)
    /\ UNCHANGED events

\* apply_command_expiry_transition of the outbound processor.
Expire(leg, at) ==
    LET cs == [commands EXCEPT ![leg] = C!Candidate(commands[leg], Evidence("Expire", at))]
    IN
    /\ Readable(projection)
    /\ commands[leg].status = "Created"
    /\ C!Applies(commands[leg], Evidence("Expire", at))
    /\ Persists(projection, cs, events, at)
    /\ commands' = cs
    /\ projection' = Persisted(projection, cs, events, at)
    /\ UNCHANGED events

\* handle_command_received of the inbound processor: a receipt that overtakes the
\* outbound transaction first records the dispatch it proves, with a projection
\* of its own.
Receive(leg, kind, d, at) ==
    LET fresh == commands[leg].status = "Created"
        cs1   == IF fresh
                 THEN [commands EXCEPT
                         ![leg] = C!Candidate(commands[leg], Evidence("Dispatched", d))]
                 ELSE commands
        p1    == IF fresh THEN Persisted(projection, cs1, events, d) ELSE projection
        ev    == Evidence(kind, at)
        cs2   == [cs1 EXCEPT ![leg] = Outcome(cs1[leg], ev)]
    IN
    /\ Readable(projection)
    /\ d <= at
    /\ fresh => /\ C!Applies(commands[leg], Evidence("Dispatched", d))
                /\ Persists(projection, cs1, events, d)
    /\ Admitted(cs1[leg], ev)
    /\ Persists(p1, cs2, events, at)
    /\ commands' = cs2
    /\ projection' = Persisted(p1, cs2, events, at)
    /\ UNCHANGED events

\* Variant: an event the lifecycle does not change is not projected.
ReportUnprojected(e) ==
    LET cs == [commands EXCEPT ![e.leg] = Outcome(commands[e.leg], EventEvidence(e))]
    IN
    /\ e \notin events
    /\ Readable(projection)
    /\ Admitted(commands[e.leg], EventEvidence(e))
    /\ commands' = cs
    /\ events' = events \cup {e}
    /\ UNCHANGED projection

\* handle_execution_event of the inbound processor.  A redelivery changes nothing.
Report(e) ==
    LET cs == [commands EXCEPT ![e.leg] = Outcome(commands[e.leg], EventEvidence(e))]
        es == events \cup {e}
    IN
    /\ e \notin events
    /\ Readable(projection)
    /\ Admitted(commands[e.leg], EventEvidence(e))
    /\ Persists(projection, cs, es, e.at)
    /\ commands' = cs
    /\ events' = es
    /\ projection' = Persisted(projection, cs, es, e.at)

Next ==
    \E leg \in Legs :
      \/ \E d \in Moments, u \in Moments \cup {None} : Deliver(leg, d, u)
      \/ Expire(leg, ExpiresAt)
      \/ \E kind \in C!ReceiptKinds, d, at \in Moments : Receive(leg, kind, d, at)
      \/ \E e \in EventsOf(leg) : Report(e)

Spec == Init /\ [][Next]_vars

-----------------------------------------------------------------------------
\* Types of the rows.
TypeOK ==
    /\ commands \in [Legs -> C!StateRows]
    /\ events \subseteq UNION {EventsOf(leg) : leg \in Legs}
    /\ projection \in [plan : Rows(PlanStatuses), legs : [Legs -> Rows(LegStatuses)]]

\* Whatever the two processors commit in whatever order, the stored leg and plan
\* statuses are exactly what project_plan computes from the stored command states
\* and execution events: no transition leaves the projection behind.
PlanIsProjection ==
    /\ LegStatusOf(projection) = ProjectLegs(commands, events)
    /\ projection.plan.status = DeriveStatus(ProjectLegs(commands, events))

\* The stored plan can always be read back (execution_plan_from_row accepts it),
\* so no later transaction about one of its legs fails on loading the plan.
PlanIsReadable == Readable(projection)

\* A plan that settled (COMPLETED, FAILED, CANCELLED, EXPIRED) is settled for good,
\* and a leg whose fill was stored stays filled: no later receipt, event, expiry or
\* delivery answer reopens a plan or takes back an exposure.
SettledIsFinal ==
    [][/\ projection.plan.status \in {"Completed", "Failed", "Cancelled", "Expired"} =>
             projection'.plan.status = projection.plan.status
       /\ FilledLegs(LegStatusOf(projection)) \subseteq FilledLegs(LegStatusOf(projection'))]_vars

\* When every leg has ended and some but not all were filled, decide_recovery
\* answers with a recovery, and a plan whose rollback mode is CLOSE_FILLED closes
\* exactly the legs with a reported fill.
ExposureIsRecovered ==
    LET ls     == LegStatusOf(projection)
        filled == {leg \in Legs : Reported(events, leg, "Filled")
                                    \/ Reported(events, leg, "PartiallyFilled")}
        Recovery(mode, policy) ==
            DecideRecovery(projection.plan.status, StoredFilledLegs(ls), mode, policy)
    IN
    /\ \A leg \in Legs : ls[leg] \in LegTerminal
    /\ filled # {} /\ filled # Legs
    => /\ \A mode \in {"CloseFilled", "None", "Unset"}, policy \in {"CancelAll", "PartialFill"} :
              Recovery(mode, policy).kind # "None"
       /\ Recovery("CloseFilled", "CancelAll") = Decision("CloseFilled", filled)

\* Evidence transition_command admits commits: the projector, the validator, the
\* compare-and-set and the read-back of the bundle never refuse it.  This is about
\* every execution event the client reports except a partial fill.
EvidenceCommits(statuses) ==
    \A leg \in Legs : \A e \in EventsOf(leg) :
        (e.status \in statuses /\ Admitted(commands[leg], EventEvidence(e)))
        => LET cs == [commands EXCEPT ![leg] = Outcome(commands[leg], EventEvidence(e))]
           IN Persists(projection, cs, events \cup {e}, e.at)

\* Every execution event the lifecycle admits, a partial fill aside, passes the
\* projector, the versions of update_execution_lifecycle_on, the plan's validator
\* and the read-back, so that its transaction commits.
AdmittedEventsCommit == EvidenceCommits(C!EventStatuses \ {"PartiallyFilled"})

\* A partial fill the lifecycle admits is recorded: the plan becomes PARTIAL with
\* the leg among its filled_legs.
PartialFillsCommit == EvidenceCommits({"PartiallyFilled"})

=============================================================================
