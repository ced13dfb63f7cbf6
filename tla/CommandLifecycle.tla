-------------------------- MODULE CommandLifecycle --------------------------
(***************************************************************************)
(* The lifecycle of one execution command: the state machine of            *)
(* crates/execution/src/state.rs and the compare-and-swap with which the   *)
(* State Store persists its result (crates/store/src/repository.rs).       *)
(*                                                                         *)
(* `state' is the row of execution_command_states.  An owner that works in *)
(* one write transaction (the inbound and the outbound processor) loads,   *)
(* transitions and persists in one step: Apply.  An owner that derives its *)
(* transition from an earlier snapshot (the reconciliation domain returns  *)
(* expected_status and expected_updated_at with each transition) loads in  *)
(* one step and persists in another: Load, Persist.                        *)
(***************************************************************************)
EXTENDS Integers

CONSTANTS
    CreatedAt,      \* created_at of the command and of its state row
    ExpiresAt,      \* command.expires_at
    MaxTime,        \* bound: evidence timestamps range over 0..MaxTime
    Owners          \* the holders of a snapshot outside a transaction

ASSUME TimeAssumption ==
    /\ CreatedAt \in Nat
    /\ ExpiresAt \in Nat
    /\ MaxTime \in Nat
    /\ CreatedAt < ExpiresAt

\* Option::None of a timestamp; every stored timestamp is non-negative.
None == -1

Times == 0 .. MaxTime

Statuses ==
    {"Created", "Dispatched", "DeliveryUnconfirmed", "DeliveryFailed",
     "Reconciling", "ManualReconciliationRequired", "CommandReceived",
     "Accepted", "Rejected", "OrderSent", "PartiallyFilled", "Filled",
     "Failed", "Expired", "Cancelled"}

Terminal == {"DeliveryFailed", "Rejected", "Filled", "Failed", "Expired", "Cancelled"}

EventStatuses ==
    {"Accepted", "OrderSent", "Rejected", "Filled", "PartiallyFilled",
     "Failed", "Expired", "Cancelled"}

FillStatuses == {"Filled", "PartiallyFilled"}

StateRows ==
    [status : Statuses, delivery_attempts : Nat, has_error : BOOLEAN,
     dispatched_at : Int, command_received_at : Int, reconciling_at : Int,
     completed_at : Int, updated_at : Int]

(***************************************************************************)
(* Evidence.  `ok' abstracts the checks on identity, inbox status, price   *)
(* and quantity fields and on the error text; timestamps are kept.         *)
(***************************************************************************)
PlainKinds ==
    {"Dispatched", "DeliveryUnconfirmed", "BeginReconciliation",
     "RequireManualReconciliation", "Expire", "Cancel"}

ReceiptKinds == {"ReceivedRecorded", "ReceivedDuplicate"}

Evidence ==
    [kind : PlainKinds \cup ReceiptKinds, at : Times, ok : BOOLEAN,
     status : {"Created"}, filled_at : {None}]
    \cup
    [kind : {"ExecutionEvent"}, at : Times, ok : BOOLEAN,
     status : EventStatuses, filled_at : Times \cup {None}]

EvidenceTarget(ev) ==
    CASE ev.kind = "Dispatched"                  -> "Dispatched"
      [] ev.kind = "DeliveryUnconfirmed"         -> "DeliveryUnconfirmed"
      [] ev.kind = "BeginReconciliation"         -> "Reconciling"
      [] ev.kind = "RequireManualReconciliation" -> "ManualReconciliationRequired"
      [] ev.kind = "Expire"                      -> "Expired"
      [] ev.kind = "Cancel"                      -> "Cancelled"
      [] ev.kind \in ReceiptKinds                -> "CommandReceived"
      [] ev.kind = "ExecutionEvent"              -> ev.status

\* validate_execution_event: a fill carries filled_at, nothing else does, and
\* filled_at does not follow event_at.
EventIsValid(ev) ==
    /\ (ev.status \in FillStatuses) <=> (ev.filled_at # None)
    /\ ev.filled_at # None => ev.filled_at <= ev.at

\* The checks of evidence_target and the first two of transition_command.
EvidenceIsValid(ev) ==
    /\ ev.ok
    /\ ev.kind \in {"Dispatched", "ReceivedRecorded"} => ev.at < ExpiresAt
    /\ ev.kind = "Expire" => ev.at >= ExpiresAt
    /\ ev.kind = "ExecutionEvent" => EventIsValid(ev)
    /\ ev.filled_at # None => ev.filled_at >= CreatedAt
    /\ ev.at >= CreatedAt

(***************************************************************************)
(* validate_command_state and the transition table.                        *)
(***************************************************************************)
RequiresDispatch == Statuses \ {"Created", "DeliveryFailed", "Expired", "Cancelled"}

ValidCommandState(st) ==
    /\ st.updated_at >= CreatedAt
    /\ (st.status \in Terminal) <=> (st.completed_at # None)
    /\ \A t \in {st.dispatched_at, st.command_received_at,
                 st.reconciling_at, st.completed_at} :
           t # None => CreatedAt <= t /\ t <= st.updated_at
    /\ st.status = "Created" =>
           /\ st.delivery_attempts = 0
           /\ st.dispatched_at = None
           /\ st.command_received_at = None
           /\ st.reconciling_at = None
    /\ (st.dispatched_at # None) <=> (st.delivery_attempts > 0)
    /\ st.status \in RequiresDispatch => st.dispatched_at # None
    /\ st.status = "DeliveryUnconfirmed" => st.has_error
    /\ st.status \in {"Reconciling", "ManualReconciliationRequired"} =>
           st.reconciling_at # None
    /\ st.status \in {"CommandReceived", "Accepted", "Rejected"} =>
           st.command_received_at # None

AllowedTargets(from) ==
    CASE from = "Created"             -> {"Dispatched", "Expired", "Cancelled"}
      [] from = "Dispatched"          -> {"CommandReceived", "DeliveryUnconfirmed",
                                          "Expired", "Cancelled"}
      [] from = "DeliveryUnconfirmed" -> {"Reconciling", "CommandReceived",
                                          "ManualReconciliationRequired",
                                          "Expired", "Failed"}
      [] from = "Reconciling"         -> {"CommandReceived", "OrderSent",
                                          "PartiallyFilled", "Filled",
                                          "ManualReconciliationRequired",
                                          "Failed", "Expired"}
      [] from = "ManualReconciliationRequired" ->
                                         {"CommandReceived", "OrderSent",
                                          "PartiallyFilled", "Filled",
                                          "Failed", "Expired", "Cancelled"}
      [] from = "CommandReceived"     -> {"Accepted", "Rejected", "Cancelled", "Expired"}
      [] from = "Accepted"            -> {"OrderSent", "Rejected", "Failed",
                                          "Cancelled", "Expired"}
      [] from = "OrderSent"           -> {"PartiallyFilled", "Filled",
                                          "Cancelled", "Failed"}
      [] from = "PartiallyFilled"     -> {"Filled", "Failed", "Cancelled"}
      [] from \in Terminal            -> {}

TransitionIsAllowed(from, to) == to \in AllowedTargets(from)

\* latest_lifecycle_evidence_at: no lifecycle timestamp follows t.
NotBeforeLatest(st, t) ==
    /\ t >= CreatedAt
    /\ t >= st.dispatched_at
    /\ t >= st.command_received_at
    /\ t >= st.reconciling_at
    /\ t >= st.completed_at

\* The version of a row: strictly above the previous one, at least the evidence.
NextVersion(st, t) == IF t > st.updated_at + 1 THEN t ELSE st.updated_at + 1

(***************************************************************************)
(* apply_receipt_evidence: command.received may overtake or be overtaken.  *)
(***************************************************************************)
LateReceiptStatuses ==
    {"Reconciling", "ManualReconciliationRequired", "Accepted", "Rejected",
     "OrderSent", "PartiallyFilled", "Filled", "Failed"}

ReceiptApplies(st, ev) ==
    /\ st.dispatched_at # None => ev.at >= st.dispatched_at
    /\ st.command_received_at = None
    /\ \/ TransitionIsAllowed(st.status, "CommandReceived")
       \/ st.status \in LateReceiptStatuses

\* Variant: a late receipt sets the status it stands for.
ReceiptDemotes(st, ev) ==
    [st EXCEPT !.status = "CommandReceived",
               !.command_received_at = ev.at,
               !.updated_at = NextVersion(st, ev.at)]

AfterReceipt(st, ev) ==
    [st EXCEPT !.status = IF TransitionIsAllowed(st.status, "CommandReceived")
                          THEN "CommandReceived" ELSE st.status,
               !.command_received_at = ev.at,
               !.updated_at = NextVersion(st, ev.at)]

(***************************************************************************)
(* The rest of transition_command.                                         *)
(***************************************************************************)
AdvanceApplies(st, ev) ==
    /\ NotBeforeLatest(st, ev.at)
    /\ EvidenceTarget(ev) # st.status
    /\ ev.kind \in {"Expire", "Cancel"} => st.status = "Created"
    /\ TransitionIsAllowed(st.status, EvidenceTarget(ev))

\* Variant: only begin_reconciliation stamps reconciling_at.
AdvanceForgetsManual(st, ev) ==
    [st EXCEPT
       !.status = EvidenceTarget(ev),
       !.updated_at = NextVersion(st, ev.at),
       !.delivery_attempts = IF ev.kind = "Dispatched"
                             THEN st.delivery_attempts + 1 ELSE st.delivery_attempts,
       !.dispatched_at = IF ev.kind = "Dispatched" THEN ev.at ELSE st.dispatched_at,
       !.has_error = IF ev.kind = "Dispatched" THEN FALSE
                     ELSE ev.kind = "DeliveryUnconfirmed" \/ st.has_error,
       !.reconciling_at = IF ev.kind = "BeginReconciliation"
                          THEN ev.at ELSE st.reconciling_at,
       !.completed_at = IF EvidenceTarget(ev) \in Terminal
                        THEN ev.at ELSE st.completed_at]

AfterAdvance(st, ev) ==
    [st EXCEPT
       !.status = EvidenceTarget(ev),
       !.updated_at = NextVersion(st, ev.at),
       !.delivery_attempts = IF ev.kind = "Dispatched"
                             THEN st.delivery_attempts + 1 ELSE st.delivery_attempts,
       !.dispatched_at = IF ev.kind = "Dispatched" THEN ev.at ELSE st.dispatched_at,
       !.has_error = IF ev.kind = "Dispatched" THEN FALSE
                     ELSE ev.kind = "DeliveryUnconfirmed" \/ st.has_error,
       !.reconciling_at =
           IF /\ ev.kind \in {"BeginReconciliation", "RequireManualReconciliation"}
              /\ st.reconciling_at = None
           THEN ev.at ELSE st.reconciling_at,
       !.completed_at = IF EvidenceTarget(ev) \in Terminal
                        THEN ev.at ELSE st.completed_at]

\* The row transition_command computes before it validates it once more.
Candidate(st, ev) ==
    IF ev.kind \in ReceiptKinds THEN AfterReceipt(st, ev) ELSE AfterAdvance(st, ev)

\* Every check of transition_command on the way to the candidate row passes.
ChecksPass(st, ev) ==
    /\ ValidCommandState(st)
    /\ EvidenceIsValid(ev)
    /\ IF ev.kind \in ReceiptKinds THEN ReceiptApplies(st, ev) ELSE AdvanceApplies(st, ev)

\* The outcome is CommandTransitionOutcome::Applied(Candidate(st, ev)).  The two
\* other results of the call, Duplicate and an error, leave the row as it is.
Applies(st, ev) == ChecksPass(st, ev) /\ ValidCommandState(Candidate(st, ev))

-----------------------------------------------------------------------------
VARIABLES
    state,      \* the row of execution_command_states
    held        \* owner -> the row it loaded last

vars == <<state, held>>

\* initial_command_state
InitialCommandState ==
    [status |-> "Created", delivery_attempts |-> 0, has_error |-> FALSE,
     dispatched_at |-> None, command_received_at |-> None,
     reconciling_at |-> None, completed_at |-> None, updated_at |-> CreatedAt]

Init ==
    /\ state = InitialCommandState
    /\ held = [o \in Owners |-> InitialCommandState]

\* Variant: the newest version wins.
CasLastWriterWins(from, next) == state.updated_at < next.updated_at

\* The WHERE clause of update_execution_command_state_on for a row computed
\* from the snapshot `from'.
CasSucceeds(from, next) ==
    /\ state.status = from.status
    /\ state.updated_at = from.updated_at
    /\ state.updated_at < next.updated_at

\* persist_command_transition inside one write transaction.
Apply(ev) ==
    /\ Applies(state, ev)
    /\ CasSucceeds(state, Candidate(state, ev))
    /\ state' = Candidate(state, ev)
    /\ UNCHANGED held

Load(o) ==
    /\ held' = [held EXCEPT ![o] = state]
    /\ UNCHANGED state

\* A transition derived from the snapshot is persisted.  When the row moved on
\* the write is stale and nothing changes, unless the row already is the result
\* (the idempotent replay), which the owner then holds.
Persist(o, ev) ==
    LET next == Candidate(held[o], ev) IN
    /\ Applies(held[o], ev)
    /\ CasSucceeds(held[o], next) \/ state = next
    /\ state' = next
    /\ held' = [held EXCEPT ![o] = next]

Next ==
    \/ \E ev \in Evidence : Apply(ev)
    \/ \E o \in Owners : Load(o)
    \/ \E o \in Owners, ev \in Evidence : Persist(o, ev)

Spec == Init /\ [][Next]_vars

-----------------------------------------------------------------------------
\* Types of the row and of the snapshots.
TypeOK ==
    /\ state \in StateRows
    /\ held \in [Owners -> StateRows]

\* Every persisted row passes validate_command_state, so that no later
\* transition_command fails on the row it loads; and the lifecycle dispatches
\* a command at most once, whatever evidence arrives in whatever order.
RowStaysValid ==
    /\ ValidCommandState(state)
    /\ state.delivery_attempts <= 1

\* The validation at the end of transition_command never rejects evidence that
\* passed all the checks before it: the table, the receipt rules and the
\* validator agree, so no admissible evidence is turned into an error there.
ValidatorAgrees ==
    \A ev \in Evidence : ChecksPass(state, ev) => ValidCommandState(Candidate(state, ev))

\* What a lifecycle phase is worth: no step may go down.
Rank(status) ==
    CASE status = "Created"             -> 0
      [] status = "Dispatched"          -> 1
      [] status = "DeliveryUnconfirmed" -> 2
      [] status = "Reconciling"         -> 3
      [] status = "ManualReconciliationRequired" -> 4
      [] status = "CommandReceived"     -> 5
      [] status = "Accepted"            -> 6
      [] status = "OrderSent"           -> 7
      [] status = "PartiallyFilled"     -> 8
      [] status \in Terminal            -> 9

\* A late receipt or a reordered event never moves the command back to a weaker
\* phase, and a terminal command keeps its status and its completion time.
NeverRegresses ==
    [][ /\ Rank(state'.status) >= Rank(state.status)
        /\ state.status \in Terminal =>
               /\ state'.status = state.status
               /\ state'.completed_at = state.completed_at ]_vars

\* Evidence that is recorded stays: a stale owner that persists after a receipt,
\* a dispatch or a reconciliation was recorded cannot erase or change it.
EvidenceNeverLost ==
    [][ /\ state.dispatched_at # None => state'.dispatched_at = state.dispatched_at
        /\ state.command_received_at # None =>
               state'.command_received_at = state.command_received_at
        /\ state.reconciling_at # None =>
               state'.reconciling_at = state.reconciling_at ]_vars

\* No lost update: a row that changes is the result of transition_command on the
\* row it replaces, never on an older snapshot, and its version goes up.
NoLostUpdate ==
    [][ state' # state =>
          /\ state'.updated_at > state.updated_at
          /\ \E ev \in Evidence : Applies(state, ev) /\ state' = Candidate(state, ev) ]_vars
=============================================================================
