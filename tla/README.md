# A verification project for the Sinan trading core

Sinan turns trade intents into commands that a remote Execution Client carries
out at a broker. An intent may only be approved on evidence that covers what is
already at stake. A command must be delivered at most once, its life cycle must
survive late and repeated evidence, and an uncertain delivery must never be
resolved by sending again. What the client reports must be stored before it is
answered, consumed once, and folded into tables that do not depend on the order
of arrival. These modules model that path from the intake of an intent to the
reconciliation of its outcome. TLC checks them on small instances, and TLAPS
proves the safety results for every size.

Paths are relative to `src/crates/` unless they begin with `docs/`.

## The system

| Part | Code | Does |
| --- | --- | --- |
| Control plane | `core/src/control_plane.rs`, `http` | takes intents, idempotently |
| Risk | `risk/src/evaluator.rs`, `core/src/risk_workflow.rs`, `store/src/risk_*.rs` | decides an intent on a snapshot of the evidence, sizes it, writes the plan and its commands |
| Circuit breaker | `risk/src/circuit_breaker.rs`, `core/src/circuit_breaker_durable.rs`, `store/src/repository.rs` | opens on violations, closes in two steps; its state is a log of snapshots |
| Plans | `execution/src/builder.rs`, `projector.rs`, `store/src/repository.rs` | the plan and leg rows derived from the commands |
| Command life cycle | `execution/src/state.rs`, `store/src/repository.rs` | applies dispatch, receipts, execution events and manual decisions to a command row |
| Outbound work | `core/src/outbound_processor.rs`, `store/src/outbound_work.rs` | durable rows with leases; a worker claims one, calls the delivery port and commits the answer |
| Delivery port | `execution/src/delivery.rs` | the contract between core and gateway |
| Gateway | `gateway/src/outbound.rs`, `session.rs`, `registry.rs`, `connection.rs`, `writer.rs`, `store/src/gateway_delivery.rs` | reserves a sequence, writes the outbox and the attempt, claims, writes, records, replays; sessions |
| Inbound | `gateway/src/inbound.rs`, `durable_inbound.rs`, `store/src/inbound_durability.rs`, `core/src/inbound_processor.rs` | durable admission, leased handling, deadletters |
| Projections | `store/src/projection.rs` | the newest observation per key, bars, rebuild from the event log |
| Reconciliation | `reconciliation`, `store/src/reconciliation.rs` | runs that resolve uncertainty, full sets, checkpoints |
| Event stream | `events`, `store/src/event_stream.rs`, `http/src/events_ws.rs` | durable log, replay then live |

Every write goes through a `BEGIN IMMEDIATE` transaction, so the models take one
write transaction as one step; a transaction that fails is rolled back and is no
step. Everything between two transactions (an await, a network write, a process
exit) may interleave.

## Modules

| Module | Models |
| --- | --- |
| `CommandLifecycle` | one command row, the evidence of `transition_command`, owners with stale snapshots |
| `DeliveryCalls` | who has called the delivery port about which message |
| `DeliveryPort` | abstract: what an answer of the port promises |
| `OutboundWork` | the work rows and the worker's transactions |
| `OutboundOverPort` | the workers over any port that keeps its promise |
| `GatewayDelivery` | the gateway behind the port; implements `DeliveryPort` |
| `OutboundOverGateway` | the workers over the gateway; implements `OutboundOverPort` |
| `Inbox` | abstract: an admitted item is consumed at most once |
| `InboundAdmission` | connections, the admission transaction and the answer to the client |
| `InboundRecovery` | the dispatcher of admitted items; implements `Inbox` |
| `CircuitBreaker` | what a request makes of a breaker state; which states a restart accepts |
| `BreakerPromise` | abstract: the history of the breaker's status and epoch |
| `BreakerLog` | the snapshot log and the processes that restore and move it; implements `BreakerPromise` |
| `StateProjections` | the projection tables of one account and the events folded into them |
| `ReconciliationRuns` | runs, results, escalation, and every check made when a row is read back |
| `ProjectionRebuild` | the rebuild of the tables from the event log |
| `PositionSizing` | the sizing of an intent's legs as operators |
| `RiskWorkflow` | intake, selection, evaluation and commit of intents, and the broker around them |
| `ExecutionPlans` | the plan and leg rows of one plan, projected from its commands |
| `...Proofs` | theorems; `GatewayProofs` for the gateway and the whole outbound path, `ReconciliationProofs` for the projections and the runs |
| `MC...` | instances for TLC |

### CommandLifecycle

`state` is the row of `execution_command_states` with its timestamps. An owner
that works inside one write transaction loads, transitions and persists in one
step (`Apply`). One that derives its transition from an earlier snapshot reads in
one step (`Load`) and writes in another (`Persist`), under the compare-and-set of
`update_execution_command_state_on`. Evidence of every kind may come at any time,
with any timestamp, any number of times. The transition table, the late receipts,
the monotone timestamps and `validate_command_state` are translated case by case.

### DeliveryCalls, DeliveryPort, OutboundWork

A message is one *generation* of a subject (a command or a reconciliation
request); its message id is derived from both. `fate` says what became of the
message's bytes: `open`, `started`, `written` or `not_written`. The port may
answer what is true of the fate and will stay true. Core's processor uses no
other knowledge of the gateway.

`work` is a row of `outbound_delivery_work`, `status` the business row of the
subject. A timestamp is kept only as the comparison made with it: `leased` is
whether the lease still runs. A retry may come at once, since a back-off only
delays it. `Claim` is `claim_next_on` with the decision of `process_next`;
`Commit` is `finish_command` or `finish_reconciliation`; `RollBack` is the failure
of `validate_owned_work`, `StoreFails` any other failed transaction. The claim
order is free.

### GatewayDelivery, OutboundOverGateway

`delivery` is the pair of `wire_outbox` and `command_delivery_attempts` rows of a
message, `session` the durable session rows, `live` the process-local handles,
`guard` the activation mutex, `sink` the frame in the transport, `stage` where a
call is. `Prepare`, `ClaimOutbox`, `HandOver`, `Transmit` and `FinishWrite` are the
steps of one delivery; a session can be replaced, closed or go stale and the
process can restart between any two of them. The clock is read before the write
transaction is obtained, so a check against `expires_at` may see the past: `Reads`
gives both values once the time has come.

In the composition claiming enters the adapter; receipts, execution events and
reconciliation results come only from a client that has seen the message. Faults
(restart, failed transaction, failed activation or close, a lease that ends under
its owner) are counted up to `MaxFaults`.

### Inbox, InboundAdmission, InboundRecovery

`row` holds the rows of `inbound_admissions` and `session_resume_admissions`,
`rejections` those of `inbound_rejections`, `conn` a connection with its
`last_inbound_sequence` and the message it has at hand, `answers` the transport
acks that reached the client. The admission of a message (`Receive`, `Admit`,
`Answer`) can end at any await: before the commit (`Drop`) or after it
(`AdmitUnanswered`). A client may send a message again at any time, on the same
connection or another. The envelope holds the session and the sequence number, so
a message sent again is a conflict and is answered REJECTED although it is stored.

A dispatcher goes through the items of a batch. The handler runs in a write
transaction that also finishes the row, so its success is one step (`Complete`). A
rejection or a time-out (`GiveUp`) rolls it back and reads the clock; `Fail` then
finishes the row in another transaction, with a deadletter if the handler rejected
a message. `facts` counts how often the effects of a handler were committed. An
infrastructure error (`Abort`) ends the batch and leaves the row to its lease.
What the handlers write is modelled in the modules of those rows.

### CircuitBreaker, BreakerLog

`Transition` is `CircuitBreaker::transition`, a function of a policy, a state, a
request and the time; a violation is the evidence its fingerprint is made of. Of
the log only `head`, the newest row, is ever read. A process restores it (`Read`,
validation, fallback to an open state, write of the fallback), then moves it on;
a write carries the revision that was read, and a refused one sends the process
back to reading. Clocks may be set back, a row may be damaged, processes die
between any two transactions. `transition` has no caller in production yet, so
`Step` is the caller its documentation asks for, and is marked external.
A store that cannot be read is a process that does not come up. Stored epochs are
`i64`, so the overflow branch of the `u64` epoch is not reachable from a stored row.

### StateProjections, ReconciliationRuns, ProjectionRebuild

`log` is the set of snapshot and result events, `tables` the latest rows, the bars,
the members of the last full set and the checkpoint. One account is modelled,
since no statement joins two. `Ingest` appends an event and applies it, again if it
was delivered before. `CommitResult` is `commit_reconciliation_result_on` with the
evaluation of the handler and every check made on the way, the checks of the
stored run and checkpoint included (`RunReadsBack`, `CheckpointReadsBack`).
`CommandMoves` lets the commands change while a run is open. `ProjectionRebuild`
replays the log in arrival order, which need not be the order of the commits, and
rolls back at the first contradiction. In production the handler always passes
`symbol_metadata_complete = false`; both values are modelled.

### PositionSizing, RiskWorkflow

`accepted` are the stored intents, `results` the risk results, `commands` the
commands of approved plans as the evaluator sees them, `checkpoint`, `account`,
`capacity`, `breaker` the evidence, `broker` the truth at the broker, `reports`
and `facts` what is on its way to the core. `Approve` and `Reject` are
`process_next` with the whole of `evaluate_inner`, in the code's order of checks,
and the transaction that writes the result, the plan and its commands. Amounts are
integers in their smallest unit and scales exact fractions; the code rounds
decimals at the 28th digit and re-checks the result. `Ties` says whether events
that depend on each other's order may fall into one millisecond; `Schedule` only
thins out the times at which TLC lets things happen.

### ExecutionPlans

Two processes rewrite a plan with every transition of one of its commands: each
step loads the plan, moves a command by `CommandLifecycle`, projects the plan
(`project_plan`), writes it under its version and reads it back. `decide_recovery`
is evaluated in every state.

## Runs

| Run | Checks | Shows |
| --- | --- | --- |
| `command_lifecycle` | `ValidatorAgrees`, `NeverRegresses`, `EvidenceNeverLost` | no order of evidence and stale writers takes a command back, loses evidence or meets a refusal of the store's own validator |
| `outbound_over_port` | `AtMostOneGenerationLeaves`, `DispatchedMeansWritten`, `ExpiredNeverLeaves`, `NoCommandAbandoned`, `UnconfirmedIsReconciled` | retries never duplicate a command; rows tell the truth about what left; nothing is given up silently |
| `gateway_delivery` | `ReplayMatrixIsTotal`, `HandedOverOnce`, `OneSessionPerRoute`, `ImplementsPort` | the gateway keeps the port's promise through replacement, close and restart |
| `gateway_inflight` | `InflightIsBounded` | the inflight window of a session holds |
| `outbound_over_gateway` | `ClaimsAreReleased`, `EveryCommandIsSettled`, `ImplementsOutboundOverPort` | the composition implements the abstract one, and nothing stays claimed or pending for ever |
| `resumed_run` | `SupersededWorkEnds` | the request of a resumed run ends once the run is answered |
| `inbound_recovery` | `DeadlettersExplainFailures`, `AnswersAreDurable`, `SessionOrder`, `InboxSpec`, `StoredIsFinished` | an answer is never ahead of the database, an item is consumed once and in order, a rejection leaves its deadletter, nothing stored is left behind |
| `breaker_log` | `HoldsTheHead`, `StoredStateIsRestorable`, `KeepsPromise` | two processes never disagree about the newest state, every stored state restores, an incident ends only through half-open |
| `reconciliation` | `LatestIsNewest`, `RedeliveryIsHarmless`, `StoredReadsBack`, `RebuildReproducesTables`, `RunsOnlyAdvance`, `WatermarksNeverRegress` | tables, checkpoint and runs depend on what arrived, not on the order; a rebuild gives the same tables |
| `risk_workflow` | `CapacityIsNeverOverspent`, `OnePlanPerSymbol`, `SizingIsLargest`, `ApprovalsFitTheBroker` | late and stale evidence never lets an approval overspend the policy, the capacity or the broker's account |
| `execution_plans` | `PlanIsProjection`, `PlanIsReadable`, `ExposureIsRecovered`, `AdmittedEventsCommit`, `SettledIsFinal` | a plan is always what its commands say, and every admitted event commits |
| `partial_fill` | `PartialFillsCommit` | violated, see below |

Bounds, and why they are enough for the questions asked. A stale owner and a
transactional one meet in `command_lifecycle`: one owner with a snapshot, while
`Apply` stands for all the others. Two workers suffice for a stale and a current
owner of a row. Three generations give a retry of a retry under a new message id.
Two sessions give one replacement; `MaxInflight` 1 and two commands fill the
window. The composed runs have one worker and one session, since the interference
of two of each is covered by the component runs and their refinement; one fault
puts a crash, a lost lease or a failed commit at every point. In the inbound run
two messages and one cursor share a session with two sequence numbers, a batch
holds two, and one fault is a crash, a failed transaction or a lease outlived. The
breaker has two processes, four revisions, one damaged row, and requests that
reach every branch of `transition`. The log of `reconciliation` holds three events,
chosen from nine snapshots and six results that agree, overlap, arrive late or
contradict each other, for three requests (account-wide, targeted, routed). In
`risk_workflow` a single-leg and a two-leg intent compete for limits that allow
either but not both, and a third one never trades. Plans have two legs. Where a
generation bound ends a subject, `OutOfGenerations` says so in the liveness
properties. `CHECK_DEADLOCK FALSE` is set because all these instances come to rest
when their bounded supply of messages, times or generations is used up.
Symmetry is used only in runs without liveness properties, over sets whose members
no definition tells apart.

Fairness. Weak fairness is assumed of the dispatcher's steps (it is polled on an
interval and a handler has a time-out), of the worker's own steps (it polls and
awaits every call), of the transport writer (writes have a time-out), of lease
expiry and of the clock reaching `expires_at`. Nothing is assumed of the client, of
connections, or of faults.

`EveryCommandIsSettled` has an exception by name: a send that was claimed in time
and completed after `expires_at` is refused by `validate_delivery_evidence`, and
every retry replays the same durable evidence. `SessionOrder` excepts messages of
one millisecond, which are handled in the order of their ids, and holds as long as
no fault has let a later row overtake one that waits for its lease.

## Finding

`partial_fill`: `execution_plan_from_row` (`store/src/repository.rs:1226`) counts the
FILLED legs when it rebuilds `filled_legs`; `ExecutionPlan::validate`
(`types/src/dto.rs:861`) and `project_plan` count PARTIALLY_FILLED ones as well. The
update of a plan ends with that read (`repository.rs:1759`), so the transaction of a
partial fill is always rolled back. The inbound processor treats the error as
retryable (`core/src/inbound_processor.rs:968`), and the retry ends the same way.
`AdmittedEventsCommit` therefore excepts partial fills, and holds for everything
else.

## Observations

Things a reader of the models will notice, none of them stated otherwise by a line
of the repository that a run could be held against, or outside what the models
tell apart.

* A receipt overtaken by an EXPIRED or CANCELLED event is refused as an invalid
  transition; the comment at `execution/src/state.rs:237` speaks of preserving the
  stronger life cycle and recording the receipt.
* When a session is lost after dispatch, only the delivery attempt changes
  (`store/src/gateway_delivery.rs:1859`); nothing marks the command
  DELIVERY_UNCONFIRMED, which `docs/quant_trading_7_layer_target_architecture.md:2193`
  asks for.
* A rebuild can be refused where the live writes were not: account observations X
  at time 1, Z at 2, then Y at 1 are accepted live, because Y is older than the row,
  and contradict each other in the replay. `RebuildReproducesTables` says exactly
  this: a rebuild fails only on two account or symbol observations of one moment.
* A routed account-wide run counts commands that were handed out over the route
  although they name another client; its result is then refused
  (`reconciliation/src/validation.rs:512`) and the run stays REQUESTED. A command
  that changed after the result arrived has the same effect.
* Intake checks the times of an intent before it looks for a duplicate
  (`core/src/control_plane.rs:166`), so a retry outside the window is refused. A
  slightly future `requested_at` passes intake and is rejected by the evaluator.
  Stale evidence rejects an intent for good. An intent whose decision fails with an
  error is chosen again first, and those behind it wait.
* With `Ties = TRUE` a command that changes in the millisecond of a report counts as
  covered by it (`store/src/risk_snapshot.rs:75`), and `ApprovalsFitTheBroker` fails;
  a capacity assembled in the millisecond of an approval would be counted twice.
* No production caller exists for `transition`, the escalations, the rebuilds,
  `decide_recovery`, `timeout_delivery_attempt` and the capacity recorder; no
  production run satisfies `pending_commands_reconciled_at`; leg dependencies are
  never consulted by the outbound claim (`store/src/outbound_work.rs:188`).

## Proofs

Each theorem holds for every value of the constants that satisfies the module's
ASSUMEs. Those are well-formedness conditions (numbers are naturals, keys of different
kinds differ, a result names a request), checked by TLC on every run.

**Command life cycle.** `LifecycleIsMonotone`, `EvidenceIsKept`, `ValidatorAlwaysAgrees`,
`RowsAreValid`, `UpdatesAreNotLost`, for any owners and times. The invariant adds that a
snapshot is itself a valid row, and that it is the row or has an older `updated_at`.
Without the second, a compare-and-set on `updated_at` would say nothing about the
rest of the row.

**Outbound over the port.** `NoDuplicateDelivery`, `ExpiredStaysHome`, `DispatchedWasWritten`,
`NothingIsAbandoned`, `UnconfirmedHasItsRun`, `GenerationsAreSettled`, for any workers,
subjects and generations. The invariant adds that the port has seen no generation
beyond the row's, that a worker still owning its row called about the row's
generation, and that an answer not yet committed is still true. The key step is a
retry with a new generation: the answer that allows it says `not_written`, which is
final.

**Gateway and the whole path.** `GInv` relates the outbox row, the attempt, the frame
and the stage of every call: which combinations of rows exist (`RowsFit`), that a row
was submitted, that one worker at most is past the claim (`OneWriter`), and how
handles, the activation mutex and session rows agree (`SessionsFit`). From it follow
`ReplayIsTotal`, `FramesAreHandedOverOnce`, `RoutesHaveOneSession` and, since every step
moves the fate of a message only forward, `GatewayImplementsPort`. `WindowsAreBounded`
needs that a step either adds nothing to any window or adds one message to a window
that is not full. `PathImplementsOutboundOverPort` is the refinement of the composition;
with it the theorems about the abstract port hold of the gateway's own rows
(`PathKeepsPromise`, `ClientSeesOneFrame`, `PathKeepsWindows`).

**Inbound.** `AnsweredIsDurable`, `FailureIsExplained`, `ImplementsInbox`. The invariant adds that
the facts of an item are committed exactly when its row is HANDLED, that the rows of
a session are behind its connection, that the answer at hand already holds, and that
a busy worker has an item. `SessionsAreInOrder` assumes one worker, as the code runs it,
and uses that without faults a lease is held until its row is finished (`OrderInv`).
The other theorems do not even assume that worker ids differ.

**Circuit breaker.** `HeadIsHeld` and `LogKeepsPromise` follow from what a transition may do to
status and epoch, and from an invariant that ties what a process holds to the revision
it read. `StoredIsRestorable` goes through `validate_restored_state` check by check: the
violations a transition collects are a catalogue (each kind at most once, every
trigger filled in), and a transition of a good state is good. It assumes that the
value that stands for None is no sequence (`NoneIsNoSequence`).

**Projections and runs.** The theorems are about `RebuildSpec`: the tables may be rebuilt between
any two writes. `TablesInv` says what the tables are as a function of the events in the
log, not of their order (`Projects`, `BarsOf`): the code decides by the watermark of the
checkpoint whether a row may be replaced, and that watermark is the time of the last
full set in the log. `LatestAlwaysNewest` and `RedeliveryAlwaysHarmless` follow, and
`WatermarksAdvance` and `RunsAdvance` are the action properties. `StoredAlwaysReadsBack` needs
the events behind the columns: which result a run points at and which results vouch
for each time in the checkpoint (`ReadInv`). `StoreIsTyped` is type correctness.

`RebuildIsFaithful` is about a recursive function, the replay of a log of any length. What one
event adds to the tables is proved for any set of events. The events before an event
give it a rank, and the events of the first n ranks are a prefix; an induction along
the ranks (lemma `Induction`, from the well-foundedness of the subsets of a finite set)
shows that after n events the tables are those of that prefix, and that no write is
refused unless two account or symbol observations of one moment disagree. The events
determine the tables, so the rebuilt ones are the ones that were dropped. Hence a
rebuild is a stuttering step (`RebuildIsInvisible`: `RebuildSpec => Spec`), which is how the other
theorems carry over. Assumed are only the shapes of the messages: an event observes
known keys, ids and times are natural numbers (`FactsAreSnapshots`, `AnswersAreResults`,
`TicksAreTimed`, `IdsAreOrdered`, `TimesAreStored`, `RunTimesAreStored`).

**Risk.** `CapacityIsNeverOverspentAlways`, `BrokerAlwaysFits`, `ApprovalsAlwaysFit`,
`SizingAlwaysLargest`, `OnePlanAlways`, for any intents, legs, symbols, policies and any
order of reports, answers, capacities and decisions. All but the last assume `~Ties`:
with ties they are false. The proof has three layers. Sums over finite sets of
commands are developed first; the prover has no induction over data, so facts about
all finite sets go through a smallest counterexample (`MinimalSet`). Then sizing: one
scale that is the least of the caps, rounded down, keeps every sum within its cap, and
for one leg loses nothing. Last the invariant `RiskInv`: everything at stake, at the
broker or on its way there, fits the policy and the capacity (`StakesInv`); a report
shows all positions opened before its time (`ReportsInv`); the stored evidence came from
such reports (`EvidenceInv`). An approval keeps it because what the evaluator counts,
the reported positions and the commands changed since, covers all that is really
there (`EvidenceIsComplete`, `RoomIsReal`).

**Plans.** `PlanAlwaysProjection`, `PlanAlwaysReadable`, `PlanSettles`, `ExposureIsAlwaysRecovered`,
`AdmittedEventsAlwaysCommit`, for any number of legs. The invariant says that the plan is the
projection of its commands and that every leg's row fits its command; that an event
commits is then a calculation through the projector, the versions, the validator and
the read-back.

Only model-checked: the liveness properties `ClaimsAreReleased`, `EveryCommandIsSettled`,
`SupersededWorkEnds` and `StoredIsFinished`, since fairness is beyond the prover.

## Not modelled

* The event stream: a subsystem beside the trading path that no other part reads.
* The transport writer's sequences (reordering, skips, gap time-out), handshake,
  authentication, heartbeat pacing: a frame is written, partly written or dropped.
* The order in which due rows are claimed and the length of back-offs. `EveryCommandIsSettled`
  is about each subject by itself; starvation by a long queue is outside it.
* The validators of the stored plan graph, currency conversion, the 28th digit of a
  decimal, `trade_intents.status`, which is written once and not updated.
* The identity mismatch rejection of the adapter and `timeout_delivery_attempt`, which
  no production caller can reach.
* Wire protocol, signatures, JSON, HTTP routing, configuration: conversions and
  library code that no property here is about. The database is trusted.
