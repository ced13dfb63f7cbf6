----------------------------- MODULE RiskWorkflow -----------------------------
(***************************************************************************)
(* The hard-risk workflow of one account: trade intents are accepted, the   *)
(* risk worker picks the oldest one whose evidence is complete, evaluates it *)
(* against that evidence, and commits the result together with the commands  *)
(* of an approval in one transaction (core/src/risk_workflow.rs,             *)
(* store/src/risk_snapshot.rs, risk/src/evaluator.rs,                        *)
(* execution/src/builder.rs, store/src/risk_capacity.rs).  Around it the     *)
(* commands are carried out at the broker, and reports of the broker's       *)
(* state arrive late.  Of a command's lifecycle (CommandLifecycle) and of the *)
(* projections (StateProjections) only what the workflow reads is kept.       *)
(***************************************************************************)
EXTENDS PositionSizing

CONSTANTS
    Intents,         \* intent ids, numbers in the order the database sorts them
    Symbols,
    Action(_),       \* the intent's action: BUY, SELL, CLOSE or HOLD
    LegsOf(_),       \* the BUY and SELL legs of an intent, each with a stop; none
                     \* for CLOSE and HOLD
    SymbolsNamed(_), \* the symbols of its legs, or its own
    RequestedAt(_), SignalExpiresAt(_),
    Metadata(_),     \* a symbol's metadata and prices
    Routes,          \* the symbols with a trusted execution route
    Policy,          \* the limits of the risk, strategy and execution policies
    Ties,            \* may two events that depend on their order share a millisecond?
    MaxTime, MaxReports, MaxCapacities,
    Schedule         \* when each kind of outside event may happen

Never == -1
Times == 0 .. MaxTime
Commands == UNION {{<<i, l>> : l \in LegsOf(i)} : i \in Intents}
SymbolOf(c) == c[2].symbol

\* Leg ids are unique in an intent; BUY and SELL intents have legs.
ASSUME IntentsAssumption ==
    /\ Intents \subseteq Nat
    /\ \A i \in Intents :
          /\ Action(i) \in {"BUY", "SELL", "CLOSE", "HOLD"}
          /\ (LegsOf(i) # {}) = (Action(i) \in {"BUY", "SELL"})
          /\ \A l, k \in LegsOf(i) : l.id = k.id => l = k
          /\ \A l \in LegsOf(i) : l.symbol \in SymbolsNamed(i)
          /\ SymbolsNamed(i) \subseteq Symbols

\* What prepare_legs lets through, and finitely many of everything.
ASSUME LegsAssumption ==
    /\ IsFiniteSet(Intents) /\ IsFiniteSet(Symbols)
    /\ \A i \in Intents :
          /\ IsFiniteSet(LegsOf(i))
          /\ \A l \in LegsOf(i) : /\ l.action \in {"BUY", "SELL"}
                                  /\ l.ratio \in Nat \ {0} /\ l.stop \in Nat \ {0}

\* validate_metadata_numbers, and the prices of a market snapshot; a negative cost
\* counts as none.
ASSUME MetadataAssumption ==
    \A s \in Symbols :
        LET m == Metadata(s)
        IN  /\ {m.bid, m.ask, m.tick, m.value, m.margin, m.min, m.max, m.step} \subseteq Nat \ {0}
            /\ {m.deviation, m.cost, m.stops} \subseteq Nat

ASSUME PolicyAssumption ==
    /\ MaxTime \in Nat
    /\ {Policy.maxLegs, Policy.maxPositions, Policy.accountRisk, Policy.riskPerTrade,
        Policy.symbolExposure, Policy.totalExposure, Policy.marginUsage, Policy.equity}
          \subseteq Nat

VARIABLES
    clock,
    accepted,    \* trade_intents
    results,     \* risk_results, by intent
    commands,    \* execution_commands and their states
    checkpoint,  \* the reconciliation checkpoint and its full sets
    partial,     \* when the newest single position or order was observed
    account,     \* account_snapshots_latest
    market,      \* when each symbol's market_snapshots row was observed
    facts,       \* risk_capacity_snapshots
    capacity,    \* risk_capacity_snapshots_latest
    breaker,     \* the stored circuit breaker: CLOSED, OPEN or no snapshot
    broker,      \* external: every command at the broker, and its answer on the way
    reports,     \* external: reconciliation results on their way
    drafts,      \* external: capacities computed and not yet recorded
    seen         \* external: when the terminal last observed the account

evidence == <<checkpoint, partial, account, market, facts, capacity, breaker>>
outside == <<broker, reports, drafts, seen>>
vars == <<clock, accepted, results, commands, evidence, outside>>

NoCommand == [standing |-> "NONE", updated |-> Never, expires |-> Never, lots |-> 0]
NoCapacity == [at |-> Never, legs |-> 0, risk |-> 0, halted |-> FALSE]
FullCapacity ==
    [at |-> 0, legs |-> Policy.maxLegs, risk |-> Policy.accountRisk, halted |-> FALSE]

\* A core starts with nothing known, or finds what an earlier one stored of an
\* account without positions.
Init ==
    /\ clock = 0
    /\ accepted = {}
    /\ results = [i \in Intents |-> "NONE"]
    /\ commands = [c \in Commands |-> NoCommand]
    /\ broker = [c \in Commands |-> [state |-> "NONE", at |-> Never]]
    /\ reports = {} /\ drafts = {} /\ partial = Never
    /\ \E at \in {Never, 0} :
          /\ checkpoint = [at |-> at, pending |-> at, positions |-> {}, orders |-> {}]
          /\ account = [at |-> at, margin |-> 0]
          /\ market = [s \in Symbols |-> at]
          /\ capacity = IF at = Never THEN NoCapacity ELSE FullCapacity
          /\ facts = IF at = Never THEN {} ELSE {capacity}
          /\ breaker = IF at = Never THEN "ABSENT" ELSE "CLOSED"
          /\ seen = at

Known == {c \in Commands : commands[c].standing # "NONE"}
Active == {c \in Commands : commands[c].standing = "ACTIVE"}
Opened(state) == {c \in Commands : broker[c].state = state}

\* What the account really has at stake: commands that may still be carried
\* out, orders at the broker and open positions.
Live == Active \cup Opened("ORDER") \cup Opened("OPEN")

PreparedLeg == [c \in Commands |-> Prepared(Metadata(SymbolOf(c)), c[2])]
LotsOf(c) == commands[c].lots
Exposure(C) == MapThenSumSet(LAMBDA c : LotsOf(c) * PreparedLeg[c].notional, C)
Margin(C) == MapThenSumSet(LAMBDA c : LotsOf(c) * PreparedLeg[c].margin, C)
Risk(C) == MapThenSumSet(LAMBDA c : LotsOf(c) * PreparedLeg[c].loss, C)
On(C, s) == {c \in C : SymbolOf(c) = s}

-----------------------------------------------------------------------------
\* Intake.

\* validate_intent_for_intake
TimelyIntent(i) ==
    /\ SignalExpiresAt(i) > RequestedAt(i)
    /\ RequestedAt(i) <= clock + Policy.intentSkew
    /\ clock - RequestedAt(i) <= Policy.intentAge
    /\ SignalExpiresAt(i) > clock

\* insert_trade_intent_on: a repeated submission finds the row and changes nothing.
NewIntent(i) == i \notin accepted

\* submit_trade_intent
Submit(i) ==
    /\ <<clock, i>> \in Schedule.intents
    /\ NewIntent(i)
    /\ TimelyIntent(i)
    /\ accepted' = accepted \cup {i}
    /\ UNCHANGED <<clock, results, commands, evidence, outside>>

-----------------------------------------------------------------------------
\* Choosing the work and loading its evidence.

\* required_symbols
Required(i) ==
    SymbolsNamed(i) \cup {SymbolOf(c) : c \in checkpoint.positions \cup checkpoint.orders
                                                \cup Active}

\* risk_result_exists
Undecided(i) == results[i] = "NONE"

\* reject_partial_state_after_checkpoint: no single position or order is newer than
\* the full sets.
MembersUnmoved == partial <= checkpoint.at

\* validate_command_state_time: the last change of every command is covered by the
\* reconciliation.
CommandsCovered == \A c \in Known : commands[c].updated <= checkpoint.pending

\* Nothing moved since the full sets were reconciled.
\* Variant: a command that moved after the reconciliation is not noticed.
PositionsUnmoved == MembersUnmoved

Unmoved == MembersUnmoved /\ CommandsCovered

\* load_required_markets; load_required_metadata, which comes with the full sets.
Quoted(i) == \A s \in Required(i) : market[s] # Never
Described == checkpoint.at # Never

\* next_pending_risk_intent_id: its WHERE clause, which asks for what
\* load_trusted_risk_snapshot_on will find.
Ready(i) ==
    /\ i \in accepted /\ Undecided(i)
    /\ account.at # Never /\ checkpoint.pending # Never /\ capacity.at # Never
    /\ breaker # "ABSENT"
    /\ Unmoved
    /\ Quoted(i) /\ Described

Before(i, j) == RequestedAt(i) < RequestedAt(j) \/ (RequestedAt(i) = RequestedAt(j) /\ i < j)

\* ... and its ORDER BY and LIMIT 1.
Chosen(i) == Ready(i) /\ \A j \in Intents : Ready(j) => j = i \/ Before(i, j)

\* assemble_risk_request fails on a leg without a route, insert_execution_plan_on
\* on a leg id another plan already uses; finish_in_transaction rolls back, and the
\* same intent is chosen again.
Assembles(i) == \A l \in LegsOf(i) : l.symbol \in Routes
LegIdsAreFree(i) == \A l \in LegsOf(i), c \in Known : c[2].id # l.id

-----------------------------------------------------------------------------
\* Evaluating.

\* checked_age
Aged(at, limit) == clock - at \in 0 .. limit - 1

ControlTimeIsValid(i) == RequestedAt(i) <= clock /\ clock < SignalExpiresAt(i)

\* validate_freshness, of the account and of the two full sets, whose watermarks are
\* one here; of the symbols; of the capacity.
SetsAreFresh ==
    /\ Aged(account.at, Policy.snapshotAge)
    /\ Aged(checkpoint.at, Policy.snapshotAge)
    /\ Aged(checkpoint.at, Policy.orderAge)
    /\ Aged(checkpoint.pending, Policy.orderAge)
    /\ account.at >= checkpoint.pending
SymbolsAreFresh(i) ==
    \A s \in Required(i) : /\ Aged(market[s], Policy.marketAge)
                           /\ Aged(checkpoint.at, Policy.metadataAge)
CapacityIsFresh == Aged(capacity.at, Policy.capacityAge)

\* It must account for all of the evidence.
CapacityIsCurrent == capacity.at >= Max({account.at, checkpoint.at, checkpoint.pending})

LegsAreTradable(i) ==
    \A l \in LegsOf(i) : /\ TradeModeAllows(Metadata(l.symbol), l.action)
                         /\ StopIsValid(Metadata(l.symbol), l)

\* validate_loss_capacity
LossesAllow == ~capacity.halted /\ capacity.risk > 0

\* active_pending_commands and validate_pending_exposure: an active command has
\* not expired, and no order or command is open on a symbol of the intent.
\* Variant: only the broker's orders are looked at.
OrdersAllow(i) ==
    /\ \A c \in Active : commands[c].expires > clock
    /\ \A l \in LegsOf(i) : On(checkpoint.orders, l.symbol) = {}

PendingExposureAllows(i) ==
    /\ \A c \in Active : commands[c].expires > clock
    /\ \A l \in LegsOf(i) : On(checkpoint.orders \cup Active, l.symbol) = {}

\* validate_concurrency: a command and its own order count twice.
ConcurrencyAllows(i) ==
    /\ Cardinality(checkpoint.positions) + Cardinality(checkpoint.orders)
          + Cardinality(Active) + Cardinality(LegsOf(i)) <= Policy.maxPositions
    /\ Cardinality(LegsOf(i)) <= capacity.legs

ValidUntil(i) ==
    Min({SignalExpiresAt(i), clock + Policy.approvalTtl,
         account.at + Policy.snapshotAge, checkpoint.at + Policy.snapshotAge,
         checkpoint.at + Policy.orderAge, checkpoint.pending + Policy.orderAge,
         capacity.at + Policy.capacityAge, checkpoint.at + Policy.metadataAge}
        \cup {market[s] + Policy.marketAge : s \in Required(i)})

\* existing_exposure: positions, active orders and active commands.
\* Variant: an active command is taken to be among the orders the broker reports.
ExistingAtBroker(s) ==
    Exposure(On(checkpoint.positions, s)) + Exposure(On(checkpoint.orders, s))

Existing(s) ==
    Exposure(On(checkpoint.positions, s)) + Exposure(On(checkpoint.orders, s))
        + Exposure(On(Active, s))

PendingMargin == Margin(checkpoint.orders) + Margin(Active)

\* The first half of size_and_cap: what is left of every limit.
Left(i) ==
    [budget   |-> Min({Policy.riskPerTrade, capacity.risk}),
     exposure |-> [s \in Symbols |-> Policy.symbolExposure - Existing(s)],
     total    |-> Policy.totalExposure - MapThenSumSet(Existing, Symbols),
     margin   |-> Min({Policy.equity - account.margin, Policy.marginUsage - account.margin})
                     - PendingMargin]

CommandsOf(i) == {c \in Commands : c[1] = i}
LegsToSize == [i \in Intents |-> {PreparedLeg[c] : c \in CommandsOf(i)}]

\* authorize, for an intent that adds risk
BreakerAllows == breaker = "CLOSED"

\* evaluate_inner.  A HOLD only needs its time to be right; a CLOSE is never
\* approved; the breaker is asked before anything else.
Approves(i) ==
    \/ Action(i) = "HOLD" /\ ControlTimeIsValid(i)
    \/ /\ Action(i) \in {"BUY", "SELL"}
       /\ BreakerAllows
       /\ ControlTimeIsValid(i)
       /\ SetsAreFresh /\ SymbolsAreFresh(i) /\ CapacityIsFresh /\ CapacityIsCurrent
       /\ LegsAreTradable(i)
       /\ LossesAllow
       /\ PendingExposureAllows(i)
       /\ ConcurrencyAllows(i)
       /\ ValidUntil(i) > clock
       /\ Sizable(Left(i), LegsToSize[i])

-----------------------------------------------------------------------------
\* The transaction.

\* build_execution: the commands of an approval expire with it at the latest.
ExpiresAt(i) == Min({SignalExpiresAt(i), ValidUntil(i), clock + Policy.commandTtl})

NewCommand(i, c) ==
    [standing |-> "ACTIVE", updated |-> clock, expires |-> ExpiresAt(i),
     lots |-> Lots(Left(i), LegsToSize[i], PreparedLeg[c])]

\* insert_risk_result_on; commit_execution_workflow_on, with the result
WritesResult(i, outcome) == results' = [results EXCEPT ![i] = outcome]
WritesCommands(i) ==
    commands' = [c \in Commands |-> IF c[1] = i THEN NewCommand(i, c) ELSE commands[c]]

\* The decision falls in a later millisecond than what it is based on, and than
\* the capacities it cannot have been counted in.
DecidesLater ==
    \A at \in {account.at, checkpoint.at} \cup {f.at : f \in facts \cup drafts} : clock > at

\* process_next: evaluate and write the result, with the plan and the commands
\* when there are any, or write nothing.
Approve(i) ==
    /\ Chosen(i) /\ Assembles(i) /\ (Ties \/ DecidesLater)
    /\ Approves(i)
    /\ LegIdsAreFree(i)
    /\ WritesResult(i, "APPROVED")
    /\ WritesCommands(i)
    /\ UNCHANGED <<clock, accepted, evidence, outside>>

Reject(i) ==
    /\ Chosen(i) /\ Assembles(i) /\ (Ties \/ DecidesLater)
    /\ ~Approves(i)
    /\ WritesResult(i, "REJECTED")
    /\ UNCHANGED <<clock, accepted, commands, evidence, outside>>

-----------------------------------------------------------------------------
\* The evidence.

\* record_risk_capacity_snapshot_on: every capacity is kept, one per observation
\* time, and the newest is the one in force.
RecordCapacity(d) ==
    /\ d \in drafts
    /\ \A f \in facts : f.at # d.at
    /\ facts' = facts \cup {d}
    /\ capacity' = IF d.at > capacity.at THEN d ELSE capacity
    /\ drafts' = drafts \ {d}
    /\ UNCHANGED <<clock, accepted, results, commands, checkpoint, partial, account,
                   market, breaker, broker, reports, seen>>

\* commit_reconciliation_result_on, as far as the workflow reads it: an older
\* result moves nothing back (ReconciliationRuns).
DeliverReport(r) ==
    /\ r \in reports
    /\ checkpoint' =
          [(IF r.at > checkpoint.at
            THEN [checkpoint EXCEPT !.at = r.at, !.positions = r.positions, !.orders = r.orders]
            ELSE checkpoint)
              EXCEPT !.pending = IF r.vouches THEN Max({@, r.at}) ELSE @]
    /\ account' = IF r.at > account.at THEN [at |-> r.at, margin |-> r.margin] ELSE account
    /\ reports' = reports \ {r}
    /\ UNCHANGED <<clock, accepted, results, commands, partial, market, facts, capacity,
                   breaker, broker, drafts, seen>>

\* A single position or order, observed after the full sets.
ObserveMember ==
    /\ clock \in Schedule.members
    /\ clock > Max({checkpoint.at, partial})
    /\ partial' = clock
    /\ UNCHANGED <<clock, accepted, results, commands, checkpoint, account, market,
                   facts, capacity, breaker, outside>>

UpdateMarket(s) ==
    /\ <<clock, s>> \in Schedule.ticks
    /\ market[s] < clock
    /\ market' = [market EXCEPT ![s] = clock]
    /\ UNCHANGED <<clock, accepted, results, commands, checkpoint, partial, account,
                   facts, capacity, breaker, outside>>

\* The breaker is stored, opened and reset (BreakerLog).
StoreBreaker(state) ==
    /\ <<clock, state>> \in Schedule.breaker
    /\ breaker # state
    /\ breaker' = state
    /\ UNCHANGED <<clock, accepted, results, commands, checkpoint, partial, account,
                   market, facts, capacity, outside>>

-----------------------------------------------------------------------------
\* The commands, as the workflow sees them (CommandLifecycle): a change is
\* stamped later than the one before it.

Stamp(c, at) == Max({commands[c].updated + 1, at})

MoveCommand(c) ==
    /\ <<clock, c[2].id>> \in Schedule.moves
    /\ c \in Active
    /\ Stamp(c, clock) <= MaxTime
    /\ commands' = [commands EXCEPT ![c].updated = Stamp(c, clock)]
    /\ UNCHANGED <<clock, accepted, results, evidence, outside>>

\* The broker's answer reaches the core, stamped with the broker's time.
FinishCommand(c) ==
    /\ c \in Active
    /\ broker[c].state \in {"OPEN", "GONE"}
    /\ commands' = [commands EXCEPT ![c].standing = "FINISHED",
                                    ![c].updated = Stamp(c, broker[c].at)]
    /\ broker' = [broker EXCEPT ![c].at = Never]
    /\ UNCHANGED <<clock, accepted, results, evidence, reports, drafts, seen>>

-----------------------------------------------------------------------------
\* External: the broker, the terminal beside it, and the capacity assembler.

Answer(c, from, to, at) ==
    /\ <<clock, c[2].id, to>> \in Schedule.answers
    /\ c \in Active
    /\ broker[c].state \in from
    /\ Ties \/ clock > seen
    /\ broker' = [broker EXCEPT ![c] = [state |-> to, at |-> at]]
    /\ UNCHANGED <<clock, accepted, results, commands, evidence, reports, drafts, seen>>

PlaceOrder(c) == Answer(c, {"NONE"}, "ORDER", Never)
FillOrder(c) == Answer(c, {"NONE", "ORDER"}, "OPEN", clock)
RefuseOrder(c) == Answer(c, {"NONE", "ORDER"}, "GONE", clock)

ClosePosition(c) ==
    /\ <<clock, c[2].id, "CLOSED">> \in Schedule.answers
    /\ broker[c].state = "OPEN"
    /\ broker' = [broker EXCEPT ![c].state = "GONE"]
    /\ UNCHANGED <<clock, accepted, results, commands, evidence, reports, drafts, seen>>

\* A reconciliation result is put together; vouches says whether it will attest
\* to the commands of the whole account.
Observe(vouches) ==
    /\ <<clock, vouches>> \in Schedule.reports
    /\ clock > seen
    /\ Cardinality(reports) < MaxReports
    /\ reports' = reports \cup {[at |-> clock, vouches |-> vouches,
                                 positions |-> Opened("OPEN"), orders |-> Opened("ORDER"),
                                 margin |-> Margin(Opened("OPEN"))]}
    /\ seen' = clock
    /\ UNCHANGED <<clock, accepted, results, commands, evidence, broker, drafts>>

\* An account snapshot on its own.
ObserveAccount ==
    /\ clock \in Schedule.account
    /\ clock > seen
    /\ account' = [at |-> clock, margin |-> Margin(Opened("OPEN"))]
    /\ seen' = clock
    /\ UNCHANGED <<clock, accepted, results, commands, checkpoint, partial, market, facts,
                   capacity, breaker, broker, reports, drafts>>

\* What remains of the strategy's legs and of the account's risk.
Assemble(halted) ==
    /\ <<clock, halted>> \in Schedule.capacity
    /\ \A d \in drafts \cup facts : d.at # clock
    /\ Cardinality(drafts \cup facts) < MaxCapacities
    /\ drafts' = drafts \cup {[at |-> clock, halted |-> halted,
                               legs |-> Policy.maxLegs - Cardinality(Live),
                               risk |-> Policy.accountRisk - Risk(Live)]}
    /\ UNCHANGED <<clock, accepted, results, commands, evidence, broker, reports, seen>>

Tick ==
    /\ clock < MaxTime
    /\ clock' = clock + 1
    /\ UNCHANGED <<accepted, results, commands, evidence, outside>>

-----------------------------------------------------------------------------
Next ==
    \/ Tick
    \/ \E i \in Intents : Submit(i) \/ Approve(i) \/ Reject(i)
    \/ \E d \in drafts : RecordCapacity(d)
    \/ \E r \in reports : DeliverReport(r)
    \/ ObserveMember
    \/ \E s \in Symbols : UpdateMarket(s)
    \/ \E state \in {"CLOSED", "OPEN"} : StoreBreaker(state)
    \/ \E c \in Commands : MoveCommand(c) \/ FinishCommand(c)
    \/ \E c \in Commands : PlaceOrder(c) \/ FillOrder(c) \/ RefuseOrder(c) \/ ClosePosition(c)
    \/ \E b \in BOOLEAN : Observe(b) \/ Assemble(b)
    \/ ObserveAccount

Spec == Init /\ [][Next]_vars

-----------------------------------------------------------------------------
\* Every table holds what its columns allow.
TypeOK ==
    /\ clock \in Nat
    /\ accepted \subseteq Intents
    /\ results \in [Intents -> {"NONE", "APPROVED", "REJECTED"}]
    /\ \A c \in Commands : /\ commands[c].standing \in {"NONE", "ACTIVE", "FINISHED"}
                           /\ commands[c].lots \in Nat /\ commands[c].updated \in Int
    /\ checkpoint.positions \cup checkpoint.orders \subseteq Commands
    /\ checkpoint.pending <= checkpoint.at
    /\ account.margin \in Int /\ capacity.risk \in Int /\ capacity.legs \in Int
    /\ breaker \in {"ABSENT", "CLOSED", "OPEN"}

\* Capacity is never spent twice: with every approval so far, whatever the broker
\* did and in whatever order its answers, the reports and the capacities arrived,
\* the strategy has no more legs at stake than it may, and the account no more risk.
CapacityIsNeverOverspent ==
    /\ Cardinality(Live) <= Policy.maxLegs
    /\ Risk(Live) <= Policy.accountRisk

\* No two plans have a command pending on the same symbol.
OnePlanPerSymbol ==
    \A c, d \in Active : SymbolOf(c) = SymbolOf(d) => c[1] = d[1]

\* An approval is sound for the broker's real state, which the core only knows
\* from reports: with the new commands, the exposure of every symbol, the whole
\* exposure, the margin and the number of positions stay within the policy.
FitsTheBroker ==
    /\ \A s \in Symbols : Exposure(On(Live, s)) <= Policy.symbolExposure
    /\ Exposure(Live) <= Policy.totalExposure
    /\ Margin(Live) <= Policy.marginUsage
    /\ Cardinality(Live) <= Policy.maxPositions

ApprovalsFitTheBroker ==
    [][\A i \in Intents : results[i] = "NONE" /\ results'[i] = "APPROVED" => FitsTheBroker']_vars

\* Sizing gives a single leg the largest volume every limit allows, and refuses it
\* only when there is none: checked against that definition for every intent that
\* gets as far as sizing and whatever the evidence.
SizingIsLargest ==
    \A i \in Intents : \A l \in LegsToSize[i] :
        /\ LegsToSize[i] = {l} /\ LegsAreTradable(i)
        /\ \A s \in Symbols : Left(i).exposure[s] >= 0
        => LargestAffordable(Left(i), l) =
              IF Sizable(Left(i), {l}) THEN Lots(Left(i), {l}, l) ELSE 0
=============================================================================
