-------------------------- MODULE ReconciliationRuns --------------------------
(***************************************************************************)
(* Reconciliation runs over the projections of StateProjections: creating a *)
(* run, evaluating and committing its result, escalating it to an operator  *)
(* (store/src/reconciliation.rs, crates/reconciliation,                      *)
(* core/src/inbound_processor.rs).  The commands of the account move while  *)
(* a run is open; of their lifecycle only what the evaluation reads is kept: *)
(* whether the store holds proof of delivery, the time of the last change,  *)
(* and over which route the command was handed out.                          *)
(***************************************************************************)
EXTENDS StateProjections

CONSTANTS
    Requests,      \* request ids, in the order the database sorts them
    Commands,      \* command ids
    Target(_),     \* the commands a request names; {} is the whole account
    Routed,        \* the requests restricted to one client's route
    OnRoute,       \* the commands whose payload names that client
    CommandOf(_),  \* the set of commands an order observation names
    OpenedAt(_),   \* when a request is made
    ChangeTimes,   \* when commands change
    Escalations,   \* when runs are escalated and when that is stored
    Answers        \* the results that may arrive: the event, the commands the
                   \* client reports unresolved, whether the metadata is complete

ASSUME RequestsAreIds == Requests \subseteq Nat \ {0}

\* A result names its request and lists no bars.
ASSUME AnswersAreResults ==
    \A answer \in Answers : /\ answer.event \in Event /\ answer.event.id # 0
                            /\ answer.event.req \in Requests
                            /\ DOMAIN answer.event.rows \subseteq Keys

\* The times of requests and escalations are stored, like all the others.
ASSUME RunTimesAreStored ==
    /\ \A r \in Requests : OpenedAt(r) \in Nat
    /\ \A t \in Escalations : t.at \in Nat /\ t.updated \in Nat

VARIABLES
    runs,      \* reconciliation_runs
    commands,  \* delivery proof and last update of every command
    handed,    \* the commands handed to a session of the client's route
    refused    \* the requests whose result was put aside as unprocessable

reconVars == <<runs, commands, handed, refused>>
vars == <<log, tables, market, runs, commands, handed, refused>>

Statuses == {"NONE", "REQUESTED", "PENDING_EVIDENCE", "COMPLETED", "MANUAL"}

NoRun ==
    [status |-> "NONE", requested |-> Never, result |-> 0, observed |-> Never,
     attention |-> {}, disposition |-> "NONE", symbols |-> FALSE, scope |-> FALSE,
     escalated |-> Never, manual |-> {}, created |-> Never, updated |-> Never]

AccountWide(r) == Target(r) = {}

-----------------------------------------------------------------------------
\* The commands, as the evaluation sees them (their lifecycle is modelled in
\* CommandLifecycle).  CREATED needs no proof; a dispatched command does.

Standings == {"UNKNOWN", "CREATED", "UNPROVEN", "PROVEN", "MANUAL"}
Known(c) == commands[c].standing # "UNKNOWN"

NextStanding(standing) ==
    CASE standing = "UNKNOWN"  -> {"CREATED"}
      [] standing = "CREATED"  -> {"UNPROVEN", "PROVEN"}
      [] standing = "UNPROVEN" -> {"PROVEN", "MANUAL"}
      [] standing = "MANUAL"   -> {"PROVEN"}
      [] standing = "PROVEN"   -> {"PROVEN"}

CommandMoves(c) ==
    /\ \E standing \in NextStanding(commands[c].standing), at \in ChangeTimes :
          /\ at >= commands[c].updated
          /\ commands' = [commands EXCEPT ![c] = [standing |-> standing, updated |-> at]]
          /\ handed' \in IF standing = "UNPROVEN"
                         THEN {handed \cup {c}} \cup
                              (IF c \in OnRoute THEN {} ELSE {handed})
                         ELSE {handed}
    /\ UNCHANGED <<log, tables, market, runs, refused>>

-----------------------------------------------------------------------------
\* Evaluating a result.

\* load_reconciliation_evaluation_snapshot: the targeted commands, or every
\* command of the account that names the route or was handed out over it.
Scope(r) ==
    IF AccountWide(r)
    THEN {c \in Commands : Known(c) /\ (r \in Routed => c \in OnRoute \cup handed)}
    ELSE Target(r)

\* validate_command_scope: a scoped command must name the request's route
\* itself, and none may have changed after the result arrived.
ScopeFits(r, received) ==
    /\ \A c \in Scope(r) : Known(c)
    /\ AccountWide(r) /\ r \in Routed => Scope(r) \subseteq OnRoute
    /\ \A c \in Scope(r) : commands[c].updated <= received

Reported(e) == UNION {CommandOf(o) : o \in Orders \cap DOMAIN e.rows}

\* evaluate_reconciliation_result: what still needs evidence.
\* Variant: a command the store does not know is passed over.
KnownAttention(r, e, unresolved) ==
    {c \in Scope(r) : \/ commands[c].standing \in {"UNPROVEN", "MANUAL"}
                      \/ c \in unresolved}

Attention(r, e, unresolved) ==
    {c \in Scope(r) : \/ commands[c].standing \in {"UNPROVEN", "MANUAL"}
                      \/ c \in unresolved}
    \cup (IF AccountWide(r) THEN (unresolved \cup Reported(e)) \ Scope(r) ELSE {})

\* validate_result: the unresolved commands of a targeted result are targets.
ResultFits(r, e, unresolved) ==
    /\ e.at >= runs[r].requested
    /\ e.at <= e.received
    /\ AccountWide(r) \/ unresolved \subseteq Target(r)

-----------------------------------------------------------------------------
\* What is checked whenever a stored run or checkpoint is read: a row that does
\* not pass is reported as corrupt and whatever needed it fails.

ResultOf(r) == CHOOSE e \in log : e.id = runs[r].result

Disposition(attention) == IF attention = {} THEN "COMPLETED" ELSE "PENDING_EVIDENCE"

\* validate_result_columns, validate_result_evaluation_link
ResultColumnsFit(r) ==
    LET run == runs[r]
    IN  IF run.result = 0 THEN run.observed = Never
        ELSE /\ \E e \in log : e.id = run.result /\ e.req = r /\ e.at = run.observed
             /\ run.disposition = Disposition(run.attention)
             /\ AccountWide(r) \/ run.attention \subseteq Target(r)

\* validate_manual_columns
ManualColumnsFit(r) ==
    LET run == runs[r]
    IN  IF run.escalated = Never THEN run.status # "MANUAL"
        ELSE /\ run.status = "MANUAL"
             /\ run.escalated >= run.requested /\ run.escalated >= run.observed
             /\ run.result # 0 => /\ run.disposition = "PENDING_EVIDENCE"
                                  /\ run.manual = run.attention

RunTimesFit(r) ==
    LET run == runs[r]
    IN  /\ run.created >= run.requested /\ run.updated >= run.created
        /\ run.status = "REQUESTED" => run.updated = run.created
        /\ run.status \in {"PENDING_EVIDENCE", "COMPLETED"} =>
              run.updated = ResultOf(r).received
        /\ run.status = "MANUAL" => /\ run.updated >= run.escalated
                                    /\ run.result # 0 => run.updated >= ResultOf(r).received

\* validate_run_state_consistency
RunStateFits(r) ==
    LET run == runs[r]
    IN  /\ run.status = "REQUESTED" => run.result = 0 /\ run.escalated = Never
        /\ run.status \in {"PENDING_EVIDENCE", "COMPLETED"} =>
              run.result # 0 /\ run.disposition = run.status /\ run.escalated = Never

RunReadsBack(r) ==
    /\ ResultColumnsFit(r)
    /\ ManualColumnsFit(r)
    /\ RunStateFits(r)
    /\ RunTimesFit(r)

\* validate_checkpoint_full_set_evidence
SetsHaveEvidence(c) ==
    \A kind \in Kinds : c.set[kind] = Part(ResultOf(c.source).rows, KeysOf(kind))

\* validate_checkpoint_readiness_evidence
ReadinessHasEvidence(c) ==
    LET At(t) == {r \in Requests : runs[r].result # 0 /\ runs[r].observed = t}
    IN  /\ c.account # Never => \E r \in At(c.account) : Account \in DOMAIN ResultOf(r).rows
        /\ c.symbols # Never => \E r \in At(c.symbols) : runs[r].symbols
        /\ c.pending # Never => \E r \in At(c.pending) :
              /\ runs[r].status = "COMPLETED" /\ runs[r].scope
              /\ AccountWide(r) /\ r \notin Routed

\* validate_position_membership and validate_order_membership: the members are
\* the set, every one has a row as new, and no other row is as old.
MembershipIsIntact(c, kind) ==
    LET m == tables.members[kind]
    IN  /\ m = [at |-> c.watermark[kind], rows |-> c.set[kind]]
        /\ \A k \in DOMAIN m.rows : /\ tables.latest[k].at >= m.at
                                    /\ ~Contradicts(tables.latest[k], m.at, m.rows[k])
        /\ \A k \in KeysOf(kind) : tables.latest[k].at \in 0 .. m.at => k \in DOMAIN m.rows

\* validate_checkpoint_integrity
CheckpointReadsBack ==
    LET c == tables.checkpoint
    IN  c.source # 0 =>
        /\ c.updated >= c.at
        /\ \A kind \in Kinds : c.watermark[kind] = c.at
        /\ \A at \in {c.account, c.symbols, c.pending} : at <= c.at
        /\ runs[c.source].result # 0 /\ runs[c.source].observed = c.at
        /\ RunReadsBack(c.source)
        /\ SetsHaveEvidence(c)
        /\ ReadinessHasEvidence(c)
        /\ \A kind \in Kinds : MembershipIsIntact(c, kind)

-----------------------------------------------------------------------------
\* The runs.

Requested(at) ==
    [NoRun EXCEPT !.status = "REQUESTED", !.requested = at, !.created = at, !.updated = at]

CreateRun(r, at) ==
    /\ runs[r].status = "NONE"
    /\ \A c \in Target(r) : Known(c)
    /\ runs' = [runs EXCEPT ![r] = Requested(at)]
    /\ UNCHANGED <<log, tables, market, commands, handed, refused>>

\* handle_reconciliation_result refuses what does not fit its request as
\* unprocessable: the message is put aside and not looked at again.
RefuseResult(r, e, unresolved) ==
    /\ runs[r].status = "REQUESTED"
    /\ r \notin refused
    /\ ResultFits(r, e, unresolved)
    /\ ~ScopeFits(r, e.received)
    /\ refused' = refused \cup {r}
    /\ UNCHANGED <<log, tables, market, runs, commands, handed>>

\* The commands are only vouched for by an unrestricted account-wide request.
\* Variant: a request restricted to one client vouches for the account.
AnyClientEarns(r, attention) == attention = {} /\ AccountWide(r)

EarnsPending(r, attention) == attention = {} /\ AccountWide(r) /\ r \notin Routed

\* Variant: an answer is still taken from a run an operator already has.
TakesLateResult(r) == runs[r].status \in {"REQUESTED", "MANUAL"}

TakesResult(r) == runs[r].status = "REQUESTED" /\ runs[r].result = 0

Answered(run, r, e, attention, symbols) ==
    [run EXCEPT !.status = Disposition(attention), !.disposition = Disposition(attention),
                !.result = e.id, !.observed = e.at, !.attention = attention,
                !.symbols = symbols, !.scope = AccountWide(r) /\ r \notin Routed,
                !.updated = e.received]

\* commit_reconciliation_result_on, with the bundle the handler builds.
CommitResult(r, e, unresolved, symbols) ==
    LET attention == Attention(r, e, unresolved)
    IN  /\ TakesResult(r)
        /\ ResultFits(r, e, unresolved)
        /\ ScopeFits(r, e.received)
        /\ e.received >= runs[r].updated
        /\ RunReadsBack(r) /\ CheckpointReadsBack
        /\ \A f \in log : f.id # e.id
        /\ Cardinality(log) < MaxEvents
        /\ log' = log \cup {e}
        /\ ObservationsAgree(log')
        /\ ~ResultContradicts(tables, e)
        /\ tables' = ResultApplied(tables, e, symbols, EarnsPending(r, attention))
        /\ runs' = [runs EXCEPT ![r] = Answered(runs[r], r, e, attention, symbols)]
        /\ UNCHANGED <<market, commands, handed, refused>>

\* escalate_manual_reconciliation, escalate_missing_reconciliation_result and
\* escalate_reconciliation_manual_on: an open or pending run is given to an
\* operator.  The command transitions the domain proposes along with it are
\* steps of their own (CommandMoves).
Escalated(run, at, attention, updated) ==
    [run EXCEPT !.status = "MANUAL", !.escalated = at, !.manual = attention,
                !.updated = updated]

Escalate(r, at, updated) ==
    LET attention == IF runs[r].result = 0 THEN Scope(r) ELSE runs[r].attention
    IN  /\ runs[r].status \in {"REQUESTED", "PENDING_EVIDENCE"}
        /\ runs[r].escalated = Never
        /\ at >= runs[r].requested /\ at >= runs[r].observed
        /\ updated >= at /\ updated >= runs[r].updated
        /\ ScopeFits(r, at)
        /\ runs' = [runs EXCEPT ![r] = Escalated(runs[r], at, attention, updated)]
        /\ UNCHANGED <<log, tables, market, commands, handed, refused>>

-----------------------------------------------------------------------------
Init ==
    /\ ProjectionsInit
    /\ runs = [r \in Requests |-> NoRun]
    /\ commands = [c \in Commands |-> [standing |-> "UNKNOWN", updated |-> Never]]
    /\ handed = {}
    /\ refused = {}

IngestStep == IngestSome /\ UNCHANGED reconVars
MarketStep == UpdateSomeMarket /\ UNCHANGED reconVars

AnswerStep ==
    \E answer \in Answers :
        \/ CommitResult(answer.event.req, answer.event, answer.unresolved, answer.symbols)
        \/ RefuseResult(answer.event.req, answer.event, answer.unresolved)

RunStep ==
    \/ \E r \in Requests : CreateRun(r, OpenedAt(r))
    \/ \E r \in Requests, t \in Escalations : Escalate(r, t.at, t.updated)

Next ==
    \/ IngestStep
    \/ MarketStep
    \/ AnswerStep
    \/ RunStep
    \/ \E c \in Commands : CommandMoves(c)

Spec == Init /\ [][Next]_vars

-----------------------------------------------------------------------------
\* Properties.

\* The tables hold payloads of their own keys, and every run, command and tick a
\* row of its columns.
TypeOK ==
    /\ log \subseteq Event
    /\ tables.latest \in [Keys -> [at : Times, v : Values] \cup {NoRow}]
    /\ tables.bars \in [Times -> Values \cup {Nothing}]
    /\ \A kind \in Kinds : tables.members[kind].rows \in Rows(KeysOf(kind))
    /\ tables.checkpoint.source \in Requests \cup {0}
    /\ market \in [at : Times, v : Values] \cup {NoRow}
    /\ \A r \in Requests : runs[r].status \in Statuses /\ runs[r].result \in Ids \cup {0}
    /\ commands \in [Commands -> [standing : Standings, updated : ChangeTimes \cup {Never}]]
    /\ handed \subseteq Commands /\ refused \subseteq Requests

\* The full sets among the events of L, and the last of them.
Results(L) == {e \in L : e.req > 0}
IsLastSet(e, L) == e \in Results(L) /\ \A f \in Results(L) : f.at <= e.at

\* The events of L that still count for a key: all that observe it for the account
\* and the symbols; for a position or an order the last full set, if it lists the
\* key, and the single snapshots taken after it.
Counts(e, k, L) ==
    /\ k \in DOMAIN e.rows
    /\ k \in Members =>
          \/ IsLastSet(e, L)
          \/ e.req = 0 /\ \A f \in Results(L) : f.at < e.at

Observations(k, L) ==
    {[at |-> e.at, v |-> e.rows[k]] : e \in {f \in L : Counts(f, k, L)}}

\* The row is the newest of the observations, and no other is as new.
IsNewestOf(row, O) ==
    IF O = {} THEN row = NoRow
    ELSE row \in O /\ \A o \in O : o = row \/ o.at < row.at

\* Whatever the order in which snapshots and full sets arrived, the projection
\* holds for every key the newest observation that still counts, which no other
\* contradicts, and no row for a key without one: a deleted position never comes
\* back with a late snapshot (apply_position, apply_position_full_set).
LatestIsNewest ==
    \A k \in Keys : IsNewestOf(tables.latest[k], Observations(k, log))

\* A snapshot that is delivered a second time is accepted and changes nothing,
\* however much has arrived since (ingest_durable re-applies a duplicate).
RedeliveryIsHarmless ==
    \A e \in log : e.req = 0 =>
        /\ ~FactContradicts(tables, KeyOf(e), e.at, e.rows[KeyOf(e)])
        /\ FactApplied(tables, KeyOf(e), e.at, e.rows[KeyOf(e)]) = tables

\* Whatever the order of results, snapshots and escalations, what is stored reads
\* back: the checks before every result and every risk decision never meet a
\* checkpoint they call corrupt, and the status, the result, the escalation and
\* the timestamps of every run fit together.
StoredReadsBack ==
    /\ CheckpointReadsBack
    /\ \A r \in Requests : runs[r].status # "NONE" => RunReadsBack(r)

\* A run only moves forward: a result is written once and never replaced, a
\* completed run is final, and one given to an operator takes no late answer.
RunsOnlyAdvance ==
    [][\A r \in Requests :
          /\ runs[r].result # 0 => runs'[r].result = runs[r].result
          /\ runs[r].status \in {"COMPLETED", "MANUAL"} => runs'[r] = runs[r]
          /\ runs[r].status # "NONE" => runs'[r].status # "NONE"]_vars

\* No write, in whatever order the answers arrive, moves the account's
\* watermarks back: what the risk check has relied on stays vouched for.
WatermarksNeverRegress ==
    [][LET c == tables.checkpoint
           d == tables'.checkpoint
       IN  /\ d.at >= c.at /\ d.account >= c.account /\ d.symbols >= c.symbols
           /\ d.pending >= c.pending /\ d.updated >= c.updated
           /\ \A kind \in Kinds : d.watermark[kind] >= c.watermark[kind]]_vars
=============================================================================
