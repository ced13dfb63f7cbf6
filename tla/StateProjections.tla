--------------------------- MODULE StateProjections ---------------------------
(***************************************************************************)
(* The state projections of one account in the State Store                  *)
(* (store/src/projection.rs, store/src/reconciliation.rs).  Every snapshot  *)
(* that arrives is appended to the event log and folded into a table that   *)
(* keeps the newest observation per key.  A reconciliation result is a full *)
(* set: it replaces the positions and the orders of the account, and moves  *)
(* the watermark below which a single snapshot no longer counts.  Messages  *)
(* arrive in any order of their observation times.  All the tables are      *)
(* keyed by account and no statement joins two accounts, so one account is  *)
(* the general case.                                                        *)
(*                                                                          *)
(* A payload is a member of Values and its hash is the payload itself.  The *)
(* content of an event is a function from the keys it observes to payloads. *)
(* A stored time of -1 stands for an absent row or a NULL column; the times *)
(* the code stores are not negative.  A write is one transaction: refused   *)
(* means rolled back, so a refused write is not a step.                     *)
(***************************************************************************)
EXTENDS Integers, FiniteSets

CONSTANTS
    Account,    \* the key of the account snapshot
    Symbols,    \* the keys of the symbol metadata
    Positions,  \* the position ids
    Orders,     \* the broker order ids
    Bar,        \* the key of the market bars (one symbol and timeframe)
    Values,     \* the payloads
    Nothing,    \* the payload of an absent row
    Times,      \* the observation and arrival times
    Ids,        \* the event ids, in the order the database sorts them
    Facts,      \* the single snapshots that may arrive
    Ticks,      \* the market ticks that may arrive
    MaxEvents   \* bound on the event log

ASSUME KeysAreDistinct ==
    /\ {Account} \cap (Symbols \cup Positions \cup Orders \cup {Bar}) = {}
    /\ Symbols \cap (Positions \cup Orders \cup {Bar}) = {}
    /\ Positions \cap (Orders \cup {Bar}) = {}
    /\ Orders \cap {Bar} = {}

ASSUME TimesAreStored == Times \subseteq Nat /\ Nothing \notin Values

VARIABLES
    log,     \* the snapshot and result events of core_events
    tables,  \* the projection tables and the account's checkpoint
    market   \* the latest market tick, which has no event

Snapshots == {Account} \cup Symbols
Kinds == {"positions", "orders"}
KeysOf(kind) == IF kind = "positions" THEN Positions ELSE Orders
Members == Positions \cup Orders
KindOf(k) == IF k \in Positions THEN "positions" ELSE "orders"
Keys == Snapshots \cup Members

Never == -1
NoRow == [at |-> Never, v |-> Nothing]
Rows(S) == UNION {[D -> Values] : D \in SUBSET S}
Part(rows, S) == [k \in S \cap DOMAIN rows |-> rows[k]]

\* A snapshot event has req 0; a reconciliation result names its request.
Event == [id : Ids, received : Times, at : Times, rows : Rows(Keys \cup {Bar}), req : Nat]

\* A snapshot observes one key.
ASSUME FactsAreSnapshots ==
    \A e \in Facts : /\ e \in Event /\ e.req = 0
                     /\ \E k \in Keys \cup {Bar} : DOMAIN e.rows = {k}

\* A market tick has a time and a payload.
ASSUME TicksAreTimed == Ticks \subseteq [at : Times, v : Values]

NoCheckpoint ==
    [source |-> 0, at |-> Never, account |-> Never, symbols |-> Never, pending |-> Never,
     watermark |-> [kind \in Kinds |-> Never], set |-> [kind \in Kinds |-> <<>>],
     updated |-> Never]

NoMembers == [at |-> Never, rows |-> <<>>]

EmptyTables ==
    [latest |-> [k \in Keys |-> NoRow], bars |-> [t \in Times |-> Nothing],
     members |-> [kind \in Kinds |-> NoMembers], checkpoint |-> NoCheckpoint]

-----------------------------------------------------------------------------
\* One row against one observation.

Contradicts(row, at, v) == row.at = at /\ row.v # v
Newest(row, at, v) == IF at > row.at THEN [at |-> at, v |-> v] ELSE row

\* A position or an order is first held against the full set: older than the
\* watermark it no longer counts, at the watermark it must be the member the
\* set holds, and only above it does it meet the latest row.
IsMember(t, k, at, v) ==
    LET m == t.members[KindOf(k)]
    IN  m.at = at /\ k \in DOMAIN m.rows /\ m.rows[k] = v
Watermark(t, k) == t.checkpoint.watermark[KindOf(k)]

FactContradicts(t, k, at, v) ==
    \/ k \in Snapshots /\ Contradicts(t.latest[k], at, v)
    \/ k \in Members /\ at = Watermark(t, k) /\ ~IsMember(t, k, at, v)
    \/ k \in Members /\ at > Watermark(t, k) /\ Contradicts(t.latest[k], at, v)
    \/ k = Bar /\ t.bars[at] \notin {v, Nothing}

WithBar(t, at, v) ==
    [latest |-> t.latest, bars |-> [t.bars EXCEPT ![at] = v],
     members |-> t.members, checkpoint |-> t.checkpoint]
WithRow(t, k, row) ==
    [latest |-> [t.latest EXCEPT ![k] = row], bars |-> t.bars,
     members |-> t.members, checkpoint |-> t.checkpoint]

\* Variant: a snapshot older than the last full set is still written.
ForgetsWatermark(t, k, at, v) ==
    IF k = Bar THEN WithBar(t, at, v) ELSE WithRow(t, k, Newest(t.latest[k], at, v))

FactApplied(t, k, at, v) ==
    IF k = Bar THEN WithBar(t, at, v)
    ELSE IF k \in Members /\ at <= Watermark(t, k) THEN t
    ELSE WithRow(t, k, Newest(t.latest[k], at, v))

-----------------------------------------------------------------------------
\* The check over the whole event log that precedes every position, order and
\* result: observations of one moment must not disagree.

\* Variant: single snapshots are not held against the full sets.
SetsAgree(S) ==
    \A e, f \in S : e.at = f.at =>
        \A kind \in Kinds :
            e.req > 0 /\ f.req > 0
                => Part(e.rows, KeysOf(kind)) = Part(f.rows, KeysOf(kind))

ObservationsAgree(S) ==
    \A e, f \in S : e.at = f.at =>
        /\ e.req = 0 /\ f.req = 0
             => \A k \in Members \cap DOMAIN e.rows \cap DOMAIN f.rows :
                   e.rows[k] = f.rows[k]
        /\ e.req > 0 /\ f.req > 0
             => \A kind \in Kinds :
                   Part(e.rows, KeysOf(kind)) = Part(f.rows, KeysOf(kind))
        /\ e.req = 0 /\ f.req > 0
             => \A k \in Members \cap DOMAIN e.rows :
                   k \in DOMAIN f.rows /\ f.rows[k] = e.rows[k]

\* A redelivered event is not appended again, but it is applied again.
KeyOf(e) == CHOOSE k \in DOMAIN e.rows : TRUE

Ingest(e) ==
    LET k == KeyOf(e)
        v == e.rows[k]
    IN  /\ \A f \in log : f.id = e.id => f = e
        /\ Cardinality(log \cup {e}) <= MaxEvents
        /\ log' = log \cup {e}
        /\ k \in Members => ObservationsAgree(log')
        /\ ~FactContradicts(tables, k, e.at, v)
        /\ tables' = FactApplied(tables, k, e.at, v)
        /\ UNCHANGED market

\* A tick is latest-only: it leaves no event behind.
UpdateMarketSnapshot(at, v) ==
    /\ ~Contradicts(market, at, v)
    /\ market' = Newest(market, at, v)
    /\ UNCHANGED <<log, tables>>

-----------------------------------------------------------------------------
\* A reconciliation result.

\* compare_full_set
SetIsNewer(t, kind, at) == at > t.checkpoint.watermark[kind]
SetContradicts(t, kind, e) ==
    /\ e.at = t.checkpoint.watermark[kind]
    /\ Part(e.rows, KeysOf(kind)) # t.checkpoint.set[kind]

ResultContradicts(t, e) ==
    \/ \E k \in Snapshots \cap DOMAIN e.rows : Contradicts(t.latest[k], e.at, e.rows[k])
    \/ \E kind \in Kinds : SetContradicts(t, kind, e)
    \/ \E k \in Members \cap DOMAIN e.rows :
          SetIsNewer(t, KindOf(k), e.at) /\ Contradicts(t.latest[k], e.at, e.rows[k])

\* apply_position_full_set and apply_order_full_set: members are folded in, and
\* what the set no longer lists is deleted unless it was observed later.
\* Variant: the rows the set no longer lists stay.
KeepsUnlisted(t, k, e) ==
    IF SetIsNewer(t, KindOf(k), e.at) /\ k \in DOMAIN e.rows
    THEN Newest(t.latest[k], e.at, e.rows[k])
    ELSE t.latest[k]

MemberReplaced(t, k, e) ==
    IF ~SetIsNewer(t, KindOf(k), e.at) THEN t.latest[k]
    ELSE IF k \in DOMAIN e.rows THEN Newest(t.latest[k], e.at, e.rows[k])
    ELSE IF t.latest[k].at <= e.at THEN NoRow
    ELSE t.latest[k]

LatestAfterResult(t, e) ==
    [k \in Keys |->
        IF k \in Members THEN MemberReplaced(t, k, e)
        ELSE IF k \in DOMAIN e.rows THEN Newest(t.latest[k], e.at, e.rows[k])
        ELSE t.latest[k]]

MembersAfterResult(t, e) ==
    [kind \in Kinds |->
        IF SetIsNewer(t, kind, e.at)
        THEN [at |-> e.at, rows |-> Part(e.rows, KeysOf(kind))]
        ELSE t.members[kind]]

Later(a, b) == IF a >= b THEN a ELSE b

\* advance_checkpoint: symbols and pending say whether the result also attests
\* to the symbol metadata and to the account's commands.
\* Variant: a result that arrives late moves the watermark back.
LastArrival(c, e, symbols, pending) ==
    [c EXCEPT !.source = e.req, !.at = e.at,
              !.watermark = [kind \in Kinds |-> e.at],
              !.set = [kind \in Kinds |-> Part(e.rows, KeysOf(kind))],
              !.updated = Later(c.updated, e.received)]

CheckpointAfterResult(c, e, symbols, pending) ==
    [source    |-> IF e.at > c.at \/ (e.at = c.at /\ e.req < c.source)
                   THEN e.req ELSE c.source,
     at        |-> Later(c.at, e.at),
     account   |-> IF Account \in DOMAIN e.rows THEN Later(c.account, e.at) ELSE c.account,
     symbols   |-> IF symbols THEN Later(c.symbols, e.at) ELSE c.symbols,
     pending   |-> IF pending THEN Later(c.pending, e.at) ELSE c.pending,
     watermark |-> [kind \in Kinds |-> Later(c.watermark[kind], e.at)],
     set       |-> [kind \in Kinds |-> IF e.at > c.watermark[kind]
                                       THEN Part(e.rows, KeysOf(kind)) ELSE c.set[kind]],
     updated   |-> Later(c.updated, e.received)]

ResultApplied(t, e, symbols, pending) ==
    [latest     |-> LatestAfterResult(t, e),
     bars       |-> t.bars,
     members    |-> MembersAfterResult(t, e),
     checkpoint |-> CheckpointAfterResult(t.checkpoint, e, symbols, pending)]

-----------------------------------------------------------------------------
ProjectionsInit ==
    /\ log = {}
    /\ tables = EmptyTables
    /\ market = NoRow

IngestSome ==
    \E e \in Facts : Ingest(e)

UpdateSomeMarket ==
    \E tick \in Ticks : UpdateMarketSnapshot(tick.at, tick.v)
=============================================================================
