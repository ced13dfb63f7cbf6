--------------------------- MODULE ProjectionRebuild ---------------------------
(***************************************************************************)
(* Rebuilding the projections of StateProjections from the event log:       *)
(* rebuild_ingest_projections, and the rebuild of one account that a        *)
(* redelivered result triggers.  The tables are cleared and every event is   *)
(* applied again in the order of arrival time and event id, which need not  *)
(* be the order in which the events were committed.  The first event that   *)
(* contradicts what was rebuilt so far rolls everything back.                *)
(***************************************************************************)
EXTENDS ReconciliationRuns

\* Event ids are compared.
ASSUME IdsAreOrdered == Ids \subseteq Nat

\* ORDER BY received_at, created_at, event_id; created_at is the arrival time.
Before(e, f) == e.received < f.received \/ (e.received = f.received /\ e.id < f.id)
Nth(S, n) == CHOOSE e \in S : Cardinality({f \in S : Before(f, e)}) = n - 1

EventContradicts(t, e) ==
    IF e.req = 0 THEN FactContradicts(t, KeyOf(e), e.at, e.rows[KeyOf(e)])
                 ELSE ResultContradicts(t, e)

EventApplied(t, e) ==
    IF e.req = 0 THEN FactApplied(t, KeyOf(e), e.at, e.rows[KeyOf(e)])
    ELSE ResultApplied(t, e, runs[e.req].symbols,
                       runs[e.req].disposition = "COMPLETED" /\ runs[e.req].scope)

\* replay_reconciliation_event_ids: one event, unless an earlier one failed.
Replayed(before, e) ==
    IF ~before.ok \/ EventContradicts(before.tables, e)
    THEN [ok |-> FALSE, tables |-> before.tables]
    ELSE [ok |-> TRUE, tables |-> EventApplied(before.tables, e)]

Replay(S, start) ==
    LET replayed[n \in 0 .. Cardinality(S)] ==
            IF n = 0 THEN [ok |-> TRUE, tables |-> start]
            ELSE Replayed(replayed[n - 1], Nth(S, n))
    IN  replayed[Cardinality(S)]

Singles == {e \in log : e.req = 0}
IsBar(e) == DOMAIN e.rows = {Bar}

\* The tables of the account, cleared.
Cleared(bars) == [EmptyTables EXCEPT !.bars = bars]

\* The single snapshots and the bars first; then everything but the bars again,
\* with the full sets in between.
Ingested == Replay(Singles, EmptyTables)
Rebuilt == Replay({e \in log : ~IsBar(e)}, Cleared(Ingested.tables.bars))
AccountRebuilt == Replay({e \in log : ~IsBar(e)}, Cleared(tables.bars))

RebuildIngestProjections ==
    /\ ObservationsAgree(log)
    /\ Ingested.ok /\ Rebuilt.ok
    /\ tables' = Rebuilt.tables
    /\ UNCHANGED <<log, market>> /\ UNCHANGED reconVars

\* commit_reconciliation_result_on for a result that is already stored.
RepeatResult(r) ==
    /\ runs[r].result # 0
    /\ ObservationsAgree(log)
    /\ AccountRebuilt.ok
    /\ tables' = AccountRebuilt.tables
    /\ UNCHANGED <<log, market>> /\ UNCHANGED reconVars

RebuildNext ==
    \/ Next
    \/ RebuildIngestProjections
    \/ \E r \in Requests : RepeatResult(r)

RebuildSpec == Init /\ [][RebuildNext]_vars

-----------------------------------------------------------------------------
SnapshotsDisagree ==
    \E e, f \in log : /\ e.at = f.at
                      /\ \E k \in Snapshots \cap DOMAIN e.rows \cap DOMAIN f.rows :
                            e.rows[k] # f.rows[k]

\* A rebuild that succeeds restores exactly the tables that the live writes
\* left, checkpoint and bars included: the order of arrival is as good as the
\* order of commit. Positions, orders, bars and full sets never stand in its
\* way: it can only fail on two account or symbol observations of one moment.
RebuildReproducesTables ==
    /\ Ingested.ok /\ Rebuilt.ok => Rebuilt.tables = tables
    /\ AccountRebuilt.ok => AccountRebuilt.tables = tables
    /\ (Ingested.ok /\ Rebuilt.ok) \/ SnapshotsDisagree
=============================================================================
