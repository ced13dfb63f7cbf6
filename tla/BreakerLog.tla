----------------------------- MODULE BreakerLog -----------------------------
(***************************************************************************)
(* The durable circuit breaker: the log of its snapshots                   *)
(* (crates/store/src/repository.rs), the restore at the start of a process *)
(* (crates/core/src/circuit_breaker_durable.rs) and the processes that     *)
(* move it on.                                                             *)
(*                                                                         *)
(* Only the newest row of the log is ever read, so `head' is that row.     *)
(* Every query and every write is a transaction of its own: between two of *)
(* them other processes run, rows go bad, processes die.  The time a       *)
(* process reads is arbitrary: its clock may have been set back.           *)
(*                                                                         *)
(* No caller of transition exists in the repository yet.  Step is the one  *)
(* its documentation asks for: the outcome is written with the revision    *)
(* the state was read at, and a process whose write is refused starts over.*)
(***************************************************************************)
EXTENDS CircuitBreaker

CONSTANTS
    Processes,
    Calls,          \* a policy and a transition request
    Times,          \* what a clock may show
    MaxStoredEpoch, \* i64::MAX
    MaxReloads,     \* max_cas_reloads
    MaxRevision,    \* bound: rows of the log
    MaxDamage       \* bound: rows that go bad

ASSUME LogAssumption ==
    /\ MaxStoredEpoch \in Nat /\ MaxStoredEpoch < MaxEpoch
    /\ MaxReloads \in Nat /\ MaxRevision \in Nat /\ MaxDamage \in Nat
    /\ Times \subseteq Int
    /\ \A call \in Calls :
           call.request.kind \in {"Observe", "EnterHalfOpen", "Close", "RecordBlocked"}

\* An observation has its numbers, and an operator a text for a name.
ASSUME CallsAssumption ==
    \A call \in Calls :
        /\ call.request.kind = "EnterHalfOpen" =>
               call.request.input.loss \in Nat /\ call.request.input.drawdown \in Nat
        /\ call.request.kind = "Close" => call.request.by.operator # None

VARIABLES
    head,           \* the newest row of circuit_breaker_snapshots
    proc,           \* process -> what it is about
    damage          \* how many rows may still go bad

vars == <<head, proc, damage>>

Row(revision, s, now) ==
    [revision |-> revision, state |-> s, updatedAt |-> Latest(0, {now}), condition |-> "good"]

\* The columns of a row; of no row at all, zeros.
Metadata(row) == [revision |-> row.revision, epoch |-> row.state.epoch]

\* phase: where the restore stands; seen: the head it read; reloads: how often
\* its write was overtaken; state, revision: what it holds, or is to write.
Idle == [phase |-> "down", now |-> 0, seen |-> [revision |-> 0, epoch |-> 0], reloads |-> 0,
         state |-> New, revision |-> 0]

Up(s, revision) == [Idle EXCEPT !.phase = "up", !.state = s, !.revision = revision]

\* A log without rows has revision zero.
Init ==
    /\ head = Row(0, New, 0)
    /\ proc = [p \in Processes |-> Idle]
    /\ damage = MaxDamage

-----------------------------------------------------------------------------
(* The write: compare-and-swap on the newest revision. *)

\* validate_new_circuit_breaker_snapshot: the epoch is stored as an i64
Storable(s) == s.epoch <= MaxStoredEpoch

\* same_circuit_breaker_snapshot
IsSame(row, expected, s, now) == row = Row(expected + 1, s, now)

\* Variant: a row that is already there is taken for the one to write.
AnyDuplicate(expected, s, now) ==
    IF ~Storable(s) THEN "invalid"
    ELSE IF head.revision = expected THEN "inserted"
    ELSE IF head.revision = expected + 1 THEN "duplicate"
    ELSE "stale"

\* write_circuit_breaker_snapshot_on
Written(expected, s, now) ==
    IF ~Storable(s) THEN "invalid"
    ELSE IF head.revision = expected THEN "inserted"
    ELSE IF head.revision # expected + 1 THEN "stale"
    ELSE IF head.condition = "corrupt" THEN "failed"
    ELSE IF IsSame(head, expected, s, now) THEN "duplicate"
    ELSE "stale"

\* The log after a write.
Log(expected, s, now) ==
    head' = IF Written(expected, s, now) = "inserted" THEN Row(expected + 1, s, now) ELSE head

-----------------------------------------------------------------------------
(* Restoring at the start of a process. *)

Start(p) ==
    /\ proc[p].phase = "down"
    /\ \E now \in Times :
           proc' = [proc EXCEPT ![p] = [Idle EXCEPT !.phase = "head", !.now = now]]
    /\ UNCHANGED <<head, damage>>

\* get_circuit_breaker_head_metadata: the columns, not the payload
ReadHead(p) ==
    /\ proc[p].phase = "head"
    /\ proc' = [proc EXCEPT ![p].phase = "latest", ![p].seen = Metadata(head)]
    /\ UNCHANGED <<head, damage>>

\* Variant: a restore that fails starts the epochs over.
FirstEpoch(p) == FailClosed(<<"CorruptPayload">>, proc[p].now, 0)

\* get_latest_circuit_breaker_snapshot reports a corrupt row as no row at all.
Unreadable == head.revision = 0 \/ head.condition = "corrupt"

LatestFailure(p) ==
    IF Unreadable
    THEN IF proc[p].seen.revision = 0 THEN <<"MissingSnapshot">> ELSE <<"CorruptPayload">>
    ELSE IF proc[p].seen.revision > head.revision THEN <<"CorruptPayload">>
    ELSE IF head.condition = "foreign" THEN <<"UnsupportedSchemaVersion">>
    ELSE RestoreFailure(head.state, proc[p].now)

Restorable(p) == ~Unreadable /\ LatestFailure(p) = None

\* effective_head: the row the fail-closed state is to follow
EffectiveHead(p) ==
    IF Unreadable \/ proc[p].seen.revision > head.revision THEN proc[p].seen ELSE Metadata(head)

Fallback(p) == FailClosed(LatestFailure(p), proc[p].now, EffectiveHead(p).epoch)

ReadLatest(p) ==
    /\ proc[p].phase = "latest"
    /\ proc' = IF Restorable(p)
               THEN [proc EXCEPT ![p] = Up(head.state, head.revision)]
               ELSE [proc EXCEPT ![p].phase = "write", ![p].state = Fallback(p),
                                 ![p].revision = EffectiveHead(p).revision]
    /\ UNCHANGED <<head, damage>>

WriteFallback(p) ==
    /\ proc[p].phase = "write"
    /\ LET q == proc[p]
           outcome == Written(q.revision, q.state, q.now)
       IN  /\ outcome = "inserted" => q.revision < MaxRevision
           /\ Log(q.revision, q.state, q.now)
           /\ proc' = CASE outcome \in {"inserted", "duplicate"} ->
                               [proc EXCEPT ![p] = Up(q.state, q.revision + 1)]
                        [] outcome = "stale" /\ q.reloads < MaxReloads ->
                               [proc EXCEPT ![p].phase = "head", ![p].reloads = q.reloads + 1,
                                            ![p].state = New, ![p].revision = 0]
                        [] OTHER -> [proc EXCEPT ![p] = Idle]
    /\ UNCHANGED damage

-----------------------------------------------------------------------------
(* Running. *)

Step(p) ==
    /\ proc[p].phase = "up"
    /\ \E call \in Calls, now \in Times :
           LET q == proc[p]
               next == Transition(call.policy, q.state, call.request, now)
               outcome == Written(q.revision, next, now)
           IN  /\ next # q.state
               /\ outcome = "inserted" => q.revision < MaxRevision
               /\ Log(q.revision, next, now)
               /\ proc' = CASE outcome \in {"inserted", "duplicate"} ->
                                   [proc EXCEPT ![p] = Up(next, q.revision + 1)]
                            [] OTHER -> [proc EXCEPT ![p] = Idle]
    /\ UNCHANGED damage

Crash(p) ==
    /\ proc[p].phase # "down"
    /\ proc' = [proc EXCEPT ![p] = Idle]
    /\ UNCHANGED <<head, damage>>

\* A payload that no longer matches its hash, or that another release wrote.
Damage ==
    /\ damage > 0 /\ head.revision > 0
    /\ \E c \in {"corrupt", "foreign"} : head' = [head EXCEPT !.condition = c]
    /\ damage' = damage - 1
    /\ UNCHANGED proc

Next ==
    \/ \E p \in Processes :
           Start(p) \/ ReadHead(p) \/ ReadLatest(p) \/ WriteFallback(p) \/ Step(p) \/ Crash(p)
    \/ Damage

Spec == Init /\ [][Next]_vars

-----------------------------------------------------------------------------
(* Properties. *)

TypeOK ==
    /\ head.revision \in 0 .. MaxRevision
    /\ head.state.epoch \in 0 .. MaxStoredEpoch
    /\ head.state.status \in Statuses
    /\ head.condition \in {"good", "corrupt", "foreign"}
    /\ \A p \in Processes :
           /\ proc[p].phase \in {"down", "head", "latest", "write", "up"}
           /\ proc[p].reloads \in 0 .. MaxReloads
           /\ proc[p].revision \in 0 .. MaxRevision
           /\ proc[p].state.epoch \in 0 .. MaxEpoch
    /\ damage \in 0 .. MaxDamage

\* A process that is up at the newest revision holds the state of that row:
\* what it lets through is what a restart would.
HoldsTheHead ==
    \A p \in Processes : proc[p].phase = "up" =>
        /\ proc[p].revision <= head.revision
        /\ proc[p].revision = head.revision => proc[p].state = head.state

\* Every state a transition or a restore writes is one that a restart accepts
\* as soon as its clock has reached the times in it: validate_restored_state
\* never refuses what the domain itself produced.
StoredStateIsRestorable ==
    RestoreFailure(head.state, Latest(0, Stamps(head.state))) = None

Promise == INSTANCE BreakerPromise WITH
    status <- IF head.revision = 0 THEN "MISSING" ELSE head.state.status,
    epoch <- head.state.epoch

\* The stored breaker keeps its promise whoever writes it and whatever becomes
\* of its rows: no incident is closed but through half open, none is half open
\* or closed under the epoch of another, and epochs are never used twice.
KeepsPromise == Promise!Spec
=============================================================================
