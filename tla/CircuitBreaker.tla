--------------------------- MODULE CircuitBreaker ---------------------------
(***************************************************************************)
(* The circuit breaker of crates/risk/src/circuit_breaker.rs: what one     *)
(* request makes of a state (transition), and which stored states a        *)
(* restart accepts (validate_restored_state).  The code is a pure          *)
(* function of a policy, a state, a request and the time; so is this.      *)
(*                                                                         *)
(* A violation is represented by the evidence that incident_fingerprint    *)
(* makes of it: a tuple that begins with its kind.  Of an outcome only the *)
(* state is kept: its error is in the fingerprint when it changes anything.*)
(***************************************************************************)
EXTENDS Integers, Sequences, FiniteSets

CONSTANTS
    None,           \* an Option that is empty
    Blank,          \* a text that is empty once trimmed
    MaxEpoch        \* u64::MAX

ASSUME EpochAssumption == MaxEpoch \in Nat \ {0}

ASSUME OptionAssumption ==
    /\ None \notin Int /\ None # "AUTOMATIC"
    /\ Blank \notin {None, "AUTOMATIC"}

Statuses == {"CLOSED", "OPEN", "HALF_OPEN"}

New ==
    [epoch |-> 0, status |-> "CLOSED", reason |-> "Ok",
     triggeredAt |-> None, triggeredBy |-> None,
     fingerprint |-> None, clearedAt |-> None,
     halfOpenedAt |-> None, lossBaseline |-> None, drawdownBaseline |-> None,
     resetAt |-> None, resetBy |-> None, blocked |-> 0]

Stamps(s) == {s.triggeredAt, s.clearedAt, s.halfOpenedAt, s.resetAt} \ {None}

Latest(t, S) == CHOOSE u \in S \cup {t} : \A v \in S \cup {t} : v <= u

PolicyError(policy) ==
    LET zero == SelectSeq(<<"maxLoss", "maxDrawdown", "maxRejections", "maxFailures", "observation">>,
                          LAMBDA field : policy[field] = 0)
    IN  IF zero # <<>> THEN <<"InvalidPolicy", zero[1]>>
        ELSE IF policy.maxUnsynced < 0 THEN <<"InvalidPolicy", "maxUnsynced">>
        ELSE None

-----------------------------------------------------------------------------
(* Evidence of an incident. *)

ReasonOf(evidence) ==
    CASE evidence[1] \in {"DailyRealizedLoss", "DailyRealizedLossWorsened"} -> "DailyRealizedLossLimit"
      [] evidence[1] \in {"EquityDrawdown", "EquityDrawdownWorsened"} -> "EquityDrawdownLimit"
      [] evidence[1] = "SafetyInvariantError" -> "SafetyInvariantViolation"
      [] OTHER -> evidence[1]

SourceOf(evidence) ==
    CASE evidence[1] \in {"DailyRealizedLoss", "DailyRealizedLossWorsened",
                          "EquityDrawdown", "EquityDrawdownWorsened"} -> <<"RiskTelemetry">>
      [] evidence[1] = "ConsecutiveBrokerRejections" -> <<"Broker">>
      [] evidence[1] \in {"ConsecutiveCommandFailures",
                          "HardRiskViolationDuringRecovery"} -> <<"Execution">>
      [] evidence[1] = "ManualReconciliationRequired" -> <<"Reconciliation">>
      [] evidence[1] = "StoreRecoveryReconciliationPending" -> <<"StoreRecovery">>
      [] evidence[1] = "TimeSyncUnhealthy" -> <<"Clock">>
      [] evidence[1] \in {"SnapshotStale", "SymbolMetadataStale"} -> <<"SnapshotHealth">>
      [] evidence[1] = "ManualTrigger" -> <<"Operator", evidence[2].operator>>
      [] OTHER -> <<"SafetyInvariant">>

Financial(evidence) == evidence[1] \in {"DailyRealizedLoss", "EquityDrawdown"}

InputError(input, now) ==
    IF input.trigger # None /\ input.trigger.operator = Blank THEN <<"InvalidInput", "operator_id">>
    ELSE IF input.trigger # None /\ input.trigger.reason = Blank THEN <<"InvalidInput", "reason">>
    ELSE IF input.unsyncedSince # None /\ input.unsyncedSince \notin 0 .. now
         THEN <<"InvalidInput", "time_sync_unhealthy_since_ms">>
    ELSE None

\* The evidence of one check, if it fails.
When(fails, evidence) == IF fails THEN <<evidence>> ELSE <<>>

LossViolation(policy, input) ==
    When(input.loss >= policy.maxLoss, <<"DailyRealizedLoss", input.loss, policy.maxLoss>>)

DrawdownViolation(policy, input) ==
    When(input.drawdown >= policy.maxDrawdown,
         <<"EquityDrawdown", input.drawdown, policy.maxDrawdown>>)

OtherViolations(policy, input, now) ==
       When(input.rejections >= policy.maxRejections,
            <<"ConsecutiveBrokerRejections", input.rejections, policy.maxRejections>>)
    \o When(input.failures >= policy.maxFailures,
            <<"ConsecutiveCommandFailures", input.failures, policy.maxFailures>>)
    \o When(input.manualRuns > 0, <<"ManualReconciliationRequired", input.manualRuns>>)
    \o When(input.recoveryPending, <<"StoreRecoveryReconciliationPending">>)
    \o When(input.unsyncedSince # None /\ now - input.unsyncedSince > policy.maxUnsynced,
            <<"TimeSyncUnhealthy", input.unsyncedSince, policy.maxUnsynced>>)
    \o When(input.staleSnapshots > policy.maxStaleSnapshots,
            <<"SnapshotStale", input.staleSnapshots, policy.maxStaleSnapshots>>)
    \o When(input.staleMetadata > policy.maxStaleMetadata,
            <<"SymbolMetadataStale", input.staleMetadata, policy.maxStaleMetadata>>)
    \o When(input.trigger # None, <<"ManualTrigger", input.trigger>>)

\* collect_violations, as the fingerprint of what it collects, every check in its
\* order
Violations(policy, input, now) ==
    LossViolation(policy, input) \o DrawdownViolation(policy, input)
        \o OtherViolations(policy, input, now)

\* A loss or a drawdown that is worse than it was when the breaker became half
\* open counts, whatever the limit; one that is not does not.
Worse(observed, baseline, violation, worsened) ==
    IF observed <= baseline THEN <<>>
    ELSE IF violation # <<>> THEN violation
    ELSE << <<worsened, baseline, observed>> >>

\* filter_half_open_violations
HalfOpenViolations(policy, s, input, now) ==
       Worse(input.loss, s.lossBaseline,
             LossViolation(policy, input), "DailyRealizedLossWorsened")
    \o Worse(input.drawdown, s.drawdownBaseline,
             DrawdownViolation(policy, input), "EquityDrawdownWorsened")
    \o OtherViolations(policy, input, now)

-----------------------------------------------------------------------------
(* Opening. *)

Incident(s, epoch, fingerprint, at) ==
    [New EXCEPT !.epoch = epoch, !.status = "OPEN",
                !.reason = ReasonOf(fingerprint[1]),
                !.triggeredAt = at, !.triggeredBy = SourceOf(fingerprint[1]),
                !.fingerprint = fingerprint, !.blocked = s.blocked]

FallbackAt(s, now) == Latest(0, Stamps(s) \cup {now})

\* recovery_epoch_overflow
Overflow(s, now) ==
    Incident(s, s.epoch, << <<"SafetyInvariantError", <<"RecoveryEpochOverflow">> >> >>, FallbackAt(s, now))

Open(s, fingerprint, now) ==
    IF s.epoch = MaxEpoch THEN Overflow(s, now)
    ELSE Incident(s, s.epoch + 1, fingerprint, now)

SafetyFallback(s, now, error) ==
    LET fingerprint == << <<"SafetyInvariantError", error>> >>
    IN  IF s.status = "OPEN" /\ s.fingerprint = fingerprint THEN s
        ELSE Open(s, fingerprint, FallbackAt(s, now))

-----------------------------------------------------------------------------
(* The requests. *)

ObserveHalfOpen(policy, s, input, now) ==
    IF None \in {s.lossBaseline, s.drawdownBaseline}
    THEN SafetyFallback(s, now, <<"HalfOpenBaselineMissing">>)
    ELSE LET seen == HalfOpenViolations(policy, s, input, now)
         IN  IF seen = <<>> THEN s ELSE Open(s, seen, now)

\* Variant: the evidence is kept when the episode ends.
KeepsEvidence(s, now) == [s EXCEPT !.clearedAt = now]

Cleared(s, now) == [s EXCEPT !.fingerprint = None, !.clearedAt = now]

\* A healthy observation ends the episode of an open breaker: the same
\* evidence seen later is another incident.
Observe(policy, s, input, now) ==
    LET error == InputError(input, now)
        seen == Violations(policy, input, now)
    IN  IF error # None THEN SafetyFallback(s, now, error)
        ELSE IF s.status = "HALF_OPEN" THEN ObserveHalfOpen(policy, s, input, now)
        ELSE IF seen # <<>> THEN
            IF s.status = "OPEN" /\ s.fingerprint = seen THEN s ELSE Open(s, seen, now)
        ELSE IF s.status = "OPEN" /\ s.fingerprint # None
             THEN Cleared(s, now)
        ELSE s

HalfOpened(s, input, now) ==
    [s EXCEPT !.status = "HALF_OPEN", !.halfOpenedAt = now,
              !.lossBaseline = input.loss, !.drawdownBaseline = input.drawdown]

\* missing_half_open_prerequisites
Impossible(stamp, now) == stamp # None /\ stamp \notin 0 .. now
Missing(stamp, triggeredAt) == stamp = None \/ stamp < triggeredAt

\* readiness.stamps: when the account, the positions, the orders and the symbol
\* metadata were refreshed and the pending commands reconciled.
EnterHalfOpenFromOpen(policy, s, readiness, input, now) ==
    LET error == InputError(input, now)
        seen == Violations(policy, input, now)
        stamps == readiness.stamps
    IN  IF error # None THEN SafetyFallback(s, now, error)
        ELSE IF seen # <<>> /\ s.fingerprint # seen THEN Open(s, seen, now)
        ELSE IF \E i \in DOMAIN seen : ~Financial(seen[i]) THEN s
        ELSE IF s.triggeredAt = None
             THEN SafetyFallback(s, now, <<"InvalidInput", "state.triggered_at_ms">>)
        ELSE IF readiness.epoch # s.epoch THEN s
        ELSE IF \E i \in DOMAIN stamps : Impossible(stamps[i], now)
             THEN SafetyFallback(s, now, <<"InvalidInput", "readiness",
                      CHOOSE i \in DOMAIN stamps :
                          /\ Impossible(stamps[i], now)
                          /\ \A j \in 1 .. i - 1 : ~Impossible(stamps[j], now)>>)
        ELSE IF \E i \in DOMAIN stamps : Missing(stamps[i], s.triggeredAt) THEN s
        ELSE HalfOpened(s, input, now)

EnterHalfOpen(policy, s, readiness, input, now) ==
    CASE s.status = "CLOSED"    -> s
      [] s.status = "HALF_OPEN" -> Observe(policy, s, input, now)
      [] s.status = "OPEN"      -> EnterHalfOpenFromOpen(policy, s, readiness, input, now)

\* validate_manual_reset_evidence, auto_reset
Authorized(policy, by) ==
    IF by.automatic THEN policy.autoReset ELSE by.operator # Blank /\ by.evidenced

Reset(s, by, now) ==
    [s EXCEPT !.status = "CLOSED", !.reason = "Ok", !.halfOpenedAt = None,
              !.lossBaseline = None, !.drawdownBaseline = None, !.resetAt = now,
              !.resetBy = IF by.automatic THEN "AUTOMATIC" ELSE by.operator]

CloseHalfOpen(policy, s, health, by, now) ==
    LET error == InputError(health.input, now)
        seen == HalfOpenViolations(policy, s, health.input, now)
                \o (IF health.hardRisk THEN << <<"HardRiskViolationDuringRecovery">> >> ELSE <<>>)
    IN  IF error # None THEN SafetyFallback(s, now, error)
        ELSE IF None \in {s.lossBaseline, s.drawdownBaseline}
             THEN SafetyFallback(s, now, <<"HalfOpenBaselineMissing">>)
        ELSE IF seen # <<>> THEN Open(s, seen, now)
        ELSE IF ~health.clock \/ ~health.store THEN s
        ELSE IF s.halfOpenedAt = None
             THEN SafetyFallback(s, now, <<"HalfOpenBaselineMissing">>)
        ELSE IF now - s.halfOpenedAt < policy.observation THEN s
        ELSE IF ~Authorized(policy, by) THEN s
        ELSE Reset(s, by, now)

Close(policy, s, health, by, now) ==
    IF s.status = "HALF_OPEN" THEN CloseHalfOpen(policy, s, health, by, now) ELSE s

RecordBlocked(s, total) ==
    IF total <= s.blocked THEN s ELSE [s EXCEPT !.blocked = total]

Apply(policy, s, request, now) ==
    CASE request.kind = "Observe" -> Observe(policy, s, request.input, now)
      [] request.kind = "EnterHalfOpen" ->
            EnterHalfOpen(policy, s, request.readiness, request.input, now)
      [] request.kind = "Close" -> Close(policy, s, request.health, request.by, now)
      [] request.kind = "RecordBlocked" -> RecordBlocked(s, request.total)

Transition(policy, s, request, now) ==
    IF now < 0 THEN SafetyFallback(s, now, <<"InvalidInput", "server_now_ms">>)
    ELSE IF PolicyError(policy) # None THEN SafetyFallback(s, now, PolicyError(policy))
    ELSE IF now < Latest(0, Stamps(s))
         THEN SafetyFallback(s, now, <<"ServerTimeRegressed", Latest(0, Stamps(s)), now>>)
    ELSE Apply(policy, s, request, now)

-----------------------------------------------------------------------------
(* Restoring. *)

FingerprintIsSound(s) ==
    LET f == s.fingerprint
    IN  /\ f # <<>>
        /\ \A i, j \in DOMAIN f : f[i] = f[j] => i = j
        /\ \A i \in DOMAIN f : f[i][1] = "ManualTrigger" =>
               f[i][2].operator # Blank /\ f[i][2].reason # Blank
        /\ s.status # "CLOSED" => s.reason = ReasonOf(f[1]) /\ s.triggeredBy = SourceOf(f[1])

StampsAreOrdered(s) ==
    /\ s.triggeredAt # None => \A t \in Stamps(s) : s.triggeredAt <= t
    /\ s.clearedAt # None => \A t \in {s.halfOpenedAt, s.resetAt} \ {None} : s.clearedAt <= t

\* What validate_restored_state asks of a state, but for the time.
StateIsSound(s) ==
    LET Has(x) == x # None
        recovery == {s.halfOpenedAt, s.lossBaseline, s.drawdownBaseline}
    IN  /\ s.epoch < MaxEpoch
        /\ \A t \in Stamps(s) : t >= 0
        /\ Has(s.triggeredAt) = Has(s.triggeredBy)
        /\ Has(s.triggeredAt) = (s.epoch > 0)
        /\ (s.status = "CLOSED") = (s.reason = "Ok")
        /\ Has(s.resetAt) = Has(s.resetBy)
        /\ s.resetBy # Blank
        /\ IF s.status = "HALF_OPEN" THEN None \notin recovery ELSE recovery = {None}
        /\ Has(s.resetAt) = (s.status = "CLOSED" /\ s.epoch > 0)
        /\ s.status = "CLOSED" /\ s.epoch = 0 => ~Has(s.fingerprint) /\ ~Has(s.clearedAt)
        /\ ~(Has(s.fingerprint) /\ Has(s.clearedAt))
        /\ s.status # "CLOSED" => Has(s.fingerprint) \/ Has(s.clearedAt)
        /\ s.triggeredBy # <<"Operator", Blank>>
        /\ Has(s.fingerprint) => FingerprintIsSound(s)
        /\ StampsAreOrdered(s)

\* validate_restored_state; a failure stands for its details: they are
\* determined by the row that was read and the time.
RestoreFailure(s, now) ==
    IF now < 0 THEN <<"InvalidServerTime", now>>
    ELSE IF \E t \in Stamps(s) : t > now THEN <<"SnapshotTimestampInFuture", now>>
    ELSE IF StateIsSound(s) THEN None
    ELSE <<"InvalidSnapshot">>

\* fail_closed_circuit_breaker_restore_after_epoch
FailClosed(failure, now, epoch) ==
    SafetyFallback([New EXCEPT !.epoch = epoch], now, <<"DurableRestoreFailed", failure>>)
=============================================================================
