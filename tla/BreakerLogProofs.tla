-------------------------- MODULE BreakerLogProofs --------------------------
(***************************************************************************)
(* The stored breaker keeps its promise, for any number of processes, any  *)
(* clocks, any requests and any epochs.  First what a transition may do to *)
(* the status and the epoch, then that a write which is accepted follows   *)
(* the row its writer had read.  Last that every stored state passes the   *)
(* checks of a restart: the violations a transition records are a          *)
(* catalogue (no kind twice, every trigger filled in), and a transition    *)
(* takes a restorable state to a restorable state.                         *)
(***************************************************************************)
EXTENDS BreakerLog, TLAPS

\* Zenon proves a leaf that names no other prover.
USE Zenon

Fields == {"epoch", "status", "reason", "triggeredAt", "triggeredBy", "fingerprint", "clearedAt",
           "halfOpenedAt", "lossBaseline", "drawdownBaseline", "resetAt", "resetBy", "blocked"}

IsState(s) ==
    /\ s = [f \in Fields |-> s[f]]
    /\ s.epoch \in 0 .. MaxEpoch
    /\ s.status \in Statuses

Opened(s, t) ==
    /\ t.status = "OPEN"
    /\ t.epoch = s.epoch + 1 \/ (s.epoch = MaxEpoch /\ t.epoch = MaxEpoch)

Moves(s, t) ==
    \/ t.epoch = s.epoch /\ t.status = s.status
    \/ Opened(s, t)
    \/ t.epoch = s.epoch /\ s.status = "OPEN" /\ t.status = "HALF_OPEN"
    \/ t.epoch = s.epoch /\ s.status = "HALF_OPEN" /\ t.status = "CLOSED"

\* The state of a breaker that was never used is a state.
LEMMA NewIsState == IsState(New) /\ New.epoch = 0 /\ New.status = "CLOSED"
  BY EpochAssumption, SMT DEF IsState, New, Fields, Statuses

\* An incident is an open state of its epoch.
LEMMA IncidentIsOpen ==
  ASSUME NEW s, NEW e \in 0 .. MaxEpoch, NEW f, NEW at
  PROVE  /\ IsState(Incident(s, e, f, at))
         /\ Incident(s, e, f, at).epoch = e
         /\ Incident(s, e, f, at).status = "OPEN"
<1>1. New = [g \in Fields |-> New[g]]
  BY DEF New, Fields
<1>2. Incident(s, e, f, at) = [g \in Fields |-> Incident(s, e, f, at)[g]]
  BY <1>1 DEF Incident
<1>3. Incident(s, e, f, at).epoch = e
  BY <1>1 DEF Incident, Fields
<1>4. Incident(s, e, f, at).status = "OPEN"
  BY <1>1 DEF Incident, Fields
<1> QED BY <1>2, <1>3, <1>4 DEF IsState, Statuses

\* open moves to the next epoch, but for the last one.
LEMMA OpenOpens ==
  ASSUME NEW s, IsState(s), NEW f, NEW now
  PROVE  IsState(Open(s, f, now)) /\ Opened(s, Open(s, f, now))
<1>1. CASE s.epoch = MaxEpoch
  <2>1. Open(s, f, now) = Overflow(s, now)
    BY <1>1 DEF Open
  <2>2. s.epoch \in 0 .. MaxEpoch
    BY DEF IsState
  <2> QED BY <1>1, <2>1, <2>2, IncidentIsOpen, SMT DEF Overflow, Opened
<1>2. CASE s.epoch # MaxEpoch
  <2>1. s.epoch + 1 \in 0 .. MaxEpoch
    BY <1>2, EpochAssumption, SMT DEF IsState
  <2>2. Open(s, f, now) = Incident(s, s.epoch + 1, f, now)
    BY <1>2 DEF Open
  <2> QED BY <2>1, <2>2, IncidentIsOpen, SMT DEF Opened
<1> QED BY <1>1, <1>2

\* safety_fallback opens or leaves an open state as it is.
LEMMA FallbackOpens ==
  ASSUME NEW s, IsState(s), NEW now, NEW error
  PROVE  /\ IsState(SafetyFallback(s, now, error))
         /\ \/ SafetyFallback(s, now, error) = s
            \/ Opened(s, SafetyFallback(s, now, error))
  BY OpenOpens DEF SafetyFallback

\* What the requests have in common: nothing, a fallback or another incident.
Ordinary(s, now, t) ==
    t = s \/ (\E error : t = SafetyFallback(s, now, error)) \/ (\E f : t = Open(s, f, now))

\* The ordinary outcomes keep the status and the epoch, or open the next one.
LEMMA OrdinaryMoves ==
  ASSUME NEW s, IsState(s), NEW now, NEW t, Ordinary(s, now, t)
  PROVE  IsState(t) /\ Moves(s, t)
  BY FallbackOpens, OpenOpens DEF Ordinary, Moves

\* observe never ends an incident.
LEMMA ObserveMoves ==
  ASSUME NEW policy, NEW s, IsState(s), NEW input, NEW now
  PROVE  /\ IsState(Observe(policy, s, input, now))
         /\ Moves(s, Observe(policy, s, input, now))
<1>1. IsState(Cleared(s, now)) /\ Cleared(s, now).epoch = s.epoch
      /\ Cleared(s, now).status = s.status
  BY DEF IsState, Fields, Cleared
<1>2. Ordinary(s, now, ObserveHalfOpen(policy, s, input, now))
  BY DEF ObserveHalfOpen, Ordinary
<1>3. \/ Observe(policy, s, input, now) = Cleared(s, now)
      \/ Ordinary(s, now, Observe(policy, s, input, now))
  BY <1>2 DEF Observe, Ordinary
<1> QED BY <1>1, <1>3, OrdinaryMoves DEF Moves

\* An open breaker becomes half open under its own epoch, or opens again.
LEMMA HalfOpenMoves ==
  ASSUME NEW policy, NEW s, IsState(s), NEW readiness, NEW input, NEW now
  PROVE  /\ IsState(EnterHalfOpen(policy, s, readiness, input, now))
         /\ Moves(s, EnterHalfOpen(policy, s, readiness, input, now))
<1> DEFINE t == EnterHalfOpenFromOpen(policy, s, readiness, input, now)
<1>1. s.status = "OPEN" =>
          /\ IsState(HalfOpened(s, input, now)) /\ HalfOpened(s, input, now).epoch = s.epoch
          /\ HalfOpened(s, input, now).status = "HALF_OPEN"
  BY DEF IsState, Fields, Statuses, HalfOpened
<1>2. t = HalfOpened(s, input, now) \/ Ordinary(s, now, t)
  BY DEF EnterHalfOpenFromOpen, Ordinary
<1>3. s.status = "OPEN" => IsState(t) /\ Moves(s, t)
  BY <1>1, <1>2, OrdinaryMoves DEF Moves
<1>4. s.status \in {"CLOSED", "OPEN", "HALF_OPEN"}
  BY DEF IsState, Statuses
<1> QED BY <1>3, <1>4, ObserveMoves DEF EnterHalfOpen, Moves

\* Only a half open breaker closes, under its own epoch.
LEMMA CloseMoves ==
  ASSUME NEW policy, NEW s, IsState(s), NEW health, NEW by, NEW now
  PROVE  /\ IsState(Close(policy, s, health, by, now))
         /\ Moves(s, Close(policy, s, health, by, now))
<1> DEFINE t == CloseHalfOpen(policy, s, health, by, now)
<1>1. /\ IsState(Reset(s, by, now)) /\ Reset(s, by, now).epoch = s.epoch
      /\ Reset(s, by, now).status = "CLOSED"
  BY DEF IsState, Fields, Statuses, Reset
<1>2. t = Reset(s, by, now) \/ Ordinary(s, now, t)
  BY DEF CloseHalfOpen, Ordinary
<1>3. s.status = "HALF_OPEN" => IsState(t) /\ Moves(s, t)
  BY <1>1, <1>2, OrdinaryMoves DEF Moves
<1> QED BY <1>3 DEF Close, Moves

\* transition, whatever the request, the policy and the time.
LEMMA TransitionMoves ==
  ASSUME NEW policy, NEW s, IsState(s), NEW request, NEW now,
         request.kind \in {"Observe", "EnterHalfOpen", "Close", "RecordBlocked"}
  PROVE  /\ IsState(Transition(policy, s, request, now))
         /\ Moves(s, Transition(policy, s, request, now))
<1>1. ASSUME NEW n
      PROVE  IsState([s EXCEPT !.blocked = n]) /\ [s EXCEPT !.blocked = n].epoch = s.epoch
             /\ [s EXCEPT !.blocked = n].status = s.status
  BY DEF IsState, Fields
<1>2. IsState(RecordBlocked(s, request.total)) /\ Moves(s, RecordBlocked(s, request.total))
  BY <1>1 DEF RecordBlocked, Moves
<1>3. IsState(Apply(policy, s, request, now)) /\ Moves(s, Apply(policy, s, request, now))
  BY <1>2, ObserveMoves, HalfOpenMoves, CloseMoves DEF Apply
<1>4. \/ Transition(policy, s, request, now) = Apply(policy, s, request, now)
      \/ Ordinary(s, now, Transition(policy, s, request, now))
  BY DEF Transition, Ordinary
<1> QED BY <1>3, <1>4, OrdinaryMoves

\* The state after a failed restore is open, under the epoch after the last.
LEMMA FailClosedOpens ==
  ASSUME NEW failure, NEW now, NEW epoch \in Nat, epoch < MaxEpoch
  PROVE  /\ IsState(FailClosed(failure, now, epoch))
         /\ FailClosed(failure, now, epoch).status = "OPEN"
         /\ FailClosed(failure, now, epoch).epoch = epoch + 1
<1> DEFINE s == [New EXCEPT !.epoch = epoch]
<1>1. IsState(s) /\ s.epoch = epoch /\ s.status = "CLOSED"
  BY EpochAssumption, SMT DEF IsState, New, Fields, Statuses
<1>2. PICK f, at : FailClosed(failure, now, epoch) = Open(s, f, at)
  BY <1>1 DEF FailClosed, SafetyFallback
<1> HIDE DEF s
<1>3. IsState(Open(s, f, at)) /\ Opened(s, Open(s, f, at))
  BY <1>1, OpenOpens
<1> QED BY <1>1, <1>2, <1>3, EpochAssumption, SMT DEF Opened

-----------------------------------------------------------------------------
(* The log. *)

HeadOK ==
    /\ head = [f \in {"revision", "state", "updatedAt", "condition"} |-> head[f]]
    /\ head.revision \in Nat
    /\ IsState(head.state)
    /\ head.state.epoch \in 0 .. MaxStoredEpoch

ProcOK ==
    /\ proc = [p \in Processes |-> proc[p]]
    /\ \A p \in Processes :
           /\ proc[p] = [f \in {"phase", "now", "seen", "reloads", "state", "revision"} |-> proc[p][f]]
           /\ proc[p].revision \in Nat
           /\ IsState(proc[p].state)

\* A head that was read is the newest row, or an older one.
SeenOK(q) ==
    /\ q.seen.revision \in 0 .. head.revision
    /\ q.seen.epoch \in 0 .. MaxStoredEpoch
    /\ q.seen.revision = head.revision => q.seen.epoch = head.state.epoch

\* What is to be written follows the newest row, or will be refused.
FallbackOK(q) ==
    /\ q.revision <= head.revision
    /\ q.revision = head.revision => q.state.status = "OPEN" /\ q.state.epoch = head.state.epoch + 1

UpOK(q) ==
    /\ q.revision \in 1 .. head.revision
    /\ q.revision = head.revision => q.state = head.state

PhaseOK(q) ==
    /\ q.phase \in {"down", "head", "latest", "write", "up"}
    /\ q.phase = "latest" => SeenOK(q)
    /\ q.phase = "write" => FallbackOK(q)
    /\ q.phase = "up" => UpOK(q)

IInv == HeadOK /\ ProcOK /\ \A p \in Processes : PhaseOK(proc[p])

\* The log only grows: what is known of the newest row stays true, or becomes
\* knowledge of an older one.
LogGrows ==
    \/ head'.revision = head.revision /\ head'.state = head.state
    \/ head'.revision > head.revision

\* A process that does nothing keeps its place when the log grows.
LEMMA PhaseIsKept ==
  ASSUME HeadOK, HeadOK', LogGrows, NEW q, q.revision \in Nat, PhaseOK(q)
  PROVE  PhaseOK(q)'
<1>1. SeenOK(q) => SeenOK(q)'
  BY SMT DEF SeenOK, LogGrows, HeadOK
<1>2. FallbackOK(q) => FallbackOK(q)'
  BY SMT DEF FallbackOK, LogGrows, HeadOK
<1>3. UpOK(q) => UpOK(q)'
  BY SMT DEF UpOK, LogGrows, HeadOK
<1> QED BY <1>1, <1>2, <1>3 DEF PhaseOK

\* An accepted write puts its row on top of the one it expected.
LEMMA LogWrites ==
  ASSUME HeadOK, NEW expected \in Nat, NEW s, IsState(s), NEW now, Log(expected, s, now)
  PROVE  /\ HeadOK' /\ LogGrows
         /\ Written(expected, s, now) = "inserted" =>
                head.revision = expected /\ head'.revision = expected + 1 /\ head'.state = s
         /\ Written(expected, s, now) = "duplicate" =>
                head' = head /\ head'.revision = expected + 1 /\ head'.state = s
         /\ Written(expected, s, now) # "inserted" => head' = head
<1>1. CASE Written(expected, s, now) = "inserted"
  <2>1. head' = Row(expected + 1, s, now) /\ head.revision = expected
    BY <1>1 DEF Log, Written
  <2>2. s.epoch \in 0 .. MaxStoredEpoch
    BY <1>1, LogAssumption, EpochAssumption, SMT DEF Written, Storable, IsState
  <2>3. /\ head' = [f \in {"revision", "state", "updatedAt", "condition"} |-> head'[f]]
        /\ head'.revision = expected + 1 /\ head'.state = s
    BY <2>1 DEF Row
  <2>4. HeadOK'
    BY <2>2, <2>3, SMT DEF HeadOK
  <2> QED BY <1>1, <2>1, <2>3, <2>4, SMT DEF LogGrows
<1>2. CASE Written(expected, s, now) # "inserted"
  <2>1. head' = head
    BY <1>2 DEF Log
  <2>2. HeadOK' /\ LogGrows
    BY <2>1 DEF HeadOK, LogGrows
  <2>3. Written(expected, s, now) = "duplicate" => head.revision = expected + 1 /\ head.state = s
    BY SMT DEF Written, IsSame, Row
  <2> QED BY <1>2, <2>1, <2>2, <2>3
<1> QED BY <1>1, <1>2

\* The restore that starts is the only process that moves.
LEMMA OthersKeep ==
  ASSUME IInv, HeadOK', LogGrows, NEW p \in Processes, NEW q,
         q = [f \in {"phase", "now", "seen", "reloads", "state", "revision"} |-> q[f]],
         q.revision \in Nat, IsState(q.state), PhaseOK(q)',
         proc' = [proc EXCEPT ![p] = q]
  PROVE  IInv'
<1>1. ProcOK'
  BY DEF IInv, ProcOK
<1>2. ASSUME NEW r \in Processes PROVE PhaseOK(proc[r])'
  <2>1. CASE r = p
    <3>1. proc'[r] = q
      BY <2>1 DEF IInv, ProcOK
    <3> QED BY <3>1
  <2>2. CASE r # p
    <3>1. proc'[r] = proc[r] /\ proc[r].revision \in Nat
      BY <2>2 DEF IInv, ProcOK
    <3>2. PICK o : o = proc[r]
      OBVIOUS
    <3>3. PhaseOK(o)'
      BY <3>1, <3>2, PhaseIsKept DEF IInv
    <3> QED BY <3>1, <3>2, <3>3
  <2> QED BY <2>1, <2>2
<1> QED BY <1>1, <1>2 DEF IInv

ProcFields == {"phase", "now", "seen", "reloads", "state", "revision"}

\* The process records that the actions assign.
LEMMA Records ==
  /\ Idle = [f \in ProcFields |-> Idle[f]] /\ Idle.revision = 0 /\ IsState(Idle.state)
  /\ Idle.phase = "down"
  /\ \A s, n : /\ Up(s, n) = [f \in ProcFields |-> Up(s, n)[f]]
                /\ Up(s, n).phase = "up" /\ Up(s, n).state = s /\ Up(s, n).revision = n
<1>1. /\ Idle = [f \in ProcFields |-> Idle[f]] /\ Idle.revision = 0 /\ Idle.state = New
      /\ Idle.phase = "down"
  BY DEF Idle, ProcFields
<1>2. ASSUME NEW s, NEW n
      PROVE  /\ Up(s, n) = [f \in ProcFields |-> Up(s, n)[f]]
             /\ Up(s, n).phase = "up" /\ Up(s, n).state = s /\ Up(s, n).revision = n
  BY <1>1 DEF Up, ProcFields
<1> QED BY <1>1, <1>2, NewIsState, SMT

\* The invariant holds of a log without rows.
LEMMA InitIInv == Init => IInv
<1> SUFFICES ASSUME Init PROVE IInv
  OBVIOUS
<1>1. HeadOK
  <2>1. IsState(New) /\ New.epoch = 0
    BY NewIsState
  <2> QED BY <2>1, LogAssumption, SMT DEF Init, HeadOK, Row
<1>2. ProcOK
  BY Records, SMT DEF Init, ProcOK, ProcFields
<1>3. \A p \in Processes : PhaseOK(proc[p])
  BY Records DEF Init, PhaseOK
<1> QED BY <1>1, <1>2, <1>3 DEF IInv

\* A step that leaves the log alone, and gives one process a record q.
LEMMA QuietStep ==
  ASSUME IInv, NEW p \in Processes, NEW q, q = [f \in ProcFields |-> q[f]],
         q.revision \in Nat, IsState(q.state), PhaseOK(q), head' = head,
         proc' = [proc EXCEPT ![p] = q]
  PROVE  IInv'
<1>1. HeadOK' /\ LogGrows
  BY DEF IInv, HeadOK, LogGrows
<1>2. PhaseOK(q)'
  BY <1>1, PhaseIsKept DEF IInv
<1> QED BY <1>1, <1>2, OthersKeep DEF ProcFields

\* The two reads of a restore.
LEMMA ReadsIInv == ASSUME IInv, NEW p \in Processes, ReadHead(p) \/ ReadLatest(p) PROVE IInv'
<1>0. /\ proc[p] = [f \in ProcFields |-> proc[p][f]] /\ proc[p].revision \in Nat
      /\ IsState(proc[p].state) /\ PhaseOK(proc[p])
      /\ head.revision \in Nat /\ head.state.epoch \in 0 .. MaxStoredEpoch /\ IsState(head.state)
  BY DEF IInv, ProcOK, ProcFields, HeadOK
<1>1. CASE ReadHead(p)
  <2>1. PICK q : q = [proc[p] EXCEPT !.phase = "latest", !.seen = Metadata(head)]
    OBVIOUS
  <2>2. /\ q = [f \in ProcFields |-> q[f]] /\ q.revision = proc[p].revision
        /\ q.state = proc[p].state /\ q.phase = "latest" /\ q.seen = Metadata(head)
    BY <1>0, <2>1 DEF ProcFields
  <2>3. PhaseOK(q)
    BY <1>0, <2>2, SMT DEF PhaseOK, SeenOK, Metadata
  <2>4. proc' = [proc EXCEPT ![p] = q] /\ head' = head
    BY <1>1, <2>1 DEF ReadHead
  <2> QED BY <1>0, <2>2, <2>3, <2>4, QuietStep
<1>2. CASE ReadLatest(p) /\ Restorable(p)
  <2>1. PICK q : q = Up(head.state, head.revision)
    OBVIOUS
  <2>2. ~Unreadable
    BY <1>2 DEF Restorable
  <2>3. head.revision \in 1 .. head.revision
    BY <1>0, <2>2, SMT DEF Unreadable
  <2>4. /\ q = [f \in ProcFields |-> q[f]] /\ q.revision = head.revision
        /\ q.state = head.state /\ q.phase = "up"
    BY <2>1, Records, SMT
  <2>5. PhaseOK(q)
    BY <2>3, <2>4 DEF PhaseOK, UpOK
  <2>6. proc' = [proc EXCEPT ![p] = q] /\ head' = head
    BY <1>2, <2>1 DEF ReadLatest
  <2> QED BY <1>0, <2>4, <2>5, <2>6, QuietStep
<1>3. CASE ReadLatest(p) /\ ~Restorable(p)
  <2>1. PICK q : q = [proc[p] EXCEPT !.phase = "write", !.state = Fallback(p),
                                     !.revision = EffectiveHead(p).revision]
    OBVIOUS
  <2>2. SeenOK(proc[p])
    BY <1>0, <1>3 DEF PhaseOK, ReadLatest
  <2>3. /\ EffectiveHead(p).revision \in 0 .. head.revision
        /\ EffectiveHead(p).epoch \in 0 .. MaxStoredEpoch
        /\ EffectiveHead(p).revision = head.revision => EffectiveHead(p).epoch = head.state.epoch
    BY <1>0, <2>2, SMT DEF EffectiveHead, SeenOK, Metadata
  <2>4. EffectiveHead(p).epoch \in Nat /\ EffectiveHead(p).epoch < MaxEpoch
    BY <2>3, LogAssumption, EpochAssumption, SMT
  <2>5. /\ IsState(Fallback(p)) /\ Fallback(p).status = "OPEN"
        /\ Fallback(p).epoch = EffectiveHead(p).epoch + 1
    BY <2>4, FailClosedOpens DEF Fallback
  <2>6. /\ q = [f \in ProcFields |-> q[f]] /\ q.revision = EffectiveHead(p).revision
        /\ q.state = Fallback(p) /\ q.phase = "write"
    BY <1>0, <2>1 DEF ProcFields
  <2>7. PhaseOK(q)
    BY <1>0, <2>3, <2>5, <2>6, SMT DEF PhaseOK, FallbackOK
  <2>8. proc' = [proc EXCEPT ![p] = q] /\ head' = head
    BY <1>3, <2>1 DEF ReadLatest
  <2> QED BY <2>3, <2>5, <2>6, <2>7, <2>8, <1>0, QuietStep, SMT
<1> QED BY <1>1, <1>2, <1>3

\* A write that is accepted leaves its writer at the newest row.
LEMMA WriterIsUp ==
  ASSUME IInv, NEW p \in Processes, NEW n \in Nat, NEW s, IsState(s), NEW now,
         Log(n, s, now), Written(n, s, now) \in {"inserted", "duplicate"},
         proc' = [proc EXCEPT ![p] = Up(s, n + 1)]
  PROVE  IInv'
<1>1. HeadOK' /\ LogGrows /\ head'.revision = n + 1 /\ head'.state = s
  BY LogWrites DEF IInv
<1>2. PICK q : q = Up(s, n + 1)
  OBVIOUS
<1>3. /\ q = [f \in ProcFields |-> q[f]] /\ q.revision = n + 1 /\ q.state = s /\ q.phase = "up"
  BY <1>2, Records, SMT
<1>4. PhaseOK(q)'
  BY <1>1, <1>3, SMT DEF PhaseOK, UpOK
<1>5. q.revision \in Nat /\ IsState(q.state)
  BY <1>3, SMT
<1> QED BY <1>1, <1>2, <1>3, <1>4, <1>5, OthersKeep DEF ProcFields

\* A write that is refused leaves the log alone; its writer starts over, or
\* reads the head again.
LEMMA WriterIsRefused ==
  ASSUME IInv, NEW p \in Processes, NEW q, q = [f \in ProcFields |-> q[f]],
         q.revision = 0, q.state = New, q.phase \in {"down", "head"},
         NEW n \in Nat, NEW s, IsState(s), NEW now,
         Log(n, s, now), Written(n, s, now) \notin {"inserted", "duplicate"},
         proc' = [proc EXCEPT ![p] = q]
  PROVE  IInv'
<1>1. head' = head
  BY LogWrites DEF IInv
<1>2. PhaseOK(q) /\ q.revision \in Nat /\ IsState(q.state)
  BY NewIsState, SMT DEF PhaseOK
<1> QED BY <1>1, <1>2, QuietStep

\* The write that ends a failed restore.
LEMMA WriteIInv == ASSUME IInv, NEW p \in Processes, WriteFallback(p) PROVE IInv'
<1> DEFINE o == Written(proc[p].revision, proc[p].state, proc[p].now)
<1>0. /\ proc[p] = [f \in ProcFields |-> proc[p][f]] /\ proc[p].revision \in Nat
      /\ IsState(proc[p].state) /\ Log(proc[p].revision, proc[p].state, proc[p].now)
  BY DEF IInv, ProcOK, ProcFields, WriteFallback
<1>1. CASE o \in {"inserted", "duplicate"}
  <2>1. proc' = [proc EXCEPT ![p] = Up(proc[p].state, proc[p].revision + 1)]
    BY <1>1 DEF WriteFallback
  <2> QED BY <1>0, <1>1, <2>1, WriterIsUp
<1>2. CASE o = "stale" /\ proc[p].reloads < MaxReloads
  <2>1. PICK q : q = [proc[p] EXCEPT !.phase = "head", !.reloads = proc[p].reloads + 1,
                                     !.state = New, !.revision = 0]
    OBVIOUS
  <2>2. /\ q = [f \in ProcFields |-> q[f]] /\ q.revision = 0 /\ q.state = New /\ q.phase = "head"
    BY <1>0, <2>1 DEF ProcFields
  <2>3. proc' = [proc EXCEPT ![p] = q]
    BY <1>2, <2>1 DEF WriteFallback
  <2> QED BY <1>0, <1>2, <2>2, <2>3, WriterIsRefused
<1>3. CASE o \notin {"inserted", "duplicate"} /\ ~(o = "stale" /\ proc[p].reloads < MaxReloads)
  <2>1. proc' = [proc EXCEPT ![p] = Idle]
    BY <1>3 DEF WriteFallback
  <2>2. Idle.revision = 0 /\ Idle.state = New /\ Idle.phase = "down"
        /\ Idle = [f \in ProcFields |-> Idle[f]]
    BY DEF Idle, ProcFields
  <2> QED BY <1>0, <1>3, <2>1, <2>2, WriterIsRefused
<1> QED BY <1>1, <1>2, <1>3

\* A transition and the write of its outcome.
LEMMA StepIInv == ASSUME IInv, NEW p \in Processes, Step(p) PROVE IInv'
<1>1. PICK call \in Calls, now \in Times :
          LET next == Transition(call.policy, proc[p].state, call.request, now)
              o == Written(proc[p].revision, next, now)
          IN  /\ Log(proc[p].revision, next, now)
              /\ proc' = CASE o \in {"inserted", "duplicate"} ->
                                  [proc EXCEPT ![p] = Up(next, proc[p].revision + 1)]
                           [] OTHER -> [proc EXCEPT ![p] = Idle]
  BY DEF Step
<1>2. PICK s : s = Transition(call.policy, proc[p].state, call.request, now)
  OBVIOUS
<1>3. proc[p].revision \in Nat /\ IsState(proc[p].state)
  BY DEF IInv, ProcOK
<1>4. IsState(s)
  BY <1>2, <1>3, TransitionMoves, LogAssumption, SMT
<1>5. CASE Written(proc[p].revision, s, now) \in {"inserted", "duplicate"}
  BY <1>1, <1>2, <1>3, <1>4, <1>5, WriterIsUp
<1>6. CASE Written(proc[p].revision, s, now) \notin {"inserted", "duplicate"}
  <2>1. Idle.revision = 0 /\ Idle.state = New /\ Idle.phase = "down"
        /\ Idle = [f \in ProcFields |-> Idle[f]]
    BY DEF Idle, ProcFields
  <2>2. proc' = [proc EXCEPT ![p] = Idle] /\ Log(proc[p].revision, s, now)
    BY <1>1, <1>2, <1>6
  <2> QED BY <1>3, <1>4, <1>6, <2>1, <2>2, WriterIsRefused
<1> QED BY <1>5, <1>6

\* Every step keeps the invariant.
LEMMA NextIInv == IInv /\ [Next]_vars => IInv'
<1> SUFFICES ASSUME IInv, [Next]_vars PROVE IInv'
  OBVIOUS
<1>1. ASSUME NEW p \in Processes, Start(p) PROVE IInv'
  <2>1. PICK now \in Times : proc' = [proc EXCEPT ![p] = [Idle EXCEPT !.phase = "head", !.now = now]]
    BY <1>1 DEF Start
  <2>2. PICK q : q = [Idle EXCEPT !.phase = "head", !.now = now]
    OBVIOUS
  <2>3. q = [f \in ProcFields |-> q[f]] /\ q.revision = 0 /\ q.state = New /\ q.phase = "head"
    BY <2>2 DEF Idle, ProcFields
  <2>4. q.revision \in Nat /\ IsState(q.state) /\ PhaseOK(q)
    BY <2>3, NewIsState, SMT DEF PhaseOK
  <2>5. head' = head /\ proc' = [proc EXCEPT ![p] = q]
    BY <1>1, <2>1, <2>2 DEF Start
  <2> QED BY <2>3, <2>4, <2>5, QuietStep
<1>2. ASSUME NEW p \in Processes, Crash(p) PROVE IInv'
  <2>1. PhaseOK(Idle)
    BY Records DEF PhaseOK
  <2> QED BY <1>2, <2>1, Records, QuietStep, SMT DEF Crash
<1>3. ASSUME Damage PROVE IInv'
  <2>1. PICK c : head' = [head EXCEPT !.condition = c]
    BY <1>3 DEF Damage
  <2>2. /\ head' = [f \in {"revision", "state", "updatedAt", "condition"} |-> head'[f]]
        /\ head'.revision = head.revision /\ head'.state = head.state
    BY <2>1 DEF IInv, HeadOK
  <2>3. HeadOK' /\ LogGrows
    BY <2>2 DEF IInv, HeadOK, LogGrows
  <2>4. proc' = proc /\ ProcOK'
    BY <1>3 DEF Damage, IInv, ProcOK
  <2>5. ASSUME NEW p \in Processes PROVE PhaseOK(proc[p])'
    <3>1. PICK o : o = proc[p]
      OBVIOUS
    <3>2. PhaseOK(o)'
      BY <2>3, <3>1, PhaseIsKept DEF IInv, ProcOK
    <3> QED BY <2>4, <3>1, <3>2
  <2> QED BY <2>3, <2>4, <2>5 DEF IInv
<1>4. CASE UNCHANGED vars
  BY <1>4 DEF vars, IInv, HeadOK, ProcOK, PhaseOK, SeenOK, FallbackOK, UpOK
<1> QED BY <1>1, <1>2, <1>3, <1>4, ReadsIInv, WriteIInv, StepIInv DEF Next

\* The invariant of the log.
THEOREM LogInvariant == Spec => []IInv
  BY InitIInv, NextIInv, PTL DEF Spec

\* A process that is up at the newest revision holds the state of that row,
\* however its restore and its writes were interleaved with those of others.
THEOREM HeadIsHeld == Spec => []HoldsTheHead
<1>1. IInv => HoldsTheHead
  BY SMT DEF IInv, HeadOK, PhaseOK, UpOK, HoldsTheHead
<1> QED BY <1>1, LogInvariant, PTL

-----------------------------------------------------------------------------
(* The promise. *)

\* A write onto a row of which the writer holds the state, or onto one that it
\* opens the next epoch of, is a step of the promise.
LEMMA WriteKeepsPromise ==
  ASSUME IInv, NEW n \in Nat, NEW s, IsState(s), NEW now, Log(n, s, now),
         n = head.revision => \/ s.status = "OPEN" /\ s.epoch = head.state.epoch + 1
                              \/ n > 0 /\ Moves(head.state, s)
  PROVE  [Promise!Next]_(Promise!vars)
<1>1. CASE Written(n, s, now) = "inserted"
  <2>1. head.revision = n /\ head'.revision = n + 1 /\ head'.state = s
    BY <1>1, LogWrites DEF IInv
  <2>2. s.epoch \in Nat /\ s.epoch < MaxEpoch /\ head.state.epoch < MaxEpoch
        /\ head.state.epoch \in Nat
    BY <1>1, LogAssumption, EpochAssumption, SMT DEF Written, Storable, IsState, IInv, HeadOK
  <2> QED BY <2>1, <2>2, SMT DEF Moves, Opened, Promise!Next, Promise!Trip, Promise!Probe,
             Promise!Resume, Promise!vars
<1>2. CASE Written(n, s, now) # "inserted"
  <2>1. head' = head
    BY <1>2, LogWrites DEF IInv
  <2> QED BY <2>1 DEF Promise!vars
<1> QED BY <1>1, <1>2

\* The stored breaker keeps the promise of BreakerPromise: it opens under the
\* next epoch, is half open and closes under the epoch it was opened with, and
\* no interleaving of restores, writes, crashes and bad rows breaks that.
THEOREM LogKeepsPromise == Spec => KeepsPromise
<1>1. Init => Promise!Init
  BY NewIsState, SMT DEF Init, Row, Promise!Init
<1>2. IInv /\ [Next]_vars => [Promise!Next]_(Promise!vars)
  <2> SUFFICES ASSUME IInv, [Next]_vars PROVE [Promise!Next]_(Promise!vars)
    OBVIOUS
  <2>1. ASSUME NEW p \in Processes, WriteFallback(p) PROVE [Promise!Next]_(Promise!vars)
    <3>1. proc[p].revision \in Nat /\ IsState(proc[p].state) /\ FallbackOK(proc[p])
          /\ Log(proc[p].revision, proc[p].state, proc[p].now)
      BY <2>1 DEF IInv, ProcOK, PhaseOK, WriteFallback
    <3> QED BY <3>1, WriteKeepsPromise DEF FallbackOK
  <2>2. ASSUME NEW p \in Processes, Step(p) PROVE [Promise!Next]_(Promise!vars)
    <3>1. PICK call \in Calls, now \in Times :
              Log(proc[p].revision, Transition(call.policy, proc[p].state, call.request, now), now)
      BY <2>2 DEF Step
    <3>2. PICK s : s = Transition(call.policy, proc[p].state, call.request, now)
      OBVIOUS
    <3>3. proc[p].revision \in Nat /\ IsState(proc[p].state) /\ UpOK(proc[p])
      BY <2>2 DEF IInv, ProcOK, PhaseOK, Step
    <3>4. IsState(s) /\ Moves(proc[p].state, s)
      BY <3>2, <3>3, TransitionMoves, LogAssumption, SMT
    <3>5. proc[p].revision = head.revision => proc[p].revision > 0 /\ Moves(head.state, s)
      BY <3>3, <3>4, SMT DEF UpOK, IInv, HeadOK
    <3> QED BY <3>1, <3>2, <3>3, <3>4, <3>5, WriteKeepsPromise
  <2>3. ASSUME NEW p \in Processes, Start(p) \/ ReadHead(p) \/ ReadLatest(p) \/ Crash(p)
        PROVE  [Promise!Next]_(Promise!vars)
    BY <2>3 DEF Start, ReadHead, ReadLatest, Crash, Promise!vars
  <2>4. ASSUME Damage PROVE [Promise!Next]_(Promise!vars)
    <3>1. head'.revision = head.revision /\ head'.state = head.state
      BY <2>4 DEF Damage, IInv, HeadOK
    <3> QED BY <3>1 DEF Promise!vars
  <2>5. CASE UNCHANGED vars
    BY <2>5 DEF vars, Promise!vars
  <2> QED BY <2>1, <2>2, <2>3, <2>4, <2>5 DEF Next
<1> QED BY <1>1, <1>2, LogInvariant, PTL DEF Spec, KeepsPromise, Promise!Spec

-----------------------------------------------------------------------------
(* What is stored can be restored. *)

\* An empty Option is no sequence: it is told apart from every fingerprint and
\* every source of an incident.
NoneIsNoSequence == \A S : None \notin Seq(S)

EvidenceKinds ==
    {"DailyRealizedLoss", "DailyRealizedLossWorsened", "EquityDrawdown", "EquityDrawdownWorsened",
     "ConsecutiveBrokerRejections", "ConsecutiveCommandFailures", "ManualReconciliationRequired",
     "StoreRecoveryReconciliationPending", "TimeSyncUnhealthy", "SnapshotStale",
     "SymbolMetadataStale", "ManualTrigger", "HardRiskViolationDuringRecovery",
     "SafetyInvariantError"}

\* A manual trigger names its operator and its reason.
Filled(e) == e[1] = "ManualTrigger" => e[2].operator # Blank /\ e[2].reason # Blank

\* Evidence of some of the kinds K, at most one of each.
Catalogue(f, K) ==
    /\ \E S : f \in Seq(S)
    /\ \A i \in 1 .. Len(f) : f[i][1] \in K /\ Filled(f[i])
    /\ \A i, j \in 1 .. Len(f) : f[i][1] = f[j][1] => i = j

\* Evidence of different kinds can be joined.
LEMMA CatalogueJoins ==
  ASSUME NEW f, NEW g, NEW K, NEW L, Catalogue(f, K), Catalogue(g, L), K \cap L = {}
  PROVE  Catalogue(f \o g, K \cup L)
<1> DEFINE h == f \o g
<1>1. PICK S, T : f \in Seq(S) /\ g \in Seq(T)
  BY DEF Catalogue
<1>2. f \in Seq(S \cup T) /\ g \in Seq(S \cup T)
  BY <1>1, SMT
<1>3. /\ h \in Seq(S \cup T) /\ Len(h) = Len(f) + Len(g) /\ Len(f) \in Nat /\ Len(g) \in Nat
      /\ \A i \in 1 .. Len(f) : h[i] = f[i]
      /\ \A i \in 1 .. Len(g) : h[Len(f) + i] = g[i]
  BY <1>2, SMT
<1>4. \A i \in 1 .. Len(h) : \/ i \in 1 .. Len(f) /\ h[i] = f[i]
                             \/ i - Len(f) \in 1 .. Len(g) /\ h[i] = g[i - Len(f)]
  BY <1>3, SMT
<1> HIDE DEF h
<1>5. \A i \in 1 .. Len(h) : h[i][1] \in K \cup L /\ Filled(h[i])
  BY <1>4 DEF Catalogue
<1>6. ASSUME NEW i \in 1 .. Len(h), NEW j \in 1 .. Len(h), h[i][1] = h[j][1] PROVE i = j
  <2>1. CASE i \in 1 .. Len(f) /\ h[i] = f[i] /\ j \in 1 .. Len(f) /\ h[j] = f[j]
    BY <1>6, <2>1 DEF Catalogue
  <2>2. CASE /\ i - Len(f) \in 1 .. Len(g) /\ h[i] = g[i - Len(f)]
             /\ j - Len(f) \in 1 .. Len(g) /\ h[j] = g[j - Len(f)]
    <3>1. PICK k \in 1 .. Len(g), l \in 1 .. Len(g) : k = i - Len(f) /\ l = j - Len(f)
      BY <2>2
    <3>2. k = l
      BY <1>6, <2>2, <3>1 DEF Catalogue
    <3> QED BY <1>3, <3>1, <3>2, SMT
  <2>3. CASE /\ i \in 1 .. Len(f) /\ h[i] = f[i]
             /\ j - Len(f) \in 1 .. Len(g) /\ h[j] = g[j - Len(f)]
    BY <1>6, <2>3 DEF Catalogue
  <2>4. CASE /\ j \in 1 .. Len(f) /\ h[j] = f[j]
             /\ i - Len(f) \in 1 .. Len(g) /\ h[i] = g[i - Len(f)]
    BY <1>6, <2>4 DEF Catalogue
  <2> QED BY <1>4, <2>1, <2>2, <2>3, <2>4
<1>7. \E X : h \in Seq(X)
  <2> WITNESS S \cup T
  <2> QED BY <1>3
<1> QED BY <1>5, <1>6, <1>7 DEF Catalogue, h

\* The evidence of one check.
LEMMA CatalogueOfOne ==
  ASSUME NEW e, NEW K, e[1] \in K, Filled(e)
  PROVE  Catalogue(<<e>>, K)
<1>1. <<e>> \in Seq({e}) /\ Len(<<e>>) = 1 /\ <<e>>[1] = e
  BY SMT
<1>2. \E X : <<e>> \in Seq(X)
  BY <1>1
<1>3. \A i \in 1 .. Len(<<e>>) : i = 1
  BY <1>1, SMT
<1> QED BY <1>1, <1>2, <1>3 DEF Catalogue

LEMMA CatalogueOfNone == ASSUME NEW K PROVE Catalogue(<<>>, K)
<1>1. <<>> \in Seq({}) /\ Len(<<>>) = 0
  BY SMT
<1>2. \E X : <<>> \in Seq(X)
  BY <1>1
<1> QED BY <1>1, <1>2, SMT DEF Catalogue

LEMMA CatalogueWhen ==
  ASSUME NEW fails, NEW e, NEW k, e[1] = k, fails => Filled(e)
  PROVE  Catalogue(When(fails, e), {k})
  BY CatalogueOfOne, CatalogueOfNone DEF When

\* Fewer kinds are also more kinds.
LEMMA CatalogueWidens ==
  ASSUME NEW f, NEW K, NEW L, Catalogue(f, K), K \subseteq L
  PROVE  Catalogue(f, L)
  BY DEF Catalogue

OtherKinds ==
    {"ConsecutiveBrokerRejections", "ConsecutiveCommandFailures", "ManualReconciliationRequired",
     "StoreRecoveryReconciliationPending", "TimeSyncUnhealthy", "SnapshotStale",
     "SymbolMetadataStale", "ManualTrigger"}

\* A tuple is not an empty Option, and neither is a fingerprint.
LEMMA TuplesAreNotNone ==
  ASSUME NoneIsNoSequence
  PROVE  /\ \A a : <<a>> # None
         /\ \A a, b : <<a, b>> # None
         /\ \A f, K : Catalogue(f, K) => f # None
<1>1. ASSUME NEW a PROVE <<a>> # None
  <2>1. <<a>> \in Seq({a})
    BY SMT
  <2>2. None \notin Seq({a})
    BY DEF NoneIsNoSequence
  <2> QED BY <2>1, <2>2
<1>2. ASSUME NEW a, NEW b PROVE <<a, b>> # None
  <2>1. <<a, b>> \in Seq({a, b})
    BY SMT
  <2>2. None \notin Seq({a, b})
    BY DEF NoneIsNoSequence
  <2> QED BY <2>1, <2>2
<1>3. ASSUME NEW f, NEW K, Catalogue(f, K) PROVE f # None
  <2>1. PICK S : f \in Seq(S)
    BY <1>3 DEF Catalogue
  <2>2. None \notin Seq(S)
    BY DEF NoneIsNoSequence
  <2> QED BY <2>1, <2>2
<1> QED BY <1>1, <1>2, <1>3

\* An input without an error has a trigger that is filled in, or none.
LEMMA TriggerIsFilled ==
  ASSUME NEW input, NEW now, InputError(input, now) = None, NoneIsNoSequence,
         input.trigger # None
  PROVE  Filled(<<"ManualTrigger", input.trigger>>)
<1>1. \A a, b : <<a, b>> # None
  BY TuplesAreNotNone
<1>2. input.trigger.operator # Blank /\ input.trigger.reason # Blank
  BY <1>1 DEF InputError
<1> QED BY <1>2 DEF Filled

\* The checks that are not about money.
LEMMA OthersAreCatalogue ==
  ASSUME NEW policy, NEW input, NEW now, InputError(input, now) = None, NoneIsNoSequence
  PROVE  Catalogue(OtherViolations(policy, input, now), OtherKinds)
<1> DEFINE v1 == When(input.rejections >= policy.maxRejections,
                      <<"ConsecutiveBrokerRejections", input.rejections, policy.maxRejections>>)
           v2 == When(input.failures >= policy.maxFailures,
                      <<"ConsecutiveCommandFailures", input.failures, policy.maxFailures>>)
           v3 == When(input.manualRuns > 0, <<"ManualReconciliationRequired", input.manualRuns>>)
           v4 == When(input.recoveryPending, <<"StoreRecoveryReconciliationPending">>)
           v5 == When(input.unsyncedSince # None /\ now - input.unsyncedSince > policy.maxUnsynced,
                      <<"TimeSyncUnhealthy", input.unsyncedSince, policy.maxUnsynced>>)
           v6 == When(input.staleSnapshots > policy.maxStaleSnapshots,
                      <<"SnapshotStale", input.staleSnapshots, policy.maxStaleSnapshots>>)
           v7 == When(input.staleMetadata > policy.maxStaleMetadata,
                      <<"SymbolMetadataStale", input.staleMetadata, policy.maxStaleMetadata>>)
           v8 == When(input.trigger # None, <<"ManualTrigger", input.trigger>>)
<1>1. Catalogue(v1, {"ConsecutiveBrokerRejections"}) /\ Catalogue(v2, {"ConsecutiveCommandFailures"})
  BY CatalogueWhen DEF Filled
<1>2. Catalogue(v3, {"ManualReconciliationRequired"})
      /\ Catalogue(v4, {"StoreRecoveryReconciliationPending"})
  BY CatalogueWhen DEF Filled
<1>3. Catalogue(v5, {"TimeSyncUnhealthy"}) /\ Catalogue(v6, {"SnapshotStale"})
      /\ Catalogue(v7, {"SymbolMetadataStale"})
  BY CatalogueWhen DEF Filled
<1>4. Catalogue(v8, {"ManualTrigger"})
  BY CatalogueWhen, TriggerIsFilled
<1>5. OtherViolations(policy, input, now)
        = v1 \o v2 \o v3 \o v4 \o v5 \o v6 \o v7 \o v8
  BY DEF OtherViolations
<1> HIDE DEF v1, v2, v3, v4, v5, v6, v7, v8
<1> DEFINE K2 == {"ConsecutiveBrokerRejections", "ConsecutiveCommandFailures"}
           K4 == {"ConsecutiveBrokerRejections", "ConsecutiveCommandFailures",
                  "ManualReconciliationRequired", "StoreRecoveryReconciliationPending"}
           K6 == {"ConsecutiveBrokerRejections", "ConsecutiveCommandFailures",
                  "ManualReconciliationRequired", "StoreRecoveryReconciliationPending",
                  "TimeSyncUnhealthy", "SnapshotStale"}
<1>6. Catalogue(v1 \o v2, K2)
  <2>1. Catalogue(v1 \o v2, {"ConsecutiveBrokerRejections"} \cup {"ConsecutiveCommandFailures"})
    BY <1>1, CatalogueJoins
  <2> QED BY <2>1, CatalogueWidens
<1>7. Catalogue(v1 \o v2 \o v3 \o v4, K4)
  <2>1. Catalogue(v1 \o v2 \o v3, K2 \cup {"ManualReconciliationRequired"})
    BY <1>2, <1>6, CatalogueJoins
  <2>2. Catalogue(v1 \o v2 \o v3 \o v4, (K2 \cup {"ManualReconciliationRequired"})
                                          \cup {"StoreRecoveryReconciliationPending"})
    BY <1>2, <2>1, CatalogueJoins
  <2> QED BY <2>2, CatalogueWidens
<1>8. Catalogue(v1 \o v2 \o v3 \o v4 \o v5 \o v6, K6)
  <2>1. Catalogue(v1 \o v2 \o v3 \o v4 \o v5, K4 \cup {"TimeSyncUnhealthy"})
    BY <1>3, <1>7, CatalogueJoins
  <2>2. Catalogue(v1 \o v2 \o v3 \o v4 \o v5 \o v6, (K4 \cup {"TimeSyncUnhealthy"})
                                                      \cup {"SnapshotStale"})
    BY <1>3, <2>1, CatalogueJoins
  <2> QED BY <2>2, CatalogueWidens
<1>9. Catalogue(v1 \o v2 \o v3 \o v4 \o v5 \o v6 \o v7 \o v8, OtherKinds)
  <2>1. Catalogue(v1 \o v2 \o v3 \o v4 \o v5 \o v6 \o v7, K6 \cup {"SymbolMetadataStale"})
    BY <1>3, <1>8, CatalogueJoins
  <2>2. Catalogue(v1 \o v2 \o v3 \o v4 \o v5 \o v6 \o v7 \o v8,
                  (K6 \cup {"SymbolMetadataStale"}) \cup {"ManualTrigger"})
    BY <1>4, <2>1, CatalogueJoins
  <2> QED BY <2>2, CatalogueWidens DEF OtherKinds
<1> QED BY <1>5, <1>9

\* What an observation collects, outside recovery and during it, has at most one
\* evidence of a kind.
LEMMA ViolationsAreCatalogue ==
  ASSUME NEW policy, NEW s, NEW input, NEW now, InputError(input, now) = None, NoneIsNoSequence
  PROVE  /\ Catalogue(Violations(policy, input, now), EvidenceKinds)
         /\ Catalogue(HalfOpenViolations(policy, s, input, now),
                      EvidenceKinds \ {"HardRiskViolationDuringRecovery"})
<1> DEFINE l == LossViolation(policy, input)
           d == DrawdownViolation(policy, input)
           o == OtherViolations(policy, input, now)
           wl == Worse(input.loss, s.lossBaseline, l, "DailyRealizedLossWorsened")
           wd == Worse(input.drawdown, s.drawdownBaseline, d, "EquityDrawdownWorsened")
           KL == {"DailyRealizedLoss", "DailyRealizedLossWorsened"}
           KD == {"EquityDrawdown", "EquityDrawdownWorsened"}
<1>1. Catalogue(l, {"DailyRealizedLoss"}) /\ Catalogue(d, {"EquityDrawdown"})
  BY CatalogueWhen DEF Filled, LossViolation, DrawdownViolation
<1>2. Catalogue(l, KL) /\ Catalogue(d, KD)
  BY <1>1, CatalogueWidens
<1>3. Catalogue(wl, KL) /\ Catalogue(wd, KD)
  BY <1>2, CatalogueOfOne, CatalogueOfNone, SMT DEF Worse, Filled
<1>4. Catalogue(o, OtherKinds)
  BY OthersAreCatalogue
<1>5. /\ Violations(policy, input, now) = l \o d \o o
      /\ HalfOpenViolations(policy, s, input, now) = wl \o wd \o o
  BY DEF Violations, HalfOpenViolations
<1> HIDE DEF l, d, o, wl, wd
<1>6. Catalogue(l \o d, KL \cup KD) /\ Catalogue(wl \o wd, KL \cup KD)
  BY <1>2, <1>3, CatalogueJoins
<1>7. /\ Catalogue(l \o d \o o, (KL \cup KD) \cup OtherKinds)
      /\ Catalogue(wl \o wd \o o, (KL \cup KD) \cup OtherKinds)
  <2>1. (KL \cup KD) \cap OtherKinds = {}
    BY DEF OtherKinds
  <2> QED BY <1>4, <1>6, <2>1, CatalogueJoins
<1>8. /\ (KL \cup KD) \cup OtherKinds \subseteq EvidenceKinds \ {"HardRiskViolationDuringRecovery"}
      /\ (KL \cup KD) \cup OtherKinds \subseteq EvidenceKinds
  BY DEF OtherKinds, EvidenceKinds
<1> QED BY <1>5, <1>7, <1>8, CatalogueWidens, SMT

HasLast(S) == S \subseteq Int /\ \E u \in S : \A v \in S : v <= u

\* Latest is the last of the times when they have a last one.
LEMMA LatestIsLast ==
  ASSUME NEW S, HasLast(S \cup {0})
  PROVE  Latest(0, S) \in Nat /\ \A t \in S : t <= Latest(0, S)
<1>1. Latest(0, S) \in S \cup {0} /\ \A v \in S \cup {0} : v <= Latest(0, S)
  BY DEF HasLast, Latest
<1> QED BY <1>1, SMT DEF HasLast

\* One more time, or an empty Option more.
LEMMA LastOfMore ==
  ASSUME NEW S, HasLast(S), NEW x, {x} \ {None} \subseteq Int
  PROVE  HasLast(S \cup ({x} \ {None}))
<1>1. PICK u \in S : u \in Int /\ \A v \in S : v <= u
  BY DEF HasLast
<1>2. CASE x = None
  BY <1>1, <1>2 DEF HasLast
<1>3. CASE x # None /\ x <= u
  BY <1>1, <1>3 DEF HasLast
<1>4. CASE x # None /\ ~(x <= u)
  <2>1. x \in Int /\ \A v \in S \cup ({x} \ {None}) : v <= x
    BY <1>1, <1>4, SMT DEF HasLast
  <2> QED BY <1>4, <2>1 DEF HasLast
<1> QED BY <1>2, <1>3, <1>4

\* The time of the last change of a state, and the time of a fallback.
LEMMA StampsHaveLast ==
  ASSUME NEW s, Stamps(s) \subseteq Nat, NEW now \in Int
  PROVE  /\ Latest(0, Stamps(s)) \in Nat
         /\ \A t \in Stamps(s) : t <= Latest(0, Stamps(s))
         /\ FallbackAt(s, now) \in Nat
<1> DEFINE S1 == {0} \cup ({s.triggeredAt} \ {None})
           S2 == S1 \cup ({s.clearedAt} \ {None})
           S3 == S2 \cup ({s.halfOpenedAt} \ {None})
           S4 == S3 \cup ({s.resetAt} \ {None})
           S5 == S4 \cup ({now} \ {None})
<1>1. /\ {s.triggeredAt} \ {None} \subseteq Int /\ {s.clearedAt} \ {None} \subseteq Int
      /\ {s.halfOpenedAt} \ {None} \subseteq Int /\ {s.resetAt} \ {None} \subseteq Int
      /\ {now} \ {None} \subseteq Int
  BY SMT DEF Stamps
<1>2. HasLast({0})
  BY SMT DEF HasLast
<1>3. HasLast(S1)
  BY <1>1, <1>2, LastOfMore
<1>4. HasLast(S2)
  <2> HIDE DEF S1
  <2> QED BY <1>1, <1>3, LastOfMore
<1>5. HasLast(S3)
  <2> HIDE DEF S2
  <2> QED BY <1>1, <1>4, LastOfMore
<1>6. HasLast(S4)
  <2> HIDE DEF S3
  <2> QED BY <1>1, <1>5, LastOfMore
<1>7. HasLast(S5)
  <2> HIDE DEF S4
  <2> QED BY <1>1, <1>6, LastOfMore
<1>8. S4 = Stamps(s) \cup {0}
  BY DEF Stamps
<1>9. S5 = (Stamps(s) \cup {now}) \cup {0}
  <2>1. now # None
    BY OptionAssumption
  <2> HIDE DEF S4
  <2> QED BY <1>8, <2>1
<1> HIDE DEF S4, S5
<1> QED BY <1>6, <1>7, <1>8, <1>9, LatestIsLast DEF FallbackAt

\* What an incident says of itself is never the mark of a closed breaker, and its
\* source is named.
LEMMA IncidentIsNamed ==
  ASSUME NEW e, e[1] \in EvidenceKinds, Filled(e), NoneIsNoSequence
  PROVE  /\ ReasonOf(e) # "Ok"
         /\ SourceOf(e) # None
         /\ SourceOf(e) # <<"Operator", Blank>>
<1>1. ReasonOf(e) # "Ok"
  <2>1. e[1] # "Ok"
    BY DEF EvidenceKinds
  <2>2. CASE e[1] \in {"DailyRealizedLoss", "DailyRealizedLossWorsened"}
    BY <2>2, Zenon DEF ReasonOf
  <2>3. CASE e[1] \in {"EquityDrawdown", "EquityDrawdownWorsened"}
    BY <2>3, Zenon DEF ReasonOf
  <2>4. CASE e[1] = "SafetyInvariantError"
    BY <2>4, Zenon DEF ReasonOf
  <2>5. CASE e[1] \notin {"DailyRealizedLoss", "DailyRealizedLossWorsened", "EquityDrawdown",
                          "EquityDrawdownWorsened", "SafetyInvariantError"}
    BY <2>1, <2>5, Zenon DEF ReasonOf
  <2> QED BY <2>2, <2>3, <2>4, <2>5
<1>2. \/ \E a : SourceOf(e) = <<a>>
      \/ e[1] = "ManualTrigger" /\ SourceOf(e) = <<"Operator", e[2].operator>>
  <2>1. CASE e[1] = "ManualTrigger"
    BY <2>1, Zenon DEF SourceOf
  <2>2. CASE e[1] \in {"DailyRealizedLoss", "DailyRealizedLossWorsened",
                       "EquityDrawdown", "EquityDrawdownWorsened"}
    BY <2>2, Zenon DEF SourceOf
  <2>3. CASE e[1] \in {"ConsecutiveBrokerRejections", "ConsecutiveCommandFailures",
                       "HardRiskViolationDuringRecovery"}
    BY <2>3, Zenon DEF SourceOf
  <2>4. CASE e[1] \in {"ManualReconciliationRequired", "StoreRecoveryReconciliationPending",
                       "TimeSyncUnhealthy"}
    BY <2>4, Zenon DEF SourceOf
  <2>5. CASE e[1] \in {"SnapshotStale", "SymbolMetadataStale"}
    BY <2>5, Zenon DEF SourceOf
  <2>6. CASE e[1] = "SafetyInvariantError"
    BY <2>6, Zenon DEF SourceOf
  <2> QED BY <2>1, <2>2, <2>3, <2>4, <2>5, <2>6 DEF EvidenceKinds
<1>3. \A a : <<a>> # <<"Operator", Blank>>
  OBVIOUS
<1>4. e[1] = "ManualTrigger" => <<"Operator", e[2].operator>> # <<"Operator", Blank>>
  BY DEF Filled
<1> QED BY <1>1, <1>2, <1>3, <1>4, TuplesAreNotNone

\* A state that a restart accepts once its clock has reached the times in it,
\* and whose incident has an epoch.
Good(s) ==
    /\ Stamps(s) \subseteq Nat
    /\ StateIsSound(s)
    /\ s.status # "CLOSED" => s.epoch > 0

\* The last epoch of all is not stored.
GoodIfStored(s) == s.epoch < MaxEpoch => Good(s)

\* A fingerprint of the catalogue, with the reason and the source it gives.
LEMMA CatalogueIsSound ==
  ASSUME NEW s, Catalogue(s.fingerprint, EvidenceKinds), s.fingerprint # <<>>,
         s.reason = ReasonOf(s.fingerprint[1]), s.triggeredBy = SourceOf(s.fingerprint[1])
  PROVE  FingerprintIsSound(s)
<1>1. PICK f, S : f = s.fingerprint /\ f \in Seq(S)
  BY DEF Catalogue
<1>2. DOMAIN f = 1 .. Len(f)
  BY <1>1, SMT
<1>3. \A i, j \in DOMAIN f : f[i] = f[j] => i = j
  BY <1>1, <1>2 DEF Catalogue
<1>4. \A i \in DOMAIN f : f[i][1] = "ManualTrigger" =>
          f[i][2].operator # Blank /\ f[i][2].reason # Blank
  BY <1>1, <1>2 DEF Catalogue, Filled
<1> QED BY <1>1, <1>3, <1>4 DEF FingerprintIsSound

\* The state that an incident opens is one that a restart accepts.
LEMMA IncidentIsGood ==
  ASSUME NEW s, NEW e \in 1 .. (MaxEpoch - 1), NEW f, Catalogue(f, EvidenceKinds), f # <<>>,
         NEW at \in Nat, NoneIsNoSequence
  PROVE  Good(Incident(s, e, f, at))
<1>1. PICK t : t = Incident(s, e, f, at)
  OBVIOUS
<1>2. /\ t.epoch = e /\ t.status = "OPEN" /\ t.reason = ReasonOf(f[1])
      /\ t.triggeredAt = at /\ t.triggeredBy = SourceOf(f[1]) /\ t.fingerprint = f
  BY <1>1 DEF Incident, New
<1>3. /\ t.clearedAt = None /\ t.halfOpenedAt = None /\ t.lossBaseline = None
      /\ t.drawdownBaseline = None /\ t.resetAt = None /\ t.resetBy = None
  BY <1>1 DEF Incident, New
<1>4. f[1][1] \in EvidenceKinds /\ Filled(f[1])
  <2>1. PICK S : f \in Seq(S)
    BY DEF Catalogue
  <2>2. 1 \in 1 .. Len(f)
    BY <2>1, SMT
  <2> QED BY <2>2 DEF Catalogue
<1>5. PICK x : x = f[1]
  OBVIOUS
<1>6. ReasonOf(x) # "Ok" /\ SourceOf(x) # None /\ SourceOf(x) # <<"Operator", Blank>>
  BY <1>4, <1>5, IncidentIsNamed
<1>7. f # None /\ at # None
  BY TuplesAreNotNone, OptionAssumption, SMT
<1>8. Stamps(t) = {at}
  BY <1>2, <1>3, <1>7 DEF Stamps
<1>9. FingerprintIsSound(t)
  BY <1>2, CatalogueIsSound
<1>10. StampsAreOrdered(t)
  BY <1>2, <1>3, <1>8, SMT DEF StampsAreOrdered
<1>11. StateIsSound(t)
  BY <1>2, <1>3, <1>5, <1>6, <1>7, <1>8, <1>9, <1>10, EpochAssumption, OptionAssumption, SMT
     DEF StateIsSound
<1> QED BY <1>1, <1>2, <1>8, <1>11, SMT DEF Good

\* Another incident, or a fallback, of a good state.
LEMMA OpenIsGood ==
  ASSUME NEW s, IsState(s), Good(s), NEW f, Catalogue(f, EvidenceKinds), f # <<>>,
         NEW at \in Nat, NoneIsNoSequence
  PROVE  GoodIfStored(Open(s, f, at))
<1>1. s.epoch \in 0 .. MaxEpoch /\ s.epoch < MaxEpoch
  BY DEF IsState, Good, StateIsSound
<1>2. s.epoch + 1 \in 0 .. MaxEpoch /\ Open(s, f, at) = Incident(s, s.epoch + 1, f, at)
  BY <1>1, EpochAssumption, SMT DEF Open
<1>3. Open(s, f, at).epoch = s.epoch + 1
  BY <1>2, IncidentIsOpen, SMT
<1>4. CASE s.epoch + 1 < MaxEpoch
  <2>1. s.epoch + 1 \in 1 .. (MaxEpoch - 1)
    BY <1>1, <1>4, EpochAssumption, SMT
  <2> QED BY <1>2, <2>1, IncidentIsGood DEF GoodIfStored
<1> QED BY <1>3, <1>4 DEF GoodIfStored

LEMMA FallbackIsGood ==
  ASSUME NEW s, IsState(s), Good(s), NEW now \in Int, NEW error, NoneIsNoSequence
  PROVE  GoodIfStored(SafetyFallback(s, now, error))
<1> DEFINE e == <<"SafetyInvariantError", error>>
<1>1. e[1] = "SafetyInvariantError"
  OBVIOUS
<1> HIDE DEF e
<1>2. e[1] \in EvidenceKinds /\ Filled(e)
  BY <1>1 DEF EvidenceKinds, Filled
<1>3. Catalogue(<<e>>, EvidenceKinds) /\ <<e>> # <<>>
  BY <1>2, CatalogueOfOne
<1>4. FallbackAt(s, now) \in Nat
  BY StampsHaveLast DEF Good
<1>5. GoodIfStored(Open(s, <<e>>, FallbackAt(s, now)))
  BY <1>3, <1>4, OpenIsGood
<1> QED BY <1>5 DEF SafetyFallback, GoodIfStored, e

\* The times of a state that the clock has reached.
Reached(s, now) == \A t \in Stamps(s) : t <= now

\* A healthy observation ends an episode.
LEMMA ClearedIsGood ==
  ASSUME NEW s, IsState(s), Good(s), NEW now \in Nat, Reached(s, now),
         s.status = "OPEN", s.fingerprint # None
  PROVE  Good(Cleared(s, now))
<1>1. PICK t : t = Cleared(s, now)
  OBVIOUS
<1>2. /\ t.fingerprint = None /\ t.clearedAt = now
      /\ \A g \in Fields \ {"fingerprint", "clearedAt"} : t[g] = s[g]
  BY <1>1 DEF IsState, Fields, Cleared
<1>3. /\ t.epoch = s.epoch /\ t.status = "OPEN" /\ t.reason = s.reason
      /\ t.triggeredAt = s.triggeredAt /\ t.triggeredBy = s.triggeredBy
      /\ t.halfOpenedAt = s.halfOpenedAt /\ t.lossBaseline = s.lossBaseline
      /\ t.drawdownBaseline = s.drawdownBaseline /\ t.resetAt = s.resetAt /\ t.resetBy = s.resetBy
  BY <1>2 DEF Fields
<1>4. now # None
  BY OptionAssumption, SMT
<1>5. /\ s.halfOpenedAt = None /\ s.lossBaseline = None /\ s.drawdownBaseline = None
      /\ s.resetAt = None
  BY DEF Good, StateIsSound
<1>6. Stamps(t) = ({s.triggeredAt} \ {None}) \cup {now}
  BY <1>2, <1>3, <1>4, <1>5 DEF Stamps
<1>7. s.triggeredAt # None => s.triggeredAt \in Nat /\ s.triggeredAt <= now
  BY DEF Good, Stamps, Reached
<1>8. Stamps(t) \subseteq Nat
  BY <1>6, <1>7
<1>9. StampsAreOrdered(t)
  BY <1>2, <1>3, <1>5, <1>6, <1>7, SMT DEF StampsAreOrdered
<1>10. StateIsSound(t)
  BY <1>2, <1>3, <1>4, <1>5, <1>8, <1>9, SMT DEF Good, StateIsSound
<1> QED BY <1>1, <1>3, <1>8, <1>10 DEF Good

\* An open breaker becomes half open.
LEMMA HalfOpenedIsGood ==
  ASSUME NEW s, IsState(s), Good(s), NEW now \in Nat, Reached(s, now),
         s.status = "OPEN", NEW input, input.loss \in Nat, input.drawdown \in Nat
  PROVE  Good(HalfOpened(s, input, now))
<1>1. PICK t : t = HalfOpened(s, input, now)
  OBVIOUS
<1>2. /\ t.status = "HALF_OPEN" /\ t.halfOpenedAt = now /\ t.lossBaseline = input.loss
      /\ t.drawdownBaseline = input.drawdown
      /\ \A g \in Fields \ {"status", "halfOpenedAt", "lossBaseline", "drawdownBaseline"} : t[g] = s[g]
  BY <1>1 DEF IsState, Fields, HalfOpened
<1>3. /\ t.epoch = s.epoch /\ t.reason = s.reason
      /\ t.triggeredAt = s.triggeredAt /\ t.triggeredBy = s.triggeredBy
      /\ t.fingerprint = s.fingerprint /\ t.clearedAt = s.clearedAt
      /\ t.resetAt = s.resetAt /\ t.resetBy = s.resetBy
  BY <1>2 DEF Fields
<1>4. now # None /\ None \notin Nat
  BY OptionAssumption, SMT
<1>5. s.resetAt = None /\ s.halfOpenedAt = None
  BY DEF Good, StateIsSound
<1>6. Stamps(t) = Stamps(s) \cup {now}
  BY <1>2, <1>3, <1>4, <1>5 DEF Stamps
<1>7. Stamps(t) \subseteq Nat
  BY <1>6 DEF Good
<1>8. StampsAreOrdered(t)
  <2>1. /\ s.triggeredAt # None => s.triggeredAt \in Stamps(s)
        /\ s.clearedAt # None => s.clearedAt \in Stamps(s)
    BY DEF Stamps
  <2> QED BY <1>2, <1>3, <1>5, <1>6, <2>1 DEF StampsAreOrdered, Reached, Good, StateIsSound
<1>9. t.fingerprint # None => FingerprintIsSound(t)
  BY <1>2, <1>3, SMT DEF FingerprintIsSound, Good, StateIsSound
<1>10. StateIsSound(t)
  BY <1>2, <1>3, <1>4, <1>5, <1>7, <1>8, <1>9, SMT DEF Good, StateIsSound
<1> QED BY <1>1, <1>3, <1>7, <1>10 DEF Good

\* A half open breaker closes.
LEMMA ResetIsGood ==
  ASSUME NEW s, IsState(s), Good(s), NEW now \in Nat, Reached(s, now),
         s.status = "HALF_OPEN", NEW policy, NEW by, by.operator # None, Authorized(policy, by)
  PROVE  Good(Reset(s, by, now))
<1>1. PICK t : t = Reset(s, by, now)
  OBVIOUS
<1>2. /\ t.status = "CLOSED" /\ t.reason = "Ok" /\ t.halfOpenedAt = None /\ t.lossBaseline = None
      /\ t.drawdownBaseline = None /\ t.resetAt = now
      /\ t.resetBy = IF by.automatic THEN "AUTOMATIC" ELSE by.operator
      /\ \A g \in {"epoch", "triggeredAt", "triggeredBy", "fingerprint", "clearedAt"} : t[g] = s[g]
  BY <1>1 DEF IsState, Fields, Reset
<1>3. /\ t.epoch = s.epoch /\ t.triggeredAt = s.triggeredAt /\ t.triggeredBy = s.triggeredBy
      /\ t.fingerprint = s.fingerprint /\ t.clearedAt = s.clearedAt
  BY <1>2
<1>4. t.resetBy # None /\ t.resetBy # Blank
  BY <1>2, OptionAssumption DEF Authorized
<1>5. now # None
  BY OptionAssumption, SMT
<1>6. Stamps(t) = ({s.triggeredAt, s.clearedAt} \ {None}) \cup {now}
  BY <1>2, <1>3, <1>5 DEF Stamps
<1>7. {s.triggeredAt, s.clearedAt} \ {None} \subseteq Stamps(s)
  BY DEF Stamps
<1>8. Stamps(t) \subseteq Nat
  BY <1>6, <1>7 DEF Good
<1>9. StampsAreOrdered(t)
  <2>1. s.triggeredAt # None => s.triggeredAt <= now
    BY <1>7 DEF Reached
  <2>2. s.clearedAt # None => s.clearedAt <= now
    BY <1>7 DEF Reached
  <2>3. s.triggeredAt # None /\ s.clearedAt # None => s.triggeredAt <= s.clearedAt
    BY <1>7 DEF Good, StateIsSound, StampsAreOrdered
  <2>4. s.triggeredAt # None => s.triggeredAt <= s.triggeredAt
    BY <1>7, SMT DEF Good
  <2> QED BY <1>2, <1>3, <1>6, <2>1, <2>2, <2>3, <2>4 DEF StampsAreOrdered
<1>10. t.fingerprint # None => FingerprintIsSound(t)
  BY <1>2, <1>3, SMT DEF FingerprintIsSound, Good, StateIsSound
<1>11. StateIsSound(t)
  BY <1>2, <1>3, <1>4, <1>5, <1>8, <1>9, <1>10, SMT DEF Good, StateIsSound
<1> QED BY <1>1, <1>2, <1>8, <1>11 DEF Good

\* observe writes only good states.
LEMMA ObserveIsGood ==
  ASSUME NEW policy, NEW s, IsState(s), Good(s), NEW input, NEW now \in Nat, Reached(s, now),
         NoneIsNoSequence
  PROVE  GoodIfStored(Observe(policy, s, input, now))
<1> DEFINE t == Observe(policy, s, input, now)
           seen == Violations(policy, input, now)
           half == HalfOpenViolations(policy, s, input, now)
<1> SUFFICES GoodIfStored(t)
  OBVIOUS
<1>1. CASE InputError(input, now) # None
  <2>1. t = SafetyFallback(s, now, InputError(input, now))
    BY <1>1 DEF Observe
  <2> QED BY <2>1, FallbackIsGood, SMT
<1>2. CASE InputError(input, now) = None /\ s.status = "HALF_OPEN"
  <2>1. Catalogue(half, EvidenceKinds)
    <3>1. Catalogue(half, EvidenceKinds \ {"HardRiskViolationDuringRecovery"})
      BY <1>2, ViolationsAreCatalogue
    <3> HIDE DEF half
    <3> QED BY <3>1, CatalogueWidens
  <2>2. \/ t = SafetyFallback(s, now, <<"HalfOpenBaselineMissing">>)
        \/ t = s
        \/ half # <<>> /\ t = Open(s, half, now)
    BY <1>2 DEF Observe, ObserveHalfOpen
  <2> HIDE DEF half, t
  <2> QED BY <2>1, <2>2, FallbackIsGood, OpenIsGood, SMT DEF GoodIfStored
<1>3. CASE InputError(input, now) = None /\ s.status # "HALF_OPEN"
  <2>1. Catalogue(seen, EvidenceKinds)
    BY <1>3, ViolationsAreCatalogue
  <2>2. \/ t = s
        \/ seen # <<>> /\ t = Open(s, seen, now)
        \/ s.status = "OPEN" /\ s.fingerprint # None /\ t = Cleared(s, now)
    BY <1>3 DEF Observe
  <2> HIDE DEF seen, t
  <2> QED BY <2>1, <2>2, ClearedIsGood, OpenIsGood DEF GoodIfStored
<1> QED BY <1>1, <1>2, <1>3

\* enter_half_open writes only good states.
LEMMA EnterIsGood ==
  ASSUME NEW policy, NEW s, IsState(s), Good(s), NEW readiness, NEW input,
         input.loss \in Nat, input.drawdown \in Nat, NEW now \in Nat, Reached(s, now),
         NoneIsNoSequence
  PROVE  GoodIfStored(EnterHalfOpen(policy, s, readiness, input, now))
<1> DEFINE t == EnterHalfOpenFromOpen(policy, s, readiness, input, now)
           seen == Violations(policy, input, now)
<1>1. InputError(input, now) = None => Catalogue(seen, EvidenceKinds)
  BY ViolationsAreCatalogue
<1>2. \/ t = s
      \/ \E error : t = SafetyFallback(s, now, error)
      \/ InputError(input, now) = None /\ seen # <<>> /\ t = Open(s, seen, now)
      \/ t = HalfOpened(s, input, now)
  BY DEF EnterHalfOpenFromOpen
<1>3. s.status = "OPEN" => GoodIfStored(t)
  <2> HIDE DEF t, seen
  <2> QED BY <1>1, <1>2, FallbackIsGood, OpenIsGood, HalfOpenedIsGood, SMT DEF GoodIfStored
<1>4. s.status \in {"CLOSED", "OPEN", "HALF_OPEN"}
  BY DEF IsState, Statuses
<1>5. CASE s.status = "CLOSED"
  BY <1>5 DEF EnterHalfOpen, GoodIfStored
<1>6. CASE s.status = "OPEN"
  BY <1>3, <1>6 DEF EnterHalfOpen
<1>7. CASE s.status = "HALF_OPEN"
  BY <1>7, ObserveIsGood DEF EnterHalfOpen
<1> QED BY <1>4, <1>5, <1>6, <1>7

\* close writes only good states.
LEMMA CloseIsGood ==
  ASSUME NEW policy, NEW s, IsState(s), Good(s), NEW health, NEW by, by.operator # None,
         NEW now \in Nat, Reached(s, now), NoneIsNoSequence
  PROVE  GoodIfStored(Close(policy, s, health, by, now))
<1> DEFINE t == CloseHalfOpen(policy, s, health, by, now)
           half == HalfOpenViolations(policy, s, health.input, now)
           hard == IF health.hardRisk THEN << <<"HardRiskViolationDuringRecovery">> >> ELSE <<>>
           seen == half \o hard
<1>1. InputError(health.input, now) = None => Catalogue(seen, EvidenceKinds)
  <2> SUFFICES ASSUME InputError(health.input, now) = None PROVE Catalogue(seen, EvidenceKinds)
    OBVIOUS
  <2>1. Catalogue(half, EvidenceKinds \ {"HardRiskViolationDuringRecovery"})
    BY ViolationsAreCatalogue
  <2>2. Catalogue(hard, {"HardRiskViolationDuringRecovery"})
    BY CatalogueOfOne, CatalogueOfNone DEF Filled
  <2>3. Catalogue(seen, (EvidenceKinds \ {"HardRiskViolationDuringRecovery"})
                            \cup {"HardRiskViolationDuringRecovery"})
    <3> HIDE DEF half, hard
    <3> QED BY <2>1, <2>2, CatalogueJoins
  <2>4. (EvidenceKinds \ {"HardRiskViolationDuringRecovery"})
            \cup {"HardRiskViolationDuringRecovery"} \subseteq EvidenceKinds
    BY DEF EvidenceKinds
  <2> HIDE DEF seen
  <2> QED BY <2>3, <2>4, CatalogueWidens
<1>2. \/ t = s
      \/ \E error : t = SafetyFallback(s, now, error)
      \/ InputError(health.input, now) = None /\ seen # <<>> /\ t = Open(s, seen, now)
      \/ Authorized(policy, by) /\ t = Reset(s, by, now)
  BY DEF CloseHalfOpen
<1>3. s.status = "HALF_OPEN" => GoodIfStored(t)
  <2> HIDE DEF t, seen
  <2> QED BY <1>1, <1>2, FallbackIsGood, OpenIsGood, ResetIsGood, SMT DEF GoodIfStored
<1> QED BY <1>3 DEF Close, GoodIfStored

\* The counter of blocked requests is not looked at.
LEMMA BlockedIsGood ==
  ASSUME NEW s, IsState(s), Good(s), NEW total
  PROVE  Good(RecordBlocked(s, total))
<1>1. CASE RecordBlocked(s, total) = s
  BY <1>1
<1>2. CASE RecordBlocked(s, total) = [s EXCEPT !.blocked = total]
  <2>1. PICK t : t = [s EXCEPT !.blocked = total]
    OBVIOUS
  <2>2. \A g \in Fields \ {"blocked"} : t[g] = s[g]
    BY <2>1 DEF IsState, Fields
  <2>3. /\ t.epoch = s.epoch /\ t.status = s.status /\ t.reason = s.reason
        /\ t.triggeredAt = s.triggeredAt /\ t.triggeredBy = s.triggeredBy
        /\ t.fingerprint = s.fingerprint /\ t.clearedAt = s.clearedAt
        /\ t.halfOpenedAt = s.halfOpenedAt /\ t.lossBaseline = s.lossBaseline
        /\ t.drawdownBaseline = s.drawdownBaseline /\ t.resetAt = s.resetAt
        /\ t.resetBy = s.resetBy
    BY <2>2 DEF Fields
  <2>4. Stamps(t) = Stamps(s)
    BY <2>3 DEF Stamps
  <2>5. /\ FingerprintIsSound(t) = FingerprintIsSound(s)
        /\ StampsAreOrdered(t) = StampsAreOrdered(s)
    BY <2>3, <2>4 DEF FingerprintIsSound, StampsAreOrdered
  <2>6. StateIsSound(t)
    BY <2>3, <2>4, <2>5 DEF Good, StateIsSound
  <2> QED BY <1>2, <2>1, <2>3, <2>4, <2>6 DEF Good
<1> QED BY <1>1, <1>2 DEF RecordBlocked

\* Whatever transition makes of a good state can be restored, if it can be stored.
LEMMA TransitionIsGood ==
  ASSUME NEW s, IsState(s), Good(s), NEW call \in Calls, NEW now \in Int, NoneIsNoSequence
  PROVE  GoodIfStored(Transition(call.policy, s, call.request, now))
<1> DEFINE t == Transition(call.policy, s, call.request, now)
           a == Apply(call.policy, s, call.request, now)
<1>1. \/ \E error : t = SafetyFallback(s, now, error)
      \/ now >= 0 /\ ~(now < Latest(0, Stamps(s))) /\ t = a
  BY SMT DEF Transition
<1>2. CASE \E error : t = SafetyFallback(s, now, error)
  BY <1>2, FallbackIsGood
<1>3. CASE now >= 0 /\ ~(now < Latest(0, Stamps(s))) /\ t = a
  <2>1. Latest(0, Stamps(s)) \in Nat /\ \A u \in Stamps(s) : u <= Latest(0, Stamps(s))
    BY StampsHaveLast DEF Good
  <2>2. now \in Nat /\ Reached(s, now)
    BY <1>3, <2>1, SMT DEF Reached, Good
  <2>3. CASE call.request.kind = "Observe"
    BY <1>3, <2>2, <2>3, ObserveIsGood DEF Apply
  <2>4. CASE call.request.kind = "EnterHalfOpen"
    <3>1. call.request.input.loss \in Nat /\ call.request.input.drawdown \in Nat
      BY <2>4, CallsAssumption
    <3> QED BY <1>3, <2>2, <2>4, <3>1, EnterIsGood DEF Apply
  <2>5. CASE call.request.kind = "Close"
    <3>1. call.request.by.operator # None
      BY <2>5, CallsAssumption
    <3> QED BY <1>3, <2>2, <2>5, <3>1, CloseIsGood DEF Apply
  <2>6. CASE call.request.kind = "RecordBlocked"
    BY <1>3, <2>6, BlockedIsGood DEF Apply, GoodIfStored
  <2> QED BY <2>3, <2>4, <2>5, <2>6, LogAssumption
<1> QED BY <1>1, <1>2, <1>3

\* The state that follows a failed restore can be restored.
LEMMA FailClosedIsGood ==
  ASSUME NEW failure, NEW now \in Int, NEW epoch \in Nat, epoch < MaxEpoch, NoneIsNoSequence
  PROVE  GoodIfStored(FailClosed(failure, now, epoch))
<1> DEFINE s == [New EXCEPT !.epoch = epoch]
           e == <<"SafetyInvariantError", <<"DurableRestoreFailed", failure>> >>
<1>1. /\ IsState(s) /\ s.epoch = epoch /\ s.status = "CLOSED" /\ Stamps(s) = {}
  BY EpochAssumption, SMT DEF IsState, New, Fields, Statuses, Stamps
<1>2. e[1] = "SafetyInvariantError"
  OBVIOUS
<1>3. FailClosed(failure, now, epoch) = Open(s, <<e>>, FallbackAt(s, now))
  BY <1>1 DEF FailClosed, SafetyFallback
<1> HIDE DEF s, e
<1>4. FallbackAt(s, now) \in Nat
  BY <1>1, StampsHaveLast
<1>5. Catalogue(<<e>>, EvidenceKinds) /\ <<e>> # <<>>
  BY <1>2, CatalogueOfOne DEF EvidenceKinds, Filled
<1>6. FailClosed(failure, now, epoch) = Incident(s, epoch + 1, <<e>>, FallbackAt(s, now))
  BY <1>1, <1>3, EpochAssumption, SMT DEF Open
<1>7. CASE epoch + 1 < MaxEpoch
  <2>1. epoch + 1 \in 1 .. (MaxEpoch - 1)
    BY <1>7, EpochAssumption, SMT
  <2> QED BY <1>4, <1>5, <1>6, <2>1, IncidentIsGood DEF GoodIfStored
<1>8. CASE ~(epoch + 1 < MaxEpoch)
  <2>1. FailClosed(failure, now, epoch).epoch = epoch + 1
    BY FailClosedOpens
  <2> QED BY <1>8, <2>1 DEF GoodIfStored
<1> QED BY <1>7, <1>8

\* The breaker that was never used.
LEMMA NewIsGood == ASSUME NoneIsNoSequence PROVE Good(New)
<1>1. /\ Stamps(New) = {} /\ New.epoch = 0 /\ New.status = "CLOSED"
  BY DEF Stamps, New
<1>2. StampsAreOrdered(New)
  BY <1>1 DEF StampsAreOrdered, New
<1>3. StateIsSound(New)
  <2>1. None # <<"Operator", Blank>>
    BY TuplesAreNotNone
  <2> QED BY <1>1, <1>2, <2>1, EpochAssumption, OptionAssumption, SMT DEF StateIsSound, New
<1> QED BY <1>1, <1>3 DEF Good

-----------------------------------------------------------------------------

\* What the log and every process hold is good, and what is to be written is
\* good if it can be stored.
HeldOK(q) ==
    /\ q.now \in Int
    /\ q.phase = "up" => Good(q.state)
    /\ q.phase = "write" => GoodIfStored(q.state)

GInv == Good(head.state) /\ \A p \in Processes : HeldOK(proc[p])

\* A row that is written is good.
LEMMA WriteIsGood ==
  ASSUME IInv, Good(head.state), NEW n \in Nat, NEW s, IsState(s), GoodIfStored(s), NEW now,
         Log(n, s, now)
  PROVE  /\ Good(head'.state)
         /\ Written(n, s, now) \in {"inserted", "duplicate"} => Good(s)
<1>1. /\ Written(n, s, now) = "inserted" => head'.state = s
      /\ Written(n, s, now) = "duplicate" => head' = head /\ head'.state = s
      /\ Written(n, s, now) # "inserted" => head' = head
  BY LogWrites DEF IInv
<1>2. Written(n, s, now) = "inserted" => Good(s)
  BY LogAssumption, EpochAssumption, SMT DEF Written, Storable, IsState, GoodIfStored
<1> QED BY <1>1, <1>2

\* The invariant of the next state, read off what it holds.
LEMMA GInvNext ==
  ASSUME Good(head'.state), \A r \in Processes : HeldOK(proc'[r])
  PROVE  GInv'
  BY DEF GInv, HeldOK, Good, Stamps, StateIsSound, FingerprintIsSound, StampsAreOrdered, GoodIfStored

\* One process moves.
LEMMA OneMoves ==
  ASSUME IInv, GInv, Good(head'.state), NEW p \in Processes, NEW q, HeldOK(q),
         proc' = [proc EXCEPT ![p] = q]
  PROVE  GInv'
<1>1. ASSUME NEW r \in Processes PROVE HeldOK(proc'[r])
  <2>1. proc'[r] = IF r = p THEN q ELSE proc[r]
    BY DEF IInv, ProcOK
  <2> QED BY <2>1 DEF GInv
<1> QED BY <1>1, GInvNext

\* The restores keep what is held good.
LEMMA RestoreIsGood ==
  ASSUME IInv, GInv, NEW p \in Processes, Start(p) \/ ReadHead(p) \/ ReadLatest(p) \/ Crash(p),
         NoneIsNoSequence
  PROVE  GInv'
<1>0. /\ proc[p] = [f \in ProcFields |-> proc[p][f]] /\ proc[p].now \in Int /\ PhaseOK(proc[p])
      /\ HeldOK(proc[p])
  BY DEF IInv, GInv, ProcOK, ProcFields, HeldOK
<1>1. head' = head /\ Good(head'.state)
  BY DEF Start, ReadHead, ReadLatest, Crash, GInv
<1>2. CASE Start(p)
  <2>1. PICK now \in Times : proc' = [proc EXCEPT ![p] = [Idle EXCEPT !.phase = "head", !.now = now]]
    BY <1>2 DEF Start
  <2>2. PICK q : q = [Idle EXCEPT !.phase = "head", !.now = now]
    OBVIOUS
  <2>3. q.phase = "head" /\ q.now = now
    BY <2>2 DEF Idle
  <2>4. HeldOK(q)
    BY <2>3, LogAssumption DEF HeldOK
  <2> QED BY <1>1, <2>1, <2>2, <2>4, OneMoves
<1>3. CASE ReadHead(p)
  <2>1. PICK q : q = [proc[p] EXCEPT !.phase = "latest", !.seen = Metadata(head)]
    OBVIOUS
  <2>2. q.phase = "latest" /\ q.now = proc[p].now
    BY <1>0, <2>1 DEF ProcFields
  <2>3. HeldOK(q)
    BY <1>0, <2>2 DEF HeldOK
  <2>4. proc' = [proc EXCEPT ![p] = q]
    BY <1>3, <2>1 DEF ReadHead
  <2> QED BY <1>1, <2>3, <2>4, OneMoves
<1>4. CASE ReadLatest(p) /\ Restorable(p)
  <2>1. PICK q : q = Up(head.state, head.revision)
    OBVIOUS
  <2>2. q.phase = "up" /\ q.state = head.state /\ q.now = 0
    BY <2>1 DEF Up, Idle
  <2>3. HeldOK(q)
    BY <2>2, SMT DEF HeldOK, GInv
  <2>4. proc' = [proc EXCEPT ![p] = q]
    BY <1>4, <2>1 DEF ReadLatest
  <2> QED BY <1>1, <2>3, <2>4, OneMoves
<1>5. CASE ReadLatest(p) /\ ~Restorable(p)
  <2>1. PICK q : q = [proc[p] EXCEPT !.phase = "write", !.state = Fallback(p),
                                     !.revision = EffectiveHead(p).revision]
    OBVIOUS
  <2>2. q.phase = "write" /\ q.state = Fallback(p) /\ q.now = proc[p].now
    BY <1>0, <2>1 DEF ProcFields
  <2>3. SeenOK(proc[p])
    BY <1>0, <1>5 DEF PhaseOK, ReadLatest
  <2>4. EffectiveHead(p).epoch \in 0 .. MaxStoredEpoch
    BY <2>3 DEF EffectiveHead, SeenOK, Metadata, IInv, HeadOK
  <2>5. EffectiveHead(p).epoch \in Nat /\ EffectiveHead(p).epoch < MaxEpoch
    BY <2>4, LogAssumption, EpochAssumption, SMT
  <2>6. GoodIfStored(Fallback(p))
    BY <1>0, <2>5, FailClosedIsGood DEF Fallback
  <2>7. HeldOK(q)
    BY <1>0, <2>2, <2>6 DEF HeldOK
  <2>8. proc' = [proc EXCEPT ![p] = q]
    BY <1>5, <2>1 DEF ReadLatest
  <2> QED BY <1>1, <2>7, <2>8, OneMoves
<1>6. CASE Crash(p)
  <2>1. HeldOK(Idle)
    BY SMT DEF HeldOK, Idle
  <2> QED BY <1>1, <1>6, <2>1, OneMoves DEF Crash
<1> QED BY <1>2, <1>3, <1>4, <1>5, <1>6

\* The writes keep what is held good.
LEMMA WriteFallbackIsGood ==
  ASSUME IInv, GInv, NEW p \in Processes, WriteFallback(p)
  PROVE  GInv'
<1> DEFINE o == Written(proc[p].revision, proc[p].state, proc[p].now)
<1>0. /\ proc[p] = [f \in ProcFields |-> proc[p][f]] /\ proc[p].revision \in Nat
      /\ IsState(proc[p].state) /\ Log(proc[p].revision, proc[p].state, proc[p].now)
      /\ proc[p].now \in Int /\ GoodIfStored(proc[p].state) /\ Good(head.state)
  BY DEF IInv, ProcOK, ProcFields, WriteFallback, GInv, HeldOK
<1>1. Good(head'.state) /\ (o \in {"inserted", "duplicate"} => Good(proc[p].state))
  BY <1>0, WriteIsGood
<1>2. PICK u, b : /\ u = Up(proc[p].state, proc[p].revision + 1)
                  /\ b = [proc[p] EXCEPT !.phase = "head", !.reloads = proc[p].reloads + 1,
                                         !.state = New, !.revision = 0]
  OBVIOUS
<1>3. /\ u.phase = "up" /\ u.state = proc[p].state /\ u.now = 0
      /\ b.phase = "head" /\ b.now = proc[p].now
  BY <1>0, <1>2 DEF Up, Idle, ProcFields
<1>4. HeldOK(Idle) /\ HeldOK(b) /\ (o \in {"inserted", "duplicate"} => HeldOK(u))
  BY <1>0, <1>1, <1>3, SMT DEF HeldOK, Idle
<1>5. CASE o \in {"inserted", "duplicate"}
  <2>1. proc' = [proc EXCEPT ![p] = u]
    BY <1>2, <1>5 DEF WriteFallback
  <2> QED BY <1>1, <1>4, <1>5, <2>1, OneMoves
<1>6. CASE o = "stale" /\ proc[p].reloads < MaxReloads
  <2>1. proc' = [proc EXCEPT ![p] = b]
    BY <1>2, <1>6 DEF WriteFallback
  <2> QED BY <1>1, <1>4, <2>1, OneMoves
<1>7. CASE o \notin {"inserted", "duplicate"} /\ ~(o = "stale" /\ proc[p].reloads < MaxReloads)
  <2>1. proc' = [proc EXCEPT ![p] = Idle]
    BY <1>7 DEF WriteFallback
  <2> QED BY <1>1, <1>4, <2>1, OneMoves
<1> QED BY <1>5, <1>6, <1>7

LEMMA StepIsGood ==
  ASSUME IInv, GInv, NEW p \in Processes, Step(p), NoneIsNoSequence
  PROVE  GInv'
<1>1. PICK call \in Calls, now \in Times :
          LET next == Transition(call.policy, proc[p].state, call.request, now)
              o == Written(proc[p].revision, next, now)
          IN  /\ Log(proc[p].revision, next, now)
              /\ proc' = CASE o \in {"inserted", "duplicate"} ->
                                  [proc EXCEPT ![p] = Up(next, proc[p].revision + 1)]
                           [] OTHER -> [proc EXCEPT ![p] = Idle]
  BY DEF Step
<1>2. PICK s : s = Transition(call.policy, proc[p].state, call.request, now)
  OBVIOUS
<1>3. proc[p].revision \in Nat /\ IsState(proc[p].state) /\ Good(proc[p].state)
  BY DEF IInv, ProcOK, GInv, HeldOK, Step
<1>4. IsState(s) /\ GoodIfStored(s)
  <2>1. /\ now \in Int
        /\ call.request.kind \in {"Observe", "EnterHalfOpen", "Close", "RecordBlocked"}
    BY LogAssumption, SMT
  <2>2. PICK was, policy, request :
           was = proc[p].state /\ policy = call.policy /\ request = call.request
    OBVIOUS
  <2>3. IsState(was) /\ s = Transition(policy, was, request, now)
    BY <1>2, <1>3, <2>2
  <2>4. IsState(s)
    <3>1. request.kind \in {"Observe", "EnterHalfOpen", "Close", "RecordBlocked"}
      BY <2>1, <2>2
    <3> QED BY <2>3, <3>1, TransitionMoves, SMT
  <2>5. GoodIfStored(s)
    BY <1>2, <1>3, <2>1, TransitionIsGood
  <2> QED BY <2>4, <2>5
<1>5. Good(head'.state) /\ (Written(proc[p].revision, s, now) \in {"inserted", "duplicate"} => Good(s))
  BY <1>1, <1>2, <1>3, <1>4, WriteIsGood DEF GInv
<1>6. PICK u : u = Up(s, proc[p].revision + 1)
  OBVIOUS
<1>7. u.phase = "up" /\ u.state = s /\ u.now = 0
  BY <1>6 DEF Up, Idle
<1>8. HeldOK(Idle) /\ (Written(proc[p].revision, s, now) \in {"inserted", "duplicate"} => HeldOK(u))
  BY <1>5, <1>7, SMT DEF HeldOK, Idle
<1>9. \/ proc' = [proc EXCEPT ![p] = Idle]
      \/ Written(proc[p].revision, s, now) \in {"inserted", "duplicate"} /\ proc' = [proc EXCEPT ![p] = u]
  BY <1>1, <1>2, <1>6
<1> QED BY <1>5, <1>8, <1>9, OneMoves

\* Every state that is written, by a transition of any policy, request and time
\* or by a restore that failed, is one that validate_restored_state accepts: the
\* domain never writes what it would itself refuse at the next start.  Taken for
\* granted: an empty Option is no sequence (a fact about the constant that no
\* instance can enumerate).
THEOREM StoredIsRestorable ==
  ASSUME NoneIsNoSequence
  PROVE  Spec => []StoredStateIsRestorable
<1>1. Init => GInv
  <2> SUFFICES ASSUME Init PROVE GInv
    OBVIOUS
  <2>1. Good(head.state)
    BY NewIsGood DEF Init, Row
  <2>2. HeldOK(Idle)
    BY SMT DEF HeldOK, Idle
  <2> QED BY <2>1, <2>2 DEF Init, GInv
<1>2. IInv /\ GInv /\ [Next]_vars => GInv'
  <2> SUFFICES ASSUME IInv, GInv, [Next]_vars PROVE GInv'
    OBVIOUS
  <2>1. ASSUME Damage PROVE GInv'
    <3>1. head'.state = head.state /\ proc' = proc
      BY <2>1 DEF Damage, IInv, HeadOK
    <3>2. Good(head'.state) /\ \A r \in Processes : HeldOK(proc'[r])
      BY <3>1 DEF GInv
    <3> QED BY <3>2, GInvNext
  <2>2. CASE UNCHANGED vars
    <3>1. Good(head'.state) /\ \A r \in Processes : HeldOK(proc'[r])
      BY <2>2 DEF vars, GInv
    <3> QED BY <3>1, GInvNext
  <2> QED BY <2>1, <2>2, RestoreIsGood, WriteFallbackIsGood, StepIsGood DEF Next
<1>3. GInv => StoredStateIsRestorable
  <2> SUFFICES ASSUME GInv PROVE StoredStateIsRestorable
    OBVIOUS
  <2>1. PICK s, n : s = head.state /\ n = Latest(0, Stamps(s))
    OBVIOUS
  <2>2. Good(s)
    BY <2>1 DEF GInv
  <2>3. n \in Nat /\ \A t \in Stamps(s) : t <= n
    BY <2>1, <2>2, StampsHaveLast, SMT DEF Good
  <2>4. ~(n < 0) /\ ~(\E t \in Stamps(s) : t > n) /\ StateIsSound(s)
    BY <2>2, <2>3, SMT DEF Good
  <2> QED BY <2>1, <2>4 DEF StoredStateIsRestorable, RestoreFailure
<1> QED BY <1>1, <1>2, <1>3, LogInvariant, PTL DEF Spec

-----------------------------------------------------------------------------
(* Types. *)

\* What TypeOK says beyond the invariant of the log.
Bounded(q) ==
    /\ q.reloads \in 0 .. MaxReloads
    /\ q.phase \in {"down", "head", "latest"} => q.revision = 0

TInv ==
    /\ head.revision <= MaxRevision
    /\ head.condition \in {"good", "corrupt", "foreign"}
    /\ damage \in 0 .. MaxDamage
    /\ \A p \in Processes : Bounded(proc[p])

\* One process moves and the log is left alone.
LEMMA QuietTypes ==
  ASSUME IInv, TInv, head' = head, damage' = damage, NEW p \in Processes, NEW q, Bounded(q),
         proc' = [proc EXCEPT ![p] = q]
  PROVE  TInv'
  BY DEF IInv, ProcOK, TInv, Bounded

\* One process writes, or is refused.
LEMMA WriteTypes ==
  ASSUME IInv, TInv, damage' = damage, NEW p \in Processes, NEW q, Bounded(q),
         proc' = [proc EXCEPT ![p] = q], NEW n \in Nat, NEW s, NEW now, Log(n, s, now),
         Written(n, s, now) = "inserted" => n < MaxRevision
  PROVE  TInv'
<1>1. head'.revision <= MaxRevision /\ head'.condition \in {"good", "corrupt", "foreign"}
  <2>1. CASE Written(n, s, now) = "inserted"
    BY <2>1, LogAssumption, SMT DEF Log, Row
  <2>2. CASE Written(n, s, now) # "inserted"
    BY <2>2 DEF Log, TInv
  <2> QED BY <2>1, <2>2
<1> QED BY <1>1 DEF IInv, ProcOK, TInv, Bounded

\* Revisions, epochs, reloads and damage stay within their bounds, whatever is
\* restored, written, lost or damaged: an epoch that is stored fits its column.
THEOREM LogTypes == Spec => []TypeOK
<1>1. Init => TInv
  BY LogAssumption, SMT DEF Init, TInv, Bounded, Idle, Row
<1>2. IInv /\ TInv /\ [Next]_vars => TInv'
  <2> SUFFICES ASSUME IInv, TInv, [Next]_vars PROVE TInv'
    OBVIOUS
  <2>0. Bounded(Idle) /\ \A s, n : Bounded(Up(s, n))
    BY LogAssumption, SMT DEF Bounded, Idle, Up
  <2>1. ASSUME NEW p \in Processes
        PROVE  /\ proc[p] = [f \in ProcFields |-> proc[p][f]]
               /\ proc[p].revision \in Nat /\ Bounded(proc[p])
    BY DEF IInv, ProcOK, ProcFields, TInv
  <2>2. ASSUME NEW p \in Processes, Start(p) PROVE TInv'
    <3>1. PICK now, q : /\ q = [Idle EXCEPT !.phase = "head", !.now = now]
                        /\ proc' = [proc EXCEPT ![p] = q]
      BY <2>2 DEF Start
    <3>2. Bounded(q)
      BY <3>1, LogAssumption, SMT DEF Bounded, Idle
    <3> QED BY <2>2, <3>1, <3>2, QuietTypes DEF Start
  <2>3. ASSUME NEW p \in Processes, ReadHead(p) PROVE TInv'
    <3>1. PICK q : q = [proc[p] EXCEPT !.phase = "latest", !.seen = Metadata(head)]
      OBVIOUS
    <3>2. proc[p].phase = "head" /\ q.reloads = proc[p].reloads /\ q.revision = proc[p].revision
      BY <2>1, <2>3, <3>1 DEF ReadHead, ProcFields
    <3>3. Bounded(q)
      BY <2>1, <3>2 DEF Bounded
    <3> QED BY <2>3, <3>1, <3>3, QuietTypes DEF ReadHead
  <2>4. ASSUME NEW p \in Processes, ReadLatest(p) PROVE TInv'
    <3>1. PICK q : q = [proc[p] EXCEPT !.phase = "write", !.state = Fallback(p),
                                       !.revision = EffectiveHead(p).revision]
      OBVIOUS
    <3>2. q.reloads = proc[p].reloads /\ q.phase = "write"
      BY <2>1, <3>1 DEF ProcFields
    <3>3. Bounded(q)
      BY <2>1, <3>2 DEF Bounded
    <3>4. \/ proc' = [proc EXCEPT ![p] = q]
          \/ proc' = [proc EXCEPT ![p] = Up(head.state, head.revision)]
      BY <2>4, <3>1 DEF ReadLatest
    <3> QED BY <2>0, <2>4, <3>3, <3>4, QuietTypes DEF ReadLatest
  <2>5. ASSUME NEW p \in Processes, Crash(p) PROVE TInv'
    BY <2>0, <2>5, QuietTypes DEF Crash
  <2>6. ASSUME NEW p \in Processes, WriteFallback(p) PROVE TInv'
    <3>1. PICK b : b = [proc[p] EXCEPT !.phase = "head", !.reloads = proc[p].reloads + 1,
                                       !.state = New, !.revision = 0]
      OBVIOUS
    <3>2. b.reloads = proc[p].reloads + 1 /\ b.revision = 0
      BY <2>1, <3>1 DEF ProcFields
    <3>3. proc[p].reloads < MaxReloads => Bounded(b)
      <4>1. proc[p].reloads \in 0 .. MaxReloads
        BY <2>1 DEF Bounded
      <4>2. proc[p].reloads < MaxReloads => b.reloads \in 0 .. MaxReloads
        BY <3>2, <4>1, LogAssumption, SMT
      <4> QED BY <3>2, <4>2 DEF Bounded
    <3>4. \/ proc' = [proc EXCEPT ![p] = Up(proc[p].state, proc[p].revision + 1)]
          \/ proc' = [proc EXCEPT ![p] = b] /\ proc[p].reloads < MaxReloads
          \/ proc' = [proc EXCEPT ![p] = Idle]
      BY <2>6, <3>1 DEF WriteFallback
    <3>5. /\ damage' = damage /\ Log(proc[p].revision, proc[p].state, proc[p].now)
          /\ Written(proc[p].revision, proc[p].state, proc[p].now) = "inserted" =>
                 proc[p].revision < MaxRevision
      BY <2>6 DEF WriteFallback
    <3> QED BY <2>0, <2>1, <3>3, <3>4, <3>5, WriteTypes
  <2>7. ASSUME NEW p \in Processes, Step(p) PROVE TInv'
    <3>1. PICK s, now :
              /\ Log(proc[p].revision, s, now)
              /\ Written(proc[p].revision, s, now) = "inserted" => proc[p].revision < MaxRevision
              /\ \/ proc' = [proc EXCEPT ![p] = Up(s, proc[p].revision + 1)]
                 \/ proc' = [proc EXCEPT ![p] = Idle]
      BY <2>7 DEF Step
    <3>2. damage' = damage
      BY <2>7 DEF Step
    <3> QED BY <2>0, <2>1, <3>1, <3>2, WriteTypes
  <2>8. ASSUME Damage PROVE TInv'
    BY <2>8, LogAssumption, SMT DEF Damage, IInv, HeadOK, TInv, Bounded
  <2>9. CASE UNCHANGED vars
    BY <2>9 DEF vars, TInv, Bounded
  <2> QED BY <2>2, <2>3, <2>4, <2>5, <2>6, <2>7, <2>8, <2>9 DEF Next
<1>3. IInv /\ TInv => TypeOK
  <2> SUFFICES ASSUME IInv, TInv, NEW p \in Processes
               PROVE  /\ proc[p].revision \in 0 .. MaxRevision
                      /\ proc[p].phase \in {"down", "head", "latest", "write", "up"}
                      /\ proc[p].reloads \in 0 .. MaxReloads
                      /\ proc[p].state.epoch \in 0 .. MaxEpoch
    BY LogAssumption, SMT DEF IInv, HeadOK, IsState, TInv, TypeOK
  <2>1. proc[p].revision \in 0 .. MaxRevision
    BY LogAssumption, SMT DEF IInv, HeadOK, ProcOK, PhaseOK, FallbackOK, UpOK, TInv, Bounded
  <2> QED BY <2>1 DEF IInv, ProcOK, IsState, PhaseOK, TInv, Bounded
<1> QED BY <1>1, <1>2, <1>3, LogInvariant, PTL DEF Spec
=============================================================================
