----------------------- MODULE CommandLifecycleProofs -----------------------
(***************************************************************************)
(* Proofs about CommandLifecycle, for every expiry, every range of times   *)
(* and any number of owners of snapshots.  The key is SnapshotsAreOlder: a *)
(* snapshot that differs from the row has an older version, so the         *)
(* compare-and-swap lets an owner persist only what follows from the row.  *)
(***************************************************************************)
EXTENDS CommandLifecycle, TLAPS

SnapshotsAreOlder ==
    \A o \in Owners : held[o] = state \/ held[o].updated_at < state.updated_at

SnapshotsAreValid == \A o \in Owners : ValidCommandState(held[o])

IInv == TypeOK /\ RowStaysValid /\ SnapshotsAreValid /\ SnapshotsAreOlder

-----------------------------------------------------------------------------
(* The transition.                                                         *)

\* Evidence leads to a status, and carries times.
LEMMA EvidenceFacts ==
    ASSUME NEW ev \in Evidence
    PROVE  /\ EvidenceTarget(ev) \in Statuses
           /\ ev.at \in Int
           /\ EvidenceTarget(ev) = "Dispatched" <=> ev.kind = "Dispatched"
<1>1. ev.at \in Int
  BY TimeAssumption DEF Evidence, Times
<1>2. CASE ev.kind = "ExecutionEvent"
  <2>1. ev.status \in EventStatuses
    BY <1>2 DEF Evidence, PlainKinds, ReceiptKinds
  <2>2. EvidenceTarget(ev) = ev.status
    BY <1>2 DEF EvidenceTarget, ReceiptKinds
  <2> QED
    BY <1>1, <1>2, <2>1, <2>2 DEF EventStatuses, Statuses
<1>3. CASE ev.kind \in PlainKinds \cup ReceiptKinds
  BY <1>1, <1>3 DEF EvidenceTarget, PlainKinds, ReceiptKinds, Statuses
<1> QED
  BY <1>2, <1>3 DEF Evidence

\* The version of a row goes up.
LEMMA VersionGrows ==
    ASSUME NEW st \in StateRows, NEW t \in Int
    PROVE  NextVersion(st, t) \in Int /\ NextVersion(st, t) > st.updated_at
BY DEF NextVersion, StateRows

\* The transition table only leads to stronger phases, and out of no terminal one.
LEMMA RankGrows ==
    ASSUME NEW from \in Statuses, NEW to \in Statuses, TransitionIsAllowed(from, to)
    PROVE  Rank(to) > Rank(from) /\ from \notin Terminal
BY DEF TransitionIsAllowed, AllowedTargets, Statuses, Terminal, Rank

\* Only a command that was never dispatched is dispatched.
LEMMA DispatchOnlyFromCreated ==
    ASSUME NEW from \in Statuses, TransitionIsAllowed(from, "Dispatched")
    PROVE  from = "Created"
BY DEF TransitionIsAllowed, AllowedTargets, Statuses, Terminal

\* Ranks are numbers.
LEMMA RankIsNat == ASSUME NEW s \in Statuses PROVE Rank(s) \in Nat
BY DEF Rank, Statuses, Terminal

\* What an applied transition does to a row.
Follows(st, next) ==
    /\ next \in StateRows
    /\ ValidCommandState(next)
    /\ next.delivery_attempts <= 1
    /\ next.updated_at > st.updated_at
    /\ Rank(next.status) >= Rank(st.status)
    /\ st.status \in Terminal =>
           next.status = st.status /\ next.completed_at = st.completed_at
    /\ st.dispatched_at # None => next.dispatched_at = st.dispatched_at
    /\ st.command_received_at # None => next.command_received_at = st.command_received_at
    /\ st.reconciling_at # None => next.reconciling_at = st.reconciling_at

\* A receipt, late or not, does this.
LEMMA ReceiptFollows ==
    ASSUME NEW st \in StateRows, st.delivery_attempts <= 1, NEW ev \in Evidence,
           Applies(st, ev), ev.kind \in ReceiptKinds
    PROVE  Follows(st, Candidate(st, ev))
<1> DEFINE next == AfterReceipt(st, ev)
<1>1. Candidate(st, ev) = next /\ ValidCommandState(next) /\ ReceiptApplies(st, ev)
  BY DEF Applies, ChecksPass, Candidate
<1>2. next = [st EXCEPT !.status = next.status, !.command_received_at = ev.at,
                        !.updated_at = NextVersion(st, ev.at)]
  BY DEF AfterReceipt, StateRows
<1>3. /\ next.status = IF TransitionIsAllowed(st.status, "CommandReceived")
                       THEN "CommandReceived" ELSE st.status
      /\ next.updated_at = NextVersion(st, ev.at)
  BY DEF AfterReceipt, StateRows
<1>4. next \in StateRows
  BY EvidenceFacts, VersionGrows DEF AfterReceipt, StateRows, Statuses
<1>5. next.updated_at > st.updated_at
  BY <1>3, EvidenceFacts, VersionGrows
<1>6. /\ next.delivery_attempts = st.delivery_attempts
      /\ next.dispatched_at = st.dispatched_at
      /\ next.reconciling_at = st.reconciling_at
      /\ next.completed_at = st.completed_at
  BY DEF AfterReceipt, StateRows
<1>7. st.command_received_at = None
  BY <1>1 DEF ReceiptApplies
<1>8. /\ Rank(next.status) >= Rank(st.status)
      /\ st.status \in Terminal => next.status = st.status
  <2>1. st.status \in Statuses /\ "CommandReceived" \in Statuses
    BY DEF StateRows, Statuses
  <2>2. CASE TransitionIsAllowed(st.status, "CommandReceived")
    BY <1>3, <2>1, <2>2, RankGrows, RankIsNat
  <2>3. CASE ~TransitionIsAllowed(st.status, "CommandReceived")
    BY <1>3, <2>1, <2>3, RankIsNat
  <2> QED
    BY <2>2, <2>3
<1> QED
  BY <1>1, <1>4, <1>5, <1>6, <1>7, <1>8 DEF Follows

\* Every other evidence does this.
LEMMA AdvanceFollows ==
    ASSUME NEW st \in StateRows, ValidCommandState(st), st.delivery_attempts <= 1,
           NEW ev \in Evidence, Applies(st, ev), ev.kind \notin ReceiptKinds
    PROVE  Follows(st, Candidate(st, ev))
<1> DEFINE next == AfterAdvance(st, ev)
           to == EvidenceTarget(ev)
<1>1. /\ Candidate(st, ev) = next /\ ValidCommandState(next)
      /\ TransitionIsAllowed(st.status, to)
  BY DEF Applies, ChecksPass, Candidate, AdvanceApplies
<1>2. st.status \in Statuses /\ to \in Statuses /\ ev.at \in Int
  BY EvidenceFacts DEF StateRows
<1>3. st.status \notin Terminal /\ Rank(to) > Rank(st.status)
  BY <1>1, <1>2, RankGrows
<1>4. ev.kind = "Dispatched" => st.status = "Created"
  BY <1>1, <1>2, EvidenceFacts, DispatchOnlyFromCreated
<1>5. st.status = "Created" => st.delivery_attempts = 0 /\ st.dispatched_at = None
  BY DEF ValidCommandState
<1>6. next \in StateRows
  <2> DEFINE version == NextVersion(st, ev.at)
             attempts == IF ev.kind = "Dispatched" THEN st.delivery_attempts + 1
                                                   ELSE st.delivery_attempts
             dispatched == IF ev.kind = "Dispatched" THEN ev.at ELSE st.dispatched_at
             error == IF ev.kind = "Dispatched" THEN FALSE
                      ELSE ev.kind = "DeliveryUnconfirmed" \/ st.has_error
             reconciling ==
                 IF /\ ev.kind \in {"BeginReconciliation", "RequireManualReconciliation"}
                    /\ st.reconciling_at = None
                 THEN ev.at ELSE st.reconciling_at
             completed == IF to \in Terminal THEN ev.at ELSE st.completed_at
  <2>1. version \in Int /\ attempts \in Nat /\ dispatched \in Int
    BY <1>2, VersionGrows DEF StateRows
  <2>2. reconciling \in Int /\ completed \in Int
    BY <1>2 DEF StateRows
  <2>3. error \in BOOLEAN
    OBVIOUS
  <2>4. next = [st EXCEPT !.status = to, !.updated_at = version,
                          !.delivery_attempts = attempts, !.dispatched_at = dispatched,
                          !.has_error = error, !.reconciling_at = reconciling,
                          !.completed_at = completed]
    BY DEF AfterAdvance
  <2> HIDE DEF next, to, version, attempts, dispatched, error, reconciling, completed
  <2> QED
    BY <1>2, <2>1, <2>2, <2>3, <2>4 DEF StateRows
<1>7. /\ next.status = to
      /\ next.updated_at = NextVersion(st, ev.at)
      /\ next.delivery_attempts = IF ev.kind = "Dispatched" THEN st.delivery_attempts + 1
                                                            ELSE st.delivery_attempts
      /\ next.dispatched_at = IF ev.kind = "Dispatched" THEN ev.at ELSE st.dispatched_at
      /\ next.command_received_at = st.command_received_at
      /\ st.reconciling_at # None => next.reconciling_at = st.reconciling_at
  BY DEF AfterAdvance, StateRows
<1>8. next.delivery_attempts <= 1
  BY <1>4, <1>5, <1>7
<1>9. st.dispatched_at # None => next.dispatched_at = st.dispatched_at
  BY <1>4, <1>5, <1>7
<1>10. next.updated_at > st.updated_at
  BY <1>2, <1>7, VersionGrows
<1>11. Rank(next.status) >= Rank(st.status)
  BY <1>2, <1>3, <1>7, RankIsNat
<1> QED
  BY <1>1, <1>3, <1>6, <1>7, <1>8, <1>9, <1>10, <1>11 DEF Follows

\* An applied transition leads to a valid, newer row that keeps what is recorded.
LEMMA TransitionFollows ==
    ASSUME NEW st \in StateRows, ValidCommandState(st), st.delivery_attempts <= 1,
           NEW ev \in Evidence, Applies(st, ev)
    PROVE  Follows(st, Candidate(st, ev))
BY ReceiptFollows, AdvanceFollows

-----------------------------------------------------------------------------
(* The steps.                                                              *)

\* A step leaves the row alone or replaces it by a transition of itself: an owner
\* whose snapshot is not the row any more fails its compare-and-swap.
LEMMA StepsFollow ==
    ASSUME IInv, [Next]_vars
    PROVE  /\ \/ state' = state
              \/ \E ev \in Evidence : Applies(state, ev) /\ state' = Candidate(state, ev)
           /\ \A o \in Owners : held'[o] \in {held[o], state, state'}
           /\ held' = [o \in Owners |-> held'[o]]
<1> USE DEF IInv, TypeOK
<1>1. CASE UNCHANGED vars
  BY <1>1 DEF vars
<1>2. ASSUME NEW ev \in Evidence, Apply(ev)
      PROVE  /\ Applies(state, ev) /\ state' = Candidate(state, ev)
             /\ held' = held
  BY <1>2 DEF Apply
<1>3. ASSUME NEW o \in Owners, Load(o)
      PROVE  state' = state /\ held' = [held EXCEPT ![o] = state]
  BY <1>3 DEF Load
<1>4. ASSUME NEW o \in Owners, NEW ev \in Evidence, Persist(o, ev)
      PROVE  /\ \/ state' = state
                \/ Applies(state, ev) /\ state' = Candidate(state, ev)
             /\ held' = [held EXCEPT ![o] = state']
  <2> DEFINE next == Candidate(held[o], ev)
  <2>1. /\ Applies(held[o], ev)
        /\ CasSucceeds(held[o], next) \/ state = next
        /\ state' = next
        /\ held' = [held EXCEPT ![o] = next]
    BY <1>4 DEF Persist
  <2>2. CASE state = next
    BY <2>1, <2>2
  <2>3. CASE CasSucceeds(held[o], next)
    <3>1. state.updated_at = held[o].updated_at
      BY <2>3 DEF CasSucceeds
    <3>2. state.updated_at \in Int
      BY DEF StateRows
    <3>3. held[o] = state
      BY <3>1, <3>2 DEF SnapshotsAreOlder
    <3> QED
      BY <2>1, <3>3
  <2> QED
    BY <2>1, <2>2, <2>3
<1> QED
  BY <1>1, <1>2, <1>3, <1>4 DEF Next

\* The same, in terms of what a row keeps.
LEMMA RowFollows ==
    ASSUME IInv, [Next]_vars
    PROVE  state' = state \/ Follows(state, state')
BY StepsFollow, TransitionFollows DEF IInv, TypeOK, RowStaysValid

\* The initial row satisfies the invariant.
LEMMA InitIInv == Init => IInv
<1> SUFFICES ASSUME Init PROVE IInv
  OBVIOUS
<1>1. InitialCommandState \in StateRows
  BY TimeAssumption DEF InitialCommandState, StateRows, Statuses, None
<1>2. ValidCommandState(InitialCommandState) /\ InitialCommandState.delivery_attempts <= 1
  BY TimeAssumption
  DEF InitialCommandState, ValidCommandState, None, Terminal, RequiresDispatch
<1> QED
  BY <1>1, <1>2 DEF Init, IInv, TypeOK, RowStaysValid, SnapshotsAreValid, SnapshotsAreOlder

\* Every step keeps the invariant.
LEMMA NextIInv == IInv /\ [Next]_vars => IInv'
<1> SUFFICES ASSUME IInv, [Next]_vars PROVE IInv'
  OBVIOUS
<1>1. state' = state \/ Follows(state, state')
  BY RowFollows
<1>2. /\ state' \in StateRows /\ ValidCommandState(state') /\ state'.delivery_attempts <= 1
      /\ state' = state \/ state.updated_at < state'.updated_at
      /\ state.updated_at \in Int /\ state'.updated_at \in Int
  BY <1>1 DEF Follows, IInv, TypeOK, RowStaysValid, StateRows
<1>3. /\ \A o \in Owners : held'[o] \in {held[o], state, state'}
      /\ held' = [o \in Owners |-> held'[o]]
  BY StepsFollow
<1>4. TypeOK'
  BY <1>2, <1>3 DEF IInv, TypeOK
<1>5. RowStaysValid'
  BY <1>2 DEF RowStaysValid, ValidCommandState
<1>6. SnapshotsAreValid'
  <2>1. \A o \in Owners : ValidCommandState(held'[o])
    BY <1>2, <1>3 DEF IInv, SnapshotsAreValid, RowStaysValid
  <2> QED
    BY <2>1 DEF SnapshotsAreValid, ValidCommandState
<1>7. SnapshotsAreOlder'
  <2> SUFFICES ASSUME NEW o \in Owners
               PROVE  held'[o] = state' \/ held'[o].updated_at < state'.updated_at
    BY DEF SnapshotsAreOlder
  <2>1. held[o].updated_at \in Int
    BY DEF IInv, TypeOK, StateRows
  <2> QED
    BY <1>2, <1>3, <2>1 DEF IInv, SnapshotsAreOlder
<1> QED
  BY <1>4, <1>5, <1>6, <1>7 DEF IInv

-----------------------------------------------------------------------------
(* The theorems.                                                           *)

\* The strengthened invariant holds in every reachable state.
THEOREM Invariance == Spec => []IInv
BY InitIInv, NextIInv, PTL DEF Spec

\* The row and the snapshots keep their types.
THEOREM TypeCorrect == Spec => []TypeOK
<1>1. IInv => TypeOK
  BY DEF IInv
<1> QED
  BY <1>1, Invariance, PTL

\* Every row that is persisted passes validate_command_state, and a command is
\* dispatched at most once, whatever evidence comes in whatever order.
THEOREM RowsAreValid == Spec => []RowStaysValid
<1>1. IInv => RowStaysValid
  BY DEF IInv
<1> QED
  BY <1>1, Invariance, PTL

\* No update is lost: the row that changes is the row the transition was computed
\* from (update_execution_command_state compares status and updated_at).
THEOREM UpdatesAreNotLost == Spec => NoLostUpdate
<1>1. IInv /\ [Next]_vars =>
          [ state' # state =>
              /\ state'.updated_at > state.updated_at
              /\ \E ev \in Evidence : Applies(state, ev) /\ state' = Candidate(state, ev) ]_vars
  BY StepsFollow, RowFollows DEF Follows
<1> QED
  BY <1>1, Invariance, PTL DEF Spec, NoLostUpdate

\* No step moves a command to a weaker phase or changes a terminal one.
THEOREM LifecycleIsMonotone == Spec => NeverRegresses
<1>1. IInv /\ [Next]_vars =>
          [ /\ Rank(state'.status) >= Rank(state.status)
            /\ state.status \in Terminal =>
                   /\ state'.status = state.status
                   /\ state'.completed_at = state.completed_at ]_vars
  <2> SUFFICES ASSUME IInv, [Next]_vars
               PROVE  /\ Rank(state'.status) >= Rank(state.status)
                      /\ state.status \in Terminal =>
                             /\ state'.status = state.status
                             /\ state'.completed_at = state.completed_at
    OBVIOUS
  <2>1. Rank(state.status) \in Nat
    BY RankIsNat DEF IInv, TypeOK, StateRows
  <2> QED
    BY <2>1, RowFollows DEF Follows
<1> QED
  BY <1>1, Invariance, PTL DEF Spec, NeverRegresses

\* Recorded evidence is never erased or changed.
THEOREM EvidenceIsKept == Spec => EvidenceNeverLost
<1>1. IInv /\ [Next]_vars =>
          [ /\ state.dispatched_at # None => state'.dispatched_at = state.dispatched_at
            /\ state.command_received_at # None =>
                   state'.command_received_at = state.command_received_at
            /\ state.reconciling_at # None =>
                   state'.reconciling_at = state.reconciling_at ]_vars
  BY RowFollows DEF Follows
<1> QED
  BY <1>1, Invariance, PTL DEF Spec, EvidenceNeverLost

-----------------------------------------------------------------------------
(* The table, the receipt rules and the validator agree.                   *)

\* What the table says of the source and the target of a transition.
LEMMA TableFacts ==
    ASSUME NEW from \in Statuses, NEW to \in Statuses, TransitionIsAllowed(from, to)
    PROVE  /\ to # "Created" /\ to # "DeliveryFailed"
           /\ from = "Created" => to \in {"Dispatched", "Expired", "Cancelled"}
           /\ to = "Accepted" => from = "CommandReceived"
           /\ to = "Rejected" => from \in {"CommandReceived", "Accepted"}
           /\ from \notin Terminal
BY DEF TransitionIsAllowed, AllowedTargets, Statuses, Terminal

\* What kind of evidence leads to a status that needs more than the status.
LEMMA TargetFacts ==
    ASSUME NEW ev \in Evidence
    PROVE  /\ EvidenceTarget(ev) = "DeliveryUnconfirmed" => ev.kind = "DeliveryUnconfirmed"
           /\ EvidenceTarget(ev) = "Reconciling" => ev.kind = "BeginReconciliation"
           /\ EvidenceTarget(ev) = "ManualReconciliationRequired" =>
                  ev.kind = "RequireManualReconciliation"
           /\ EvidenceTarget(ev) = "CommandReceived" => ev.kind \in ReceiptKinds
<1>1. CASE ev.kind = "ExecutionEvent"
  <2>1. ev.status \in EventStatuses
    BY <1>1 DEF Evidence, PlainKinds, ReceiptKinds
  <2>2. EvidenceTarget(ev) = ev.status
    BY <1>1 DEF EvidenceTarget, ReceiptKinds
  <2> QED
    BY <2>1, <2>2 DEF EventStatuses
<1>2. CASE ev.kind \in PlainKinds \cup ReceiptKinds
  BY <1>2 DEF EvidenceTarget, PlainKinds, ReceiptKinds
<1> QED
  BY <1>1, <1>2 DEF Evidence

\* A version is not older than the row it replaces nor than the evidence.
LEMMA VersionCovers ==
    ASSUME NEW st \in StateRows, NEW t \in Int
    PROVE  NextVersion(st, t) >= st.updated_at /\ NextVersion(st, t) >= t
BY DEF NextVersion, StateRows

\* A receipt that passes the checks gives a valid row.
LEMMA ReceiptIsValid ==
    ASSUME NEW st \in StateRows, NEW ev \in Evidence, ev.kind \in ReceiptKinds, ChecksPass(st, ev)
    PROVE  ValidCommandState(Candidate(st, ev))
<1>1. PICK next : next = Candidate(st, ev)
  OBVIOUS
<1>2. /\ ValidCommandState(st) /\ ReceiptApplies(st, ev) /\ ev.at >= CreatedAt
      /\ next = AfterReceipt(st, ev)
  BY <1>1 DEF ChecksPass, Candidate, EvidenceIsValid
<1>3. ev.at \in Int /\ NextVersion(st, ev.at) \in Int
      /\ NextVersion(st, ev.at) >= st.updated_at /\ NextVersion(st, ev.at) >= ev.at
  BY EvidenceFacts, VersionGrows, VersionCovers
<1>4. /\ next.status = IF TransitionIsAllowed(st.status, "CommandReceived")
                       THEN "CommandReceived" ELSE st.status
      /\ next.command_received_at = ev.at
      /\ next.updated_at = NextVersion(st, ev.at)
      /\ next.delivery_attempts = st.delivery_attempts
      /\ next.has_error = st.has_error
      /\ next.dispatched_at = st.dispatched_at
      /\ next.reconciling_at = st.reconciling_at
      /\ next.completed_at = st.completed_at
  BY <1>2 DEF AfterReceipt, StateRows
<1>5. CreatedAt \in Nat /\ st.updated_at \in Int /\ ev.at # None
  BY <1>2, <1>3, TimeAssumption DEF StateRows, None
<1>6. \A t \in {next.dispatched_at, next.command_received_at,
                next.reconciling_at, next.completed_at} :
          t # None => CreatedAt <= t /\ t <= next.updated_at
  <2>1. st.dispatched_at \in Int /\ st.reconciling_at \in Int /\ st.completed_at \in Int
    BY DEF StateRows
  <2> QED
    BY <1>2, <1>3, <1>4, <1>5, <2>1 DEF ValidCommandState
<1>7. CASE TransitionIsAllowed(st.status, "CommandReceived")
  <2>1. st.status # "Created" /\ st.status \notin Terminal
    BY <1>7, TableFacts DEF StateRows, Statuses
  <2>2. next.status = "CommandReceived"
    BY <1>4, <1>7
  <2>3. st.dispatched_at # None
    BY <2>1, <1>2 DEF ValidCommandState, RequiresDispatch, Terminal, StateRows
  <2>4. next.updated_at >= CreatedAt
    BY <1>2, <1>3, <1>4, <1>5 DEF ValidCommandState
  <2> QED
    BY <1>2, <1>1, <1>4, <1>5, <1>6, <2>1, <2>2, <2>3, <2>4
       DEF ValidCommandState, Terminal
<1>8. CASE ~TransitionIsAllowed(st.status, "CommandReceived")
  <2>1. next.status = st.status /\ st.status # "Created"
    BY <1>2, <1>4, <1>8 DEF ReceiptApplies, LateReceiptStatuses
  <2>2. next.updated_at >= CreatedAt
    BY <1>2, <1>3, <1>4, <1>5 DEF ValidCommandState
  <2> QED
    BY <1>2, <1>1, <1>4, <1>5, <1>6, <2>1, <2>2 DEF ValidCommandState
<1> QED
  BY <1>7, <1>8

\* So does every other evidence.
LEMMA AdvanceIsValid ==
    ASSUME NEW st \in StateRows, NEW ev \in Evidence, ev.kind \notin ReceiptKinds, ChecksPass(st, ev)
    PROVE  ValidCommandState(Candidate(st, ev))
<1>1. PICK next : next = Candidate(st, ev)
  OBVIOUS
<1>2. PICK to : to = EvidenceTarget(ev)
  OBVIOUS
<1>3. /\ ValidCommandState(st) /\ ev.at >= CreatedAt /\ next = AfterAdvance(st, ev)
      /\ NotBeforeLatest(st, ev.at) /\ TransitionIsAllowed(st.status, to)
  BY <1>1, <1>2 DEF ChecksPass, Candidate, EvidenceIsValid, AdvanceApplies
<1>4. ev.at \in Int /\ NextVersion(st, ev.at) \in Int
      /\ NextVersion(st, ev.at) >= st.updated_at /\ NextVersion(st, ev.at) >= ev.at
  BY EvidenceFacts, VersionGrows, VersionCovers
<1>5. /\ next.status = to
      /\ next.updated_at = NextVersion(st, ev.at)
      /\ next.command_received_at = st.command_received_at
      /\ next.delivery_attempts = IF ev.kind = "Dispatched" THEN st.delivery_attempts + 1
                                                            ELSE st.delivery_attempts
      /\ next.dispatched_at = IF ev.kind = "Dispatched" THEN ev.at ELSE st.dispatched_at
      /\ next.reconciling_at =
             IF /\ ev.kind \in {"BeginReconciliation", "RequireManualReconciliation"}
                /\ st.reconciling_at = None
             THEN ev.at ELSE st.reconciling_at
      /\ next.completed_at = IF to \in Terminal THEN ev.at ELSE st.completed_at
      /\ ev.kind = "DeliveryUnconfirmed" => next.has_error
  BY <1>2, <1>3 DEF AfterAdvance, StateRows
<1>6. /\ CreatedAt \in Nat /\ st.updated_at \in Int /\ ev.at # None
      /\ st.dispatched_at \in Int /\ st.reconciling_at \in Int /\ st.completed_at \in Int
      /\ st.command_received_at \in Int /\ st.delivery_attempts \in Nat
      /\ st.status \in Statuses /\ to \in Statuses
  BY <1>2, <1>3, <1>4, TimeAssumption, EvidenceFacts DEF StateRows, None
<1>7. /\ to # "Created" /\ to # "DeliveryFailed" /\ st.status \notin Terminal
      /\ st.status = "Created" => to \in {"Dispatched", "Expired", "Cancelled"}
      /\ to = "Accepted" => st.status = "CommandReceived"
      /\ to = "Rejected" => st.status \in {"CommandReceived", "Accepted"}
  BY <1>3, <1>6, TableFacts
<1>8. /\ to = "DeliveryUnconfirmed" => ev.kind = "DeliveryUnconfirmed"
      /\ to = "Reconciling" => ev.kind = "BeginReconciliation"
      /\ to = "ManualReconciliationRequired" => ev.kind = "RequireManualReconciliation"
      /\ to # "CommandReceived"
      /\ to = "Dispatched" <=> ev.kind = "Dispatched"
  BY <1>2, TargetFacts, EvidenceFacts
<1>9. st.completed_at = None
  BY <1>3, <1>7 DEF ValidCommandState
<1>10. \A t \in {next.dispatched_at, next.command_received_at,
                 next.reconciling_at, next.completed_at} :
          t # None => CreatedAt <= t /\ t <= next.updated_at
  BY <1>3, <1>4, <1>5, <1>6 DEF ValidCommandState
<1>11. to \in Terminal <=> next.completed_at # None
  BY <1>5, <1>6, <1>9
<1>12. next.dispatched_at # None <=> next.delivery_attempts > 0
  BY <1>3, <1>5, <1>6 DEF ValidCommandState
<1>13. to \in RequiresDispatch => next.dispatched_at # None
  <2>1. CASE to = "Dispatched"
    BY <1>5, <1>6, <1>8, <2>1
  <2>2. CASE to # "Dispatched" /\ st.status = "Created"
    BY <1>7, <2>2 DEF RequiresDispatch
  <2>3. CASE to # "Dispatched" /\ st.status # "Created"
    BY <1>3, <1>5, <1>6, <1>7, <1>8, <2>3 DEF ValidCommandState, RequiresDispatch, Terminal
  <2> QED
    BY <2>1, <2>2, <2>3
<1>14. /\ to = "DeliveryUnconfirmed" => next.has_error
       /\ to \in {"Reconciling", "ManualReconciliationRequired"} => next.reconciling_at # None
  BY <1>5, <1>6, <1>8
<1>15. to \in {"CommandReceived", "Accepted", "Rejected"} => next.command_received_at # None
  BY <1>3, <1>5, <1>7, <1>8 DEF ValidCommandState
<1>16. next.updated_at >= CreatedAt
  BY <1>3, <1>4, <1>5, <1>6
<1> QED
  BY <1>1, <1>5, <1>7, <1>10, <1>11, <1>12, <1>13, <1>14, <1>15, <1>16 DEF ValidCommandState

\* Whatever passes the checks of transition_command passes the validation at its end: on no
\* reachable row is admissible evidence turned into an error by the validator.
THEOREM ValidatorAlwaysAgrees == Spec => []ValidatorAgrees
<1>1. IInv => ValidatorAgrees
  BY ReceiptIsValid, AdvanceIsValid DEF IInv, TypeOK, ValidatorAgrees
<1> QED
  BY <1>1, Invariance, PTL
=============================================================================
