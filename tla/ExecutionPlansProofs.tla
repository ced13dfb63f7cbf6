------------------------ MODULE ExecutionPlansProofs ------------------------
(***************************************************************************)
(* Proofs about module ExecutionPlans, for every set of legs, every expiry *)
(* and every set of evidence timestamps.                                   *)
(***************************************************************************)
EXTENDS ExecutionPlans, TLAPS

\* Zenon proves a leaf that names no other prover.
USE Zenon

\* The evidence the actions build: a time and a status of the lifecycle.
Proper(ev) == ev.at \in Int /\ C!EvidenceTarget(ev) \in C!Statuses

\* The candidate row of a receipt.
LEMMA AfterReceiptFacts ==
    ASSUME NEW st \in C!StateRows, NEW ev, Proper(ev)
    PROVE  /\ C!AfterReceipt(st, ev) \in C!StateRows
           /\ C!AfterReceipt(st, ev).status =
                IF C!TransitionIsAllowed(st.status, "CommandReceived")
                THEN "CommandReceived" ELSE st.status
<1> DEFINE s == IF C!TransitionIsAllowed(st.status, "CommandReceived")
                THEN "CommandReceived" ELSE st.status
           t == ev.at
           v == C!NextVersion(st, ev.at)
<1>1. s \in C!Statuses
  BY DEF C!Statuses, C!StateRows
<1>2. t \in Int /\ v \in Int
  BY SMT DEF C!NextVersion, C!StateRows, Proper
<1>3. C!AfterReceipt(st, ev) = [st EXCEPT !.status = s, !.command_received_at = t,
                                          !.updated_at = v]
  BY DEF C!AfterReceipt
<1> HIDE DEF s, t, v
<1>4. C!AfterReceipt(st, ev) \in C!StateRows /\ C!AfterReceipt(st, ev).status = s
  BY <1>1, <1>2, <1>3 DEF C!StateRows
<1> QED
  BY <1>4 DEF s

\* The candidate row of any other evidence.
LEMMA AfterAdvanceFacts ==
    ASSUME NEW st \in C!StateRows, NEW ev, Proper(ev)
    PROVE  /\ C!AfterAdvance(st, ev) \in C!StateRows
           /\ C!AfterAdvance(st, ev).status = C!EvidenceTarget(ev)
<1> DEFINE s == C!EvidenceTarget(ev)
           v == C!NextVersion(st, ev.at)
           n == IF ev.kind = "Dispatched" THEN st.delivery_attempts + 1
                                          ELSE st.delivery_attempts
           d == IF ev.kind = "Dispatched" THEN ev.at ELSE st.dispatched_at
           e == IF ev.kind = "Dispatched" THEN FALSE
                ELSE ev.kind = "DeliveryUnconfirmed" \/ st.has_error
           r == IF /\ ev.kind \in {"BeginReconciliation", "RequireManualReconciliation"}
                   /\ st.reconciling_at = C!None
                THEN ev.at ELSE st.reconciling_at
           c == IF C!EvidenceTarget(ev) \in C!Terminal THEN ev.at ELSE st.completed_at
<1>1. s \in C!Statuses /\ v \in Int /\ n \in Nat /\ d \in Int
  BY SMT DEF C!NextVersion, C!StateRows, Proper
<1>2. r \in Int /\ c \in Int
  BY DEF C!StateRows, Proper
<1>3. e \in BOOLEAN
  OBVIOUS
<1>4. C!AfterAdvance(st, ev) =
        [st EXCEPT !.status = s, !.updated_at = v, !.delivery_attempts = n,
                   !.dispatched_at = d, !.has_error = e, !.reconciling_at = r,
                   !.completed_at = c]
  BY DEF C!AfterAdvance
<1> HIDE DEF s, v, n, d, e, r, c
<1>5. C!AfterAdvance(st, ev) \in C!StateRows /\ C!AfterAdvance(st, ev).status = s
  BY <1>1, <1>2, <1>3, <1>4 DEF C!StateRows
<1> QED
  BY <1>5 DEF s

\* What the row transition_command computes is worth to the projection: a receipt
\* keeps the status or makes it COMMAND_RECEIVED, any other evidence sets the status
\* it stands for, and a terminal row keeps its status.
LEMMA CandidateFacts ==
    ASSUME NEW st \in C!StateRows, NEW ev, Proper(ev), C!Applies(st, ev)
    PROVE  /\ C!Candidate(st, ev) \in C!StateRows
           /\ ev.kind \in C!ReceiptKinds =>
                C!Candidate(st, ev).status \in {"CommandReceived", st.status}
           /\ ev.kind \notin C!ReceiptKinds =>
                C!Candidate(st, ev).status = C!EvidenceTarget(ev)
           /\ st.status \in C!Terminal => C!Candidate(st, ev).status = st.status
<1>1. ASSUME st.status \in C!Terminal
      PROVE  \A to : ~C!TransitionIsAllowed(st.status, to)
  BY <1>1 DEF C!TransitionIsAllowed, C!AllowedTargets, C!Terminal
<1>2. CASE ev.kind \in C!ReceiptKinds
  BY <1>1, <1>2, AfterReceiptFacts DEF C!Candidate
<1>3. CASE ev.kind \notin C!ReceiptKinds
  <2>1. C!TransitionIsAllowed(st.status, C!EvidenceTarget(ev))
    BY <1>3 DEF C!Applies, C!ChecksPass, C!AdvanceApplies
  <2>2. st.status \notin C!Terminal
    BY <1>1, <2>1
  <2> QED
    BY <1>3, <2>2, AfterAdvanceFacts DEF C!Candidate
<1> QED
  BY <1>2, <1>3

\* The same for an outcome that may also be the unchanged row of a duplicate.
LEMMA OutcomeFacts ==
    ASSUME NEW st \in C!StateRows, NEW ev, Proper(ev), Admitted(st, ev)
    PROVE  /\ Outcome(st, ev) \in C!StateRows
           /\ ev.kind \in C!ReceiptKinds =>
                Outcome(st, ev).status \in {"CommandReceived", st.status}
           /\ ev.kind \notin C!ReceiptKinds =>
                Outcome(st, ev).status = C!EvidenceTarget(ev)
           /\ st.status \in C!Terminal => Outcome(st, ev).status = st.status
<1>1. CASE C!Applies(st, ev)
  BY <1>1, CandidateFacts DEF Outcome
<1>2. CASE ~C!Applies(st, ev)
  BY <1>2 DEF Outcome, Admitted
<1> QED
  BY <1>1, <1>2

\* The evidence of the four actions is proper, and what it stands for.
LEMMA EvidenceFacts ==
    ASSUME NEW at \in Int
    PROVE  /\ \A kind \in C!ReceiptKinds :
                /\ Proper(Evidence(kind, at))
                /\ Evidence(kind, at).kind = kind
           /\ \A kind \in {"Dispatched", "DeliveryUnconfirmed"} :
                /\ Proper(Evidence(kind, at))
                /\ Evidence(kind, at).kind \notin C!ReceiptKinds
                /\ C!EvidenceTarget(Evidence(kind, at)) = kind
           /\ Proper(Evidence("Expire", at))
           /\ Evidence("Expire", at).kind \notin C!ReceiptKinds
           /\ C!EvidenceTarget(Evidence("Expire", at)) = "Expired"
BY DEF Evidence, Proper, C!EvidenceTarget, C!ReceiptKinds, C!Statuses

\* The evidence of a report.
LEMMA EventFacts ==
    ASSUME NEW leg, NEW e \in EventsOf(leg)
    PROVE  /\ Proper(EventEvidence(e))
           /\ EventEvidence(e).kind \notin C!ReceiptKinds
           /\ C!EvidenceTarget(EventEvidence(e)) = e.status
           /\ e.leg = leg /\ e.at \in Int
<1>1. e.leg = leg /\ e.at \in Int /\ e.status \in C!EventStatuses
  <2>1. e.leg \in {leg} /\ e.at \in Moments /\ e.status \in C!EventStatuses
    BY DEF EventsOf
  <2>2. Moments \subseteq Int
    BY PlanAssumption, SMT
  <2> QED
    BY <2>1, <2>2
<1>2. C!EvidenceTarget(EventEvidence(e)) = e.status
  BY DEF EventEvidence, C!EvidenceTarget, C!ReceiptKinds
<1>3. C!EventStatuses \subseteq C!Statuses
  BY DEF C!EventStatuses, C!Statuses
<1>4. EventEvidence(e).at = e.at /\ EventEvidence(e).kind \notin C!ReceiptKinds
  BY DEF EventEvidence, C!ReceiptKinds
<1> QED
  BY <1>1, <1>2, <1>3, <1>4 DEF Proper

-----------------------------------------------------------------------------
\* Rows whose plan status is the one derived from their legs.
Agrees(p) == p.plan.status = DeriveStatus(LegStatusOf(p))

\* persist_plan_projection leaves the projection of the rows it was given, also
\* when it finds nothing to write.
LEMMA PersistedProjects ==
    ASSUME NEW p, NEW cs, NEW es, NEW at, Agrees(p)
    PROVE  /\ LegStatusOf(Persisted(p, cs, es, at)) = ProjectLegs(cs, es)
           /\ Agrees(Persisted(p, cs, es, at))
<1> DEFINE changed == Changed(p, cs, es)
           version == ProjectionVersion(p, changed, at)
           q == Persisted(p, cs, es, at)
<1>1. CASE changed = {}
  <2>1. q = p
    BY <1>1 DEF Persisted
  <2>2. \A leg \in Legs : p.legs[leg].status = ProjectLeg(cs, es, leg)
    BY <1>1 DEF Changed
  <2> QED
    BY <2>1, <2>2 DEF LegStatusOf, ProjectLegs
<1>2. CASE changed # {}
  <2>1. /\ q.plan.status = DeriveStatus(ProjectLegs(cs, es))
        /\ q.legs = [leg \in Legs |->
                       IF leg \in changed
                       THEN [status |-> ProjectLeg(cs, es, leg), updated_at |-> version]
                       ELSE p.legs[leg]]
    <3> HIDE DEF changed, version
    <3>1. q = [plan |-> [status |-> DeriveStatus(ProjectLegs(cs, es)), updated_at |-> version],
               legs |-> [leg \in Legs |->
                           IF leg \in changed
                           THEN [status |-> ProjectLeg(cs, es, leg), updated_at |-> version]
                           ELSE p.legs[leg]]]
      BY <1>2 DEF Persisted, changed, version
    <3> QED
      BY <3>1, SMT
  <2>2. \A leg \in Legs : q.legs[leg].status = ProjectLeg(cs, es, leg)
    <3> TAKE leg \in Legs
    <3>1. CASE leg \in changed
      BY <2>1, <3>1, SMT
    <3>2. CASE leg \notin changed
      BY <2>1, <3>2 DEF Changed
    <3> QED
      BY <3>1, <3>2
  <2>3. LegStatusOf(q) = ProjectLegs(cs, es)
    BY <2>2 DEF LegStatusOf, ProjectLegs
  <2> QED
    BY <2>1, <2>3 DEF Agrees
<1> QED
  BY <1>1, <1>2

\* A bundle that update_execution_lifecycle_on accepts can be read back.
LEMMA PersistedReadable ==
    ASSUME NEW p, NEW cs, NEW es, NEW at, Readable(p), Persists(p, cs, es, at)
    PROVE  Readable(Persisted(p, cs, es, at))
BY DEF Persists, Persisted

\* The types of the rows of the projection.
Projections == [plan : Rows(PlanStatuses), legs : [Legs -> Rows(LegStatuses)]]

\* Rows no leg of which is newer than the plan.
Fits(p) ==
    /\ p \in Projections
    /\ \A leg \in Legs : p.legs[leg].updated_at <= p.plan.updated_at

\* The version of a projection is above every version it replaces.
LEMMA VersionFacts ==
    ASSUME NEW p, Fits(p), NEW changed \in SUBSET Legs, NEW at \in Int
    PROVE  /\ ProjectionVersion(p, changed, at) \in Int
           /\ ProjectionVersion(p, changed, at) > p.plan.updated_at
           /\ \A leg \in Legs : ProjectionVersion(p, changed, at) > p.legs[leg].updated_at
<1> DEFINE S == {p.plan.updated_at, at} \cup {p.legs[leg].updated_at : leg \in changed}
           top == IF p.plan.updated_at >= at THEN p.plan.updated_at ELSE at
<1>1. /\ p.plan.updated_at \in Int
      /\ \A leg \in Legs : /\ p.legs[leg].updated_at \in Int
                            /\ p.legs[leg].updated_at <= p.plan.updated_at
  BY DEF Fits, Projections, Rows
<1>2. top \in S /\ \A y \in S : top >= y
  BY <1>1, SMT
<1>3. Max(S) \in S /\ \A y \in S : Max(S) >= y
  <2> HIDE DEF S
  <2> QED BY <1>2 DEF Max
<1>4. Max(S) \in Int /\ Max(S) >= p.plan.updated_at
  BY <1>1, <1>3
<1>5. ProjectionVersion(p, changed, at) = Max(S) + 1
  BY DEF ProjectionVersion
<1> HIDE DEF S
<1> QED BY <1>1, <1>4, <1>5, SMT

\* What the projector derives are statuses of a leg and of a plan.
LEMMA StatusFacts ==
    ASSUME NEW cs \in [Legs -> C!StateRows], NEW es, Projectable(cs, es)
    PROVE  /\ \A leg \in Legs : ProjectLeg(cs, es, leg) \in LegStatuses
           /\ \A ls : DeriveStatus(ls) \in PlanStatuses
<1>1. ASSUME NEW leg \in Legs PROVE ProjectLeg(cs, es, leg) \in LegStatuses
  <2>1. cs[leg].status \in C!Statuses \ {"DeliveryFailed"}
    BY DEF Projectable, C!StateRows
  <2>2. LegOfCommand(cs[leg].status) \in LegStatuses
    BY <2>1 DEF LegOfCommand, LegStatuses, C!Statuses
  <2> QED BY <2>2 DEF ProjectLeg, LegStatuses
<1>2. ASSUME NEW ls PROVE DeriveStatus(ls) \in PlanStatuses
  BY DEF DeriveStatus, PlanStatuses
<1> QED BY <1>1, <1>2

\* persist_plan_projection keeps the types, and no leg becomes newer than its plan.
LEMMA PersistedFits ==
    ASSUME NEW p, Fits(p), NEW cs \in [Legs -> C!StateRows], NEW es, NEW at \in Int,
           Projectable(cs, es)
    PROVE  /\ Fits(Persisted(p, cs, es, at))
           /\ Changed(p, cs, es) # {} =>
                /\ Persisted(p, cs, es, at).plan.updated_at > p.plan.updated_at
                /\ \A leg \in Changed(p, cs, es) :
                     Persisted(p, cs, es, at).legs[leg].updated_at > p.legs[leg].updated_at
<1> DEFINE changed == Changed(p, cs, es)
           v == ProjectionVersion(p, changed, at)
           Row(leg) == IF leg \in changed
                       THEN [status |-> ProjectLeg(cs, es, leg), updated_at |-> v]
                       ELSE p.legs[leg]
           q == Persisted(p, cs, es, at)
<1>1. changed \in SUBSET Legs
  BY DEF Changed
<1> HIDE DEF changed
<1>2. /\ v \in Int /\ v > p.plan.updated_at
      /\ \A leg \in Legs : v > p.legs[leg].updated_at
  BY <1>1, VersionFacts
<1> HIDE DEF v
<1>3. CASE changed = {}
  BY <1>3 DEF Persisted, changed
<1>4. CASE changed # {}
  <2>1. q = [plan |-> [status |-> DeriveStatus(ProjectLegs(cs, es)), updated_at |-> v],
             legs |-> [leg \in Legs |-> Row(leg)]]
    BY <1>4 DEF Persisted, changed, v
  <2>2. ASSUME NEW leg \in Legs
        PROVE  Row(leg) \in Rows(LegStatuses) /\ Row(leg).updated_at <= v
    <3>1. ProjectLeg(cs, es, leg) \in LegStatuses
      BY StatusFacts
    <3>2. p.legs[leg] \in Rows(LegStatuses) /\ p.legs[leg].updated_at \in Int
      BY DEF Fits, Projections, Rows
    <3> QED BY <1>2, <3>1, <3>2, SMT DEF Rows
  <2>3. [status |-> DeriveStatus(ProjectLegs(cs, es)), updated_at |-> v] \in Rows(PlanStatuses)
    BY <1>2, StatusFacts DEF Rows
  <2>4. \A leg \in changed : Row(leg).updated_at = v
    BY <1>1
  <2> HIDE DEF Row, q
  <2>5. q \in Projections
    BY <2>1, <2>2, <2>3 DEF Projections
  <2>6. q.plan.updated_at = v /\ \A leg \in Legs : q.legs[leg] = Row(leg)
    BY <2>1
  <2>7. Fits(q)
    BY <2>2, <2>5, <2>6 DEF Fits
  <2> QED BY <1>1, <1>2, <2>4, <2>6, <2>7 DEF q, changed
<1> QED BY <1>3, <1>4

\* A readable plan agrees with its legs.
LEMMA ReadableAgrees ==
    ASSUME NEW p, Readable(p)
    PROVE  Agrees(p)
BY DEF Readable, Agrees, ValidPlan

-----------------------------------------------------------------------------
\* What every transaction does: one command row moves, a stored event explains the
\* row it moves to, and the projection follows.
Moves(leg, row) ==
    /\ leg \in Legs /\ row \in C!StateRows
    /\ commands' = [commands EXCEPT ![leg] = row]
    /\ commands[leg].status \in C!Terminal => row.status = commands[leg].status
    /\ events \subseteq events'
    /\ \A e \in events' \ events : e \in EventsOf(leg) /\ e.status = row.status
    /\ row.status \in Exposed =>
         row.status = commands[leg].status \/ Reported(events', leg, row.status)
    /\ LegStatusOf(projection') = ProjectLegs(commands', events')
    /\ Readable(projection') /\ Fits(projection')
    /\ Projectable(commands', events')

Typed == commands \in [Legs -> C!StateRows] /\ Fits(projection)

\* The delivery step moves its leg.
LEMMA DeliverMoves ==
    ASSUME Typed, NEW leg \in Legs, NEW d \in Moments, NEW u \in Moments \cup {None},
           Deliver(leg, d, u)
    PROVE  \E row : Moves(leg, row)
<1> DEFINE st == commands[leg]
           first == DeliveryStart(st, d)
           row == DeliveryState(st, d, u)
           at == IF u = None THEN d ELSE u
<1>1. st \in C!StateRows /\ d \in Int
  BY PlanAssumption, SMT DEF Typed
<1>2. /\ first \in C!StateRows
      /\ st.status = "Created" => first.status = "Dispatched"
      /\ st.status # "Created" => first = st
  BY <1>1, EvidenceFacts, CandidateFacts DEF Deliver, DeliveryAdmitted, DeliveryStart
<1>3. /\ row \in C!StateRows
      /\ row = first \/ (first.status = "Dispatched" /\ row.status = "DeliveryUnconfirmed")
  <2>1. CASE u # None /\ first.status = "Dispatched"
    <3>1. u \in Int /\ C!Applies(first, Evidence("DeliveryUnconfirmed", u))
      BY <2>1, PlanAssumption, SMT DEF Deliver, DeliveryAdmitted
    <3>2. row = C!Candidate(first, Evidence("DeliveryUnconfirmed", u))
      BY <2>1 DEF DeliveryState
    <3> HIDE DEF first, row
    <3> QED
      BY <1>2, <2>1, <3>1, <3>2, EvidenceFacts, CandidateFacts
  <2>2. CASE ~(u # None /\ first.status = "Dispatched")
    BY <1>2, <2>2 DEF DeliveryState
  <2> QED
    BY <2>1, <2>2
<1>4. /\ commands' = [commands EXCEPT ![leg] = row] /\ events' = events
      /\ projection' = Persisted(projection, commands', events, at)
      /\ Readable(projection) /\ Persists(projection, commands', events, at)
  BY DEF Deliver
<1>5. LegStatusOf(projection') = ProjectLegs(commands', events') /\ Readable(projection')
  BY <1>4, ReadableAgrees, PersistedProjects, PersistedReadable
<1>6. st.status \in C!Terminal => row.status = st.status
  BY <1>2, <1>3 DEF C!Terminal
<1>7. row.status \in Exposed => row.status = st.status
  BY <1>2, <1>3 DEF Exposed
<1> HIDE DEF row
<1>8. Projectable(commands', events') /\ Fits(projection')
  <2>1. commands' \in [Legs -> C!StateRows] /\ at \in Int
    BY <1>1, <1>3, <1>4, PlanAssumption, SMT DEF Typed
  <2>2. Projectable(commands', events)
    BY <1>4 DEF Persists
  <2> QED
    BY <1>4, <2>1, <2>2, PersistedFits DEF Typed
<1>9. Moves(leg, row)
  BY <1>3, <1>4, <1>5, <1>6, <1>7, <1>8 DEF Moves
<1> QED
  BY <1>9

\* The expiry step moves its leg.
LEMMA ExpireMoves ==
    ASSUME Typed, NEW leg \in Legs, Expire(leg, ExpiresAt)
    PROVE  \E row : Moves(leg, row)
<1> DEFINE row == C!Candidate(commands[leg], Evidence("Expire", ExpiresAt))
<1>1. commands[leg] \in C!StateRows /\ ExpiresAt \in Int
  BY PlanAssumption, SMT DEF Typed
<1>2. /\ row \in C!StateRows /\ row.status = "Expired"
      /\ commands[leg].status \in C!Terminal => row.status = commands[leg].status
  BY <1>1, EvidenceFacts, CandidateFacts DEF Expire
<1>3. /\ commands' = [commands EXCEPT ![leg] = row] /\ events' = events
      /\ projection' = Persisted(projection, commands', events, ExpiresAt)
      /\ Readable(projection) /\ Persists(projection, commands', events, ExpiresAt)
  BY DEF Expire
<1>4. LegStatusOf(projection') = ProjectLegs(commands', events') /\ Readable(projection')
  BY <1>3, ReadableAgrees, PersistedProjects, PersistedReadable
<1> HIDE DEF row
<1>5. Projectable(commands', events') /\ Fits(projection')
  <2>1. commands' \in [Legs -> C!StateRows]
    BY <1>2, <1>3 DEF Typed
  <2>2. Projectable(commands', events)
    BY <1>3 DEF Persists
  <2> QED
    BY <1>1, <1>3, <2>1, <2>2, PersistedFits DEF Typed
<1>6. Moves(leg, row)
  BY <1>2, <1>3, <1>4, <1>5 DEF Moves, Exposed
<1> QED
  BY <1>6

\* A receipt moves its leg, through the dispatch it proves when that is new.
LEMMA ReceiveMoves ==
    ASSUME Typed, NEW leg \in Legs, NEW kind \in C!ReceiptKinds, NEW d \in Moments,
           NEW at \in Moments, Receive(leg, kind, d, at)
    PROVE  \E row : Moves(leg, row)
<1> DEFINE st == commands[leg]
           fresh == st.status = "Created"
           mid == C!Candidate(st, Evidence("Dispatched", d))
           cs1 == IF fresh THEN [commands EXCEPT ![leg] = mid] ELSE commands
           p1 == IF fresh THEN Persisted(projection, cs1, events, d) ELSE projection
           ev == Evidence(kind, at)
           row == Outcome(cs1[leg], ev)
           cs2 == [cs1 EXCEPT ![leg] = row]
<1>1. st \in C!StateRows /\ d \in Int /\ at \in Int
  BY PlanAssumption, SMT DEF Typed
<1>2. /\ Readable(projection)
      /\ fresh => C!Applies(st, Evidence("Dispatched", d))
      /\ fresh => Persists(projection, cs1, events, d)
      /\ Admitted(cs1[leg], ev)
      /\ Persists(p1, cs2, events, at)
      /\ commands' = cs2
      /\ projection' = Persisted(p1, cs2, events, at)
      /\ events' = events
  BY DEF Receive
<1>3. fresh => mid \in C!StateRows /\ mid.status = "Dispatched"
  BY <1>1, <1>2, EvidenceFacts, CandidateFacts
<1>4. /\ cs1 \in [Legs -> C!StateRows]
      /\ cs1[leg].status = IF fresh THEN "Dispatched" ELSE st.status
      /\ cs2 = [commands EXCEPT ![leg] = row]
  <2> HIDE DEF mid, row
  <2>1. CASE fresh
    BY <1>3, <2>1 DEF Typed
  <2>2. CASE ~fresh
    BY <2>2 DEF Typed
  <2> QED
    BY <2>1, <2>2
<1>5. Readable(p1)
  <2> HIDE DEF cs1
  <2> QED
    BY <1>2, PersistedReadable
<1> HIDE DEF cs1, p1
<1>6. /\ row \in C!StateRows
      /\ row.status \in {"CommandReceived", cs1[leg].status}
      /\ cs1[leg].status \in C!Terminal => row.status = cs1[leg].status
  BY <1>1, <1>2, <1>4, EvidenceFacts, OutcomeFacts
<1>7. LegStatusOf(projection') = ProjectLegs(commands', events') /\ Readable(projection')
  <2> HIDE DEF cs2
  <2> QED
    BY <1>2, <1>5, ReadableAgrees, PersistedProjects, PersistedReadable
<1>8. st.status \in C!Terminal => row.status = st.status
  BY <1>4, <1>6 DEF C!Terminal
<1>9. row.status \in Exposed => row.status = st.status
  BY <1>4, <1>6 DEF Exposed
<1> HIDE DEF row
<1>10. Projectable(commands', events') /\ Fits(projection')
  <2>1. Fits(p1)
    <3>1. CASE fresh
      <4>1. p1 = Persisted(projection, cs1, events, d) /\ Projectable(cs1, events)
        BY <1>2, <3>1 DEF p1, Persists
      <4> QED
        BY <1>1, <1>4, <4>1, PersistedFits DEF Typed
    <3>2. CASE ~fresh
      BY <3>2 DEF Typed, p1
    <3> QED
      BY <3>1, <3>2
  <2>2. cs2 \in [Legs -> C!StateRows] /\ Projectable(cs2, events)
    BY <1>2, <1>4, <1>6 DEF Typed, Persists
  <2> HIDE DEF cs2
  <2> QED
    BY <1>1, <1>2, <2>1, <2>2, PersistedFits
<1>11. Moves(leg, row)
  BY <1>2, <1>4, <1>6, <1>7, <1>8, <1>9, <1>10 DEF Moves
<1> QED
  BY <1>11

\* A report moves its leg to the status it reports and is stored.
LEMMA ReportMoves ==
    ASSUME Typed, NEW leg \in Legs, NEW e \in EventsOf(leg), Report(e)
    PROVE  \E row : Moves(leg, row)
<1> DEFINE ev == EventEvidence(e)
           row == Outcome(commands[leg], ev)
<1>1. commands[leg] \in C!StateRows /\ e.leg = leg
  BY EventFacts DEF Typed
<1>2. /\ Readable(projection) /\ Admitted(commands[leg], ev)
      /\ commands' = [commands EXCEPT ![leg] = row]
      /\ events' = events \cup {e}
      /\ Persists(projection, commands', events', e.at)
      /\ projection' = Persisted(projection, commands', events', e.at)
  BY <1>1 DEF Report
<1>3. /\ row \in C!StateRows /\ row.status = e.status
      /\ commands[leg].status \in C!Terminal => row.status = commands[leg].status
  BY <1>1, <1>2, EventFacts, OutcomeFacts, SMT
<1>4. LegStatusOf(projection') = ProjectLegs(commands', events') /\ Readable(projection')
  BY <1>2, ReadableAgrees, PersistedProjects, PersistedReadable, SMT
<1> HIDE DEF row
<1>5. Projectable(commands', events') /\ Fits(projection')
  <2>1. commands' \in [Legs -> C!StateRows] /\ e.at \in Int
    BY <1>2, <1>3, EventFacts DEF Typed
  <2>2. Projectable(commands', events')
    BY <1>2 DEF Persists
  <2> QED
    BY <1>2, <2>1, <2>2, PersistedFits DEF Typed
<1>6. Moves(leg, row)
  BY <1>1, <1>2, <1>3, <1>4, <1>5 DEF Moves, Reported
<1> QED
  BY <1>6

\* Every step of the specification is such a move.
LEMMA NextMoves ==
    ASSUME Typed, Next
    PROVE  \E leg, row : Moves(leg, row)
BY DeliverMoves, ExpireMoves, ReceiveMoves, ReportMoves DEF Next

-----------------------------------------------------------------------------
\* A filled or partially filled command has the report that made it so.
Backed ==
    \A leg \in Legs : commands[leg].status \in Exposed =>
                        Reported(events, leg, commands[leg].status)

PlanInv ==
    /\ Typed
    /\ events \subseteq UNION {EventsOf(leg) : leg \in Legs}
    /\ Projectable(commands, events)
    /\ Backed
    /\ PlanIsProjection
    /\ PlanIsReadable

LEMMA PlanInit == Init => PlanInv
<1> SUFFICES ASSUME Init PROVE PlanInv
  OBVIOUS
<1> USE DEF Init
<1>1. C!InitialCommandState \in C!StateRows
  BY PlanAssumption, SMT DEF C!InitialCommandState, C!StateRows, C!Statuses, C!None
<1>2. Typed
  <2>1. "Pending" \in LegStatuses /\ "Pending" \in PlanStatuses /\ CreatedAt \in Int
    BY PlanAssumption, SMT DEF LegStatuses, PlanStatuses
  <2>2. projection \in Projections
    BY <2>1 DEF Projections, Rows
  <2> QED
    BY <1>1, <2>1, <2>2, SMT DEF Typed, Fits
<1>3. \A leg \in Legs : commands[leg].status = "Created"
  BY DEF C!InitialCommandState
<1>4. Backed /\ Projectable(commands, events)
  BY <1>3 DEF Backed, Projectable, Exposed
<1>5. \A leg \in Legs : ProjectLeg(commands, events, leg) = "Pending"
  BY <1>3 DEF ProjectLeg, Reported, LegOfCommand
<1>6. LegStatusOf(projection) = [leg \in Legs |-> "Pending"]
  BY DEF LegStatusOf
<1>7. ProjectLegs(commands, events) = [leg \in Legs |-> "Pending"]
  BY <1>5 DEF ProjectLegs
<1>8. projection.plan.status = DeriveStatus([leg \in Legs |-> "Pending"])
  BY PlanAssumption DEF DeriveStatus, Exposed, LegTerminal
<1>9. PlanIsProjection
  BY <1>6, <1>7, <1>8 DEF PlanIsProjection
<1>10. PlanIsReadable
  <2>1. /\ projection.plan.updated_at >= CreatedAt
        /\ \A leg \in Legs : projection.legs[leg].updated_at >= CreatedAt
    BY PlanAssumption, SMT
  <2>2. /\ StoredFilledLegs(LegStatusOf(projection)) = FilledLegs(LegStatusOf(projection))
        /\ StoredFailedLegs(LegStatusOf(projection)) = FailedLegs(LegStatusOf(projection))
    BY <1>6 DEF StoredFilledLegs, FilledLegs, StoredFailedLegs, FailedLegs, Exposed
  <2> QED
    BY <1>6, <1>8, <2>1, <2>2 DEF PlanIsReadable, Readable, ValidPlan
<1> QED
  BY <1>2, <1>4, <1>9, <1>10 DEF PlanInv

\* A move keeps a final leg as it is, an exposed leg exposed, and its neighbours.
LEMMA MoveProjects ==
    ASSUME PlanInv, NEW leg, NEW row, Moves(leg, row), NEW l \in Legs
    PROVE  /\ ProjectLeg(commands, events, l) \in LegTerminal =>
                ProjectLeg(commands', events', l) = ProjectLeg(commands, events, l)
           /\ ProjectLeg(commands, events, l) \in Exposed =>
                ProjectLeg(commands', events', l) \in Exposed
<1> DEFINE old == ProjectLeg(commands, events, l)
           new == ProjectLeg(commands', events', l)
           from == commands[l].status
           to == commands'[l].status
<1> SUFFICES /\ old \in LegTerminal => new = old
             /\ old \in Exposed => new \in Exposed
  OBVIOUS
<1>1. \A s : Reported(events, l, s) => Reported(events', l, s)
  BY DEF Moves, Reported
<1>2. \A s : Reported(events', l, s) => Reported(events, l, s) \/ (l = leg /\ s = to)
  <2>1. leg \in Legs /\ commands'[leg] = row
    BY DEF Moves, PlanInv, Typed
  <2>2. \A e \in EventsOf(leg) : e.leg = leg
    BY EventFacts
  <2> QED
    BY <2>1, <2>2 DEF Moves, Reported
<1>3. from \in C!Terminal => to = from
  BY DEF Moves, PlanInv, Typed
<1>4. l # leg => to = from
  BY DEF Moves, PlanInv, Typed
<1>5. from = "PartiallyFilled" => Reported(events, l, "PartiallyFilled")
  BY DEF PlanInv, Backed, Exposed
<1> HIDE DEF from, to
<1>6. /\ old = IF Reported(events, l, "Filled") THEN "Filled"
               ELSE IF Reported(events, l, "PartiallyFilled") THEN "PartiallyFilled"
               ELSE LegOfCommand(from)
      /\ new = IF Reported(events', l, "Filled") THEN "Filled"
               ELSE IF Reported(events', l, "PartiallyFilled") THEN "PartiallyFilled"
               ELSE LegOfCommand(to)
  BY DEF ProjectLeg, from, to
<1> HIDE DEF old, new
<1>7. CASE Reported(events, l, "Filled")
  BY <1>1, <1>6, <1>7 DEF Exposed
<1>8. CASE ~Reported(events, l, "Filled") /\ Reported(events, l, "PartiallyFilled")
  BY <1>1, <1>6, <1>8 DEF Exposed, LegTerminal
<1>9. CASE ~Reported(events, l, "Filled") /\ ~Reported(events, l, "PartiallyFilled")
  <2>1. old = LegOfCommand(from) /\ from # "PartiallyFilled"
    BY <1>5, <1>6, <1>9
  <2>2. old \in LegTerminal \cup Exposed => from \in C!Terminal /\ old = from
    BY <2>1 DEF LegOfCommand, LegTerminal, Exposed, C!Terminal
  <2>3. ASSUME old \in LegTerminal \cup Exposed
        PROVE  new = old
    <3>1. to = from /\ old = from /\ LegOfCommand(to) = old
      BY <1>3, <2>1, <2>2, <2>3
    <3>2. ~Reported(events', l, "PartiallyFilled")
      BY <1>2, <1>9, <2>1, <3>1
    <3>3. Reported(events', l, "Filled") => old = "Filled"
      BY <1>2, <1>9, <3>1
    <3> QED
      BY <1>6, <3>1, <3>2, <3>3
  <2> QED
    BY <2>3
<1> QED
  BY <1>7, <1>8, <1>9

\* A move keeps the invariant.
LEMMA MoveKeeps ==
    ASSUME PlanInv, NEW leg, NEW row, Moves(leg, row)
    PROVE  PlanInv'
<1>1. Typed'
  BY DEF PlanInv, Typed, Moves
<1>2. Backed'
  <2> SUFFICES ASSUME NEW l \in Legs, commands'[l].status \in Exposed
               PROVE  Reported(events', l, commands'[l].status)
    BY DEF Backed
  <2>1. commands[l].status \in Exposed => Reported(events', l, commands[l].status)
    BY DEF PlanInv, Backed, Moves, Reported
  <2>2. CASE l = leg
    <3>1. commands'[l] = row
      BY <2>2 DEF PlanInv, Typed, Moves
    <3> QED
      BY <2>1, <2>2, <3>1 DEF Moves
  <2>3. CASE l # leg
    <3>1. commands'[l] = commands[l]
      BY <2>3 DEF PlanInv, Typed, Moves
    <3> QED
      BY <2>1, <3>1
  <2> QED
    BY <2>2, <2>3
<1>3. PlanIsReadable'
  BY DEF Moves, PlanIsReadable
<1>4. PlanIsProjection'
  <2>1. projection'.plan.status = DeriveStatus(LegStatusOf(projection'))
    BY DEF Moves, Readable, ValidPlan
  <2> QED
    BY <2>1 DEF Moves, PlanIsProjection
<1>5. events' \subseteq UNION {EventsOf(l) : l \in Legs} /\ Projectable(commands', events')
  BY DEF PlanInv, Moves
<1> QED
  BY <1>1, <1>2, <1>3, <1>4, <1>5 DEF PlanInv

\* A plan is settled only by legs that are final.
LEMMA SettledLegs ==
    ASSUME NEW ls, DeriveStatus(ls) \in {"Completed", "Failed", "Cancelled", "Expired"},
           NEW l \in Legs
    PROVE  ls[l] \in LegTerminal
BY DEF DeriveStatus, LegTerminal

\* A move reopens no settled plan and takes back no fill.
LEMMA MoveSettles ==
    ASSUME PlanInv, NEW leg, NEW row, Moves(leg, row)
    PROVE  /\ projection.plan.status \in {"Completed", "Failed", "Cancelled", "Expired"} =>
                projection'.plan.status = projection.plan.status
           /\ FilledLegs(LegStatusOf(projection)) \subseteq FilledLegs(LegStatusOf(projection'))
<1> DEFINE ls == ProjectLegs(commands, events)
           ls2 == ProjectLegs(commands', events')
<1>1. /\ LegStatusOf(projection) = ls /\ projection.plan.status = DeriveStatus(ls)
      /\ LegStatusOf(projection') = ls2 /\ projection'.plan.status = DeriveStatus(ls2)
  BY MoveKeeps DEF PlanInv, PlanIsProjection
<1>2. \A l \in Legs : /\ ls[l] \in LegTerminal => ls2[l] = ls[l]
                      /\ ls[l] \in Exposed => ls2[l] \in Exposed
  BY MoveProjects DEF ProjectLegs
<1>3. ls = [l \in Legs |-> ls[l]] /\ ls2 = [l \in Legs |-> ls2[l]]
  BY DEF ProjectLegs
<1> HIDE DEF ls, ls2
<1>4. DeriveStatus(ls) \in {"Completed", "Failed", "Cancelled", "Expired"} => ls2 = ls
  <2> SUFFICES ASSUME DeriveStatus(ls) \in {"Completed", "Failed", "Cancelled", "Expired"}
               PROVE  ls2 = ls
    OBVIOUS
  <2>1. \A l \in Legs : ls2[l] = ls[l]
    BY <1>2, SettledLegs, SMT
  <2> QED
    BY <1>3, <2>1
<1>5. FilledLegs(ls) \subseteq FilledLegs(ls2)
  BY <1>2 DEF FilledLegs
<1> QED
  BY <1>1, <1>4, <1>5

\* The invariant holds in every reachable state.
THEOREM PlanInvariant == Spec => []PlanInv
<1>1. PlanInv /\ [Next]_vars => PlanInv'
  <2> SUFFICES ASSUME PlanInv, [Next]_vars PROVE PlanInv'
    OBVIOUS
  <2>1. CASE Next
    <3>1. PICK leg, row : Moves(leg, row)
      BY <2>1, NextMoves DEF PlanInv
    <3> QED
      BY <3>1, MoveKeeps
  <2>2. CASE UNCHANGED vars
    BY <2>2 DEF vars, PlanInv, Typed, Backed, PlanIsProjection, PlanIsReadable, Projectable
  <2> QED
    BY <2>1, <2>2
<1> QED
  BY <1>1, PlanInit, PTL DEF Spec

\* For every number of legs and every interleaving of the two processors, the
\* stored leg and plan rows are the projection of the stored command states and
\* events (persist_plan_projection in both processors).
THEOREM PlanAlwaysProjection == Spec => []PlanIsProjection
<1>1. PlanInv => PlanIsProjection
  BY DEF PlanInv
<1> QED
  BY <1>1, PlanInvariant, PTL

\* For every number of legs, the stored plan can be read back
\* (execution_plan_from_row).
THEOREM PlanAlwaysReadable == Spec => []PlanIsReadable
<1>1. PlanInv => PlanIsReadable
  BY DEF PlanInv
<1> QED
  BY <1>1, PlanInvariant, PTL

\* For every number of legs, a settled plan stays settled and a stored fill is
\* never taken back.
THEOREM PlanSettles == Spec => SettledIsFinal
<1> DEFINE Keeps ==
       /\ projection.plan.status \in {"Completed", "Failed", "Cancelled", "Expired"} =>
             projection'.plan.status = projection.plan.status
       /\ FilledLegs(LegStatusOf(projection)) \subseteq FilledLegs(LegStatusOf(projection'))
<1>1. PlanInv /\ [Next]_vars => [Keeps]_vars
  <2> SUFFICES ASSUME PlanInv, Next PROVE Keeps
    OBVIOUS
  <2>1. PICK leg, row : Moves(leg, row)
    BY NextMoves DEF PlanInv
  <2> QED
    BY <2>1, MoveSettles
<1> QED
  BY <1>1, PlanInvariant, PTL DEF Spec, SettledIsFinal

\* The rows of the commands, of the events and of the projection have their types.
THEOREM PlanTypes == Spec => []TypeOK
<1>1. PlanInv => TypeOK
  BY DEF PlanInv, Typed, Fits, Projections, TypeOK
<1> QED
  BY <1>1, PlanInvariant, PTL

\* The legs with a stored fill are the ones the invariant's rows show as filled.
LEMMA FillsAreStored ==
    ASSUME PlanInv, \A leg \in Legs : LegStatusOf(projection)[leg] \in LegTerminal
    PROVE  StoredFilledLegs(LegStatusOf(projection)) =
             {leg \in Legs : Reported(events, leg, "Filled")
                               \/ Reported(events, leg, "PartiallyFilled")}
<1> SUFFICES ASSUME NEW leg \in Legs
             PROVE  LegStatusOf(projection)[leg] = "Filled" <=>
                      Reported(events, leg, "Filled") \/ Reported(events, leg, "PartiallyFilled")
  BY DEF StoredFilledLegs
<1>1. LegStatusOf(projection)[leg] = ProjectLeg(commands, events, leg)
  BY DEF PlanInv, PlanIsProjection, ProjectLegs
<1>2. ProjectLeg(commands, events, leg) \in LegTerminal
  BY <1>1
<1>3. LegOfCommand(commands[leg].status) = "Filled" => Reported(events, leg, "Filled")
  BY DEF LegOfCommand, PlanInv, Backed, Exposed
<1> QED
  BY <1>1, <1>2, <1>3 DEF ProjectLeg, LegTerminal

\* For every number of legs, a plan that ended with some but not all of its legs
\* filled gets a recovery from decide_recovery, and CLOSE_FILLED closes exactly the
\* legs whose fill was reported.
THEOREM ExposureIsAlwaysRecovered == Spec => []ExposureIsRecovered
<1>1. ASSUME PlanInv PROVE ExposureIsRecovered
  <2> DEFINE ls == LegStatusOf(projection)
             filled == {leg \in Legs : Reported(events, leg, "Filled")
                                         \/ Reported(events, leg, "PartiallyFilled")}
  <2> SUFFICES ASSUME \A leg \in Legs : ls[leg] \in LegTerminal, filled # {}, filled # Legs
               PROVE  /\ \A mode \in {"CloseFilled", "None", "Unset"},
                             policy \in {"CancelAll", "PartialFill"} :
                           DecideRecovery(projection.plan.status, StoredFilledLegs(ls),
                                          mode, policy).kind # "None"
                      /\ DecideRecovery(projection.plan.status, StoredFilledLegs(ls),
                                        "CloseFilled", "CancelAll")
                         = Decision("CloseFilled", filled)
    BY DEF ExposureIsRecovered
  <2>1. StoredFilledLegs(ls) = filled
    BY <1>1, FillsAreStored
  <2>2. \A leg \in Legs : leg \in filled <=> ls[leg] = "Filled"
    BY <2>1 DEF StoredFilledLegs
  <2>3. projection.plan.status = DeriveStatus(ls)
    BY <1>1 DEF PlanInv, PlanIsProjection
  <2>4. filled \subseteq Legs
    OBVIOUS
  <2> HIDE DEF ls, filled
  <2>5. PICK leg \in Legs : ls[leg] = "Filled"
    BY <2>2, <2>4
  <2>6. PICK other \in Legs : ls[other] # "Filled"
    BY <2>2, <2>4
  <2>7. DeriveStatus(ls) = "Partial"
    BY <2>5, <2>6 DEF DeriveStatus, Exposed, LegTerminal
  <2> QED
    BY <2>1, <2>3, <2>7 DEF DecideRecovery, Decision
<1> QED
  BY <1>1, PlanInvariant, PTL

\* A report that is no partial fill leaves every leg filled or not exposed at all.
LEMMA NoPartialLeg ==
    ASSUME PlanInv, NEW leg \in Legs, NEW e \in EventsOf(leg), e.status # "PartiallyFilled",
           NEW row, row.status = e.status, NEW cs, cs = [commands EXCEPT ![leg] = row],
           NEW l \in Legs
    PROVE  ProjectLeg(cs, events \cup {e}, l) # "PartiallyFilled"
<1>1. ProjectLeg(commands, events, l) # "PartiallyFilled"
  <2>1. /\ LegStatusOf(projection)[l] = ProjectLeg(commands, events, l)
        /\ StoredFilledLegs(LegStatusOf(projection)) = FilledLegs(LegStatusOf(projection))
    BY DEF PlanInv, PlanIsProjection, ProjectLegs, PlanIsReadable, Readable, ValidPlan
  <2> QED
    BY <2>1 DEF StoredFilledLegs, FilledLegs, Exposed
<1>2. Reported(events, l, "PartiallyFilled") => Reported(events, l, "Filled")
  BY <1>1 DEF ProjectLeg
<1>3. /\ Reported(events \cup {e}, l, "PartiallyFilled") => Reported(events, l, "PartiallyFilled")
      /\ Reported(events, l, "Filled") => Reported(events \cup {e}, l, "Filled")
  BY DEF Reported
<1>4. cs[l] = IF l = leg THEN row ELSE commands[l]
  BY DEF PlanInv, Typed
<1>5. commands[l].status = "PartiallyFilled" => Reported(events, l, "PartiallyFilled")
  BY DEF PlanInv, Backed, Exposed
<1>6. LegOfCommand(cs[l].status) = "PartiallyFilled" => cs[l].status = "PartiallyFilled"
  BY DEF LegOfCommand
<1> QED
  BY <1>2, <1>3, <1>4, <1>5, <1>6 DEF ProjectLeg

\* The bundle of an admitted report passes every check on its way to the commit.
LEMMA ReportPersists ==
    ASSUME PlanInv, NEW leg \in Legs, NEW e \in EventsOf(leg), e.status # "PartiallyFilled",
           Admitted(commands[leg], EventEvidence(e))
    PROVE  Persists(projection,
                    [commands EXCEPT ![leg] = Outcome(commands[leg], EventEvidence(e))],
                    events \cup {e}, e.at)
<1> DEFINE row == Outcome(commands[leg], EventEvidence(e))
           cs == [commands EXCEPT ![leg] = row]
           es == events \cup {e}
           ls == ProjectLegs(cs, es)
           next == Persisted(projection, cs, es, e.at)
           changed == Changed(projection, cs, es)
<1>1. commands[leg] \in C!StateRows /\ e.at \in Int
  BY EventFacts DEF PlanInv, Typed
<1>2. row \in C!StateRows /\ row.status = e.status
  BY <1>1, EventFacts, OutcomeFacts, SMT
<1>3. e.at >= CreatedAt /\ e.status # "DeliveryFailed"
  <2>1. C!EvidenceIsValid(EventEvidence(e))
    BY DEF Admitted, C!Applies, C!ChecksPass
  <2>2. EventEvidence(e).at = e.at /\ e.status \in C!EventStatuses
    BY DEF EventEvidence, EventsOf
  <2> QED
    BY <2>1, <2>2 DEF C!EvidenceIsValid, C!EventStatuses
<1> HIDE DEF row
<1>4. cs \in [Legs -> C!StateRows] /\ Projectable(cs, es)
  BY <1>2, <1>3 DEF PlanInv, Typed, Projectable
<1>5. Fits(projection) /\ Readable(projection) /\ Agrees(projection)
  BY ReadableAgrees DEF PlanInv, Typed, PlanIsReadable
<1>6. \A l \in Legs : ProjectLeg(cs, es, l) # "PartiallyFilled"
  BY <1>2, NoPartialLeg
<1> HIDE DEF cs, es
<1>7. /\ Fits(next)
      /\ changed # {} => /\ next.plan.updated_at > projection.plan.updated_at
                         /\ \A l \in changed :
                              next.legs[l].updated_at > projection.legs[l].updated_at
  BY <1>1, <1>4, <1>5, PersistedFits
<1>8. LegStatusOf(next) = ls /\ next.plan.status = DeriveStatus(ls)
  BY <1>5, PersistedProjects, SMT DEF Agrees
<1>9. StoredFilledLegs(ls) = FilledLegs(ls) /\ StoredFailedLegs(ls) = FailedLegs(ls)
  BY <1>6 DEF ProjectLegs, StoredFilledLegs, FilledLegs, StoredFailedLegs, FailedLegs, Exposed
<1>10. /\ next.plan.updated_at >= CreatedAt
       /\ \A l \in Legs : next.legs[l].updated_at >= CreatedAt
  <2>1. /\ projection.plan.updated_at \in Int /\ projection.plan.updated_at >= CreatedAt
        /\ next.plan.updated_at \in Int
        /\ \A l \in Legs : /\ projection.legs[l].updated_at \in Int
                            /\ projection.legs[l].updated_at >= CreatedAt
                            /\ next.legs[l].updated_at \in Int
    BY <1>5, <1>7 DEF Fits, Projections, Rows, Readable
  <2>2. changed = {} => next = projection
    BY DEF Persisted
  <2>3. ASSUME changed # {}, NEW l \in Legs, l \notin changed
        PROVE  next.legs[l] = projection.legs[l]
    <3> DEFINE v == ProjectionVersion(projection, changed, e.at)
    <3>1. next.legs = [k \in Legs |->
                         IF k \in changed
                         THEN [status |-> ProjectLeg(cs, es, k), updated_at |-> v]
                         ELSE projection.legs[k]]
      <4> HIDE DEF v, changed
      <4>1. next = [plan |-> [status |-> DeriveStatus(ls), updated_at |-> v],
                    legs |-> [k \in Legs |->
                                IF k \in changed
                                THEN [status |-> ProjectLeg(cs, es, k), updated_at |-> v]
                                ELSE projection.legs[k]]]
        BY <2>3 DEF Persisted, v, changed
      <4> QED BY <4>1, SMT
    <3> QED BY <2>3, <3>1
  <2> HIDE DEF next, changed
  <2>4. CASE changed = {}
    BY <2>1, <2>2, <2>4
  <2>5. CASE changed # {}
    <3>1. next.plan.updated_at >= CreatedAt
      BY <1>7, <2>1, <2>5, PlanAssumption, SMT
    <3>2. ASSUME NEW l \in Legs PROVE next.legs[l].updated_at >= CreatedAt
      <4>1. CASE l \in changed
        BY <1>7, <2>1, <2>5, <4>1, PlanAssumption, SMT
      <4>2. CASE l \notin changed
        BY <2>1, <2>3, <2>5, <4>2
      <4> QED BY <4>1, <4>2
    <3> QED BY <3>1, <3>2
  <2> QED BY <2>4, <2>5
<1>11. \A l \in Legs : next.plan.updated_at >= next.legs[l].updated_at
  BY <1>7 DEF Fits, Projections, Rows
<1>12. /\ Readable(next)
       /\ ValidPlan(next.plan.status, FilledLegs(ls), FailedLegs(ls), LegStatusOf(next))
  <2> HIDE DEF next, ls
  <2> QED BY <1>8, <1>9, <1>10 DEF Readable, ValidPlan
<1>13. Persists(projection, cs, es, e.at)
  <2>1. changed # {} =>
          /\ next.plan.updated_at > projection.plan.updated_at
          /\ \A l \in changed : next.legs[l].updated_at > projection.legs[l].updated_at
          /\ ValidPlan(next.plan.status, FilledLegs(ls), FailedLegs(ls), LegStatusOf(next))
          /\ \A l \in Legs : next.plan.updated_at >= next.legs[l].updated_at
          /\ Readable(next)
    BY <1>7, <1>11, <1>12
  <2> QED BY <1>4, <2>1 DEF Persists
<1> QED
  BY <1>13 DEF row, cs, es

\* For every number of legs and every history, an execution event the lifecycle
\* admits, a partial fill aside, is never refused by the projector, by the versions,
\* by the plan's validator or by the read-back of update_execution_lifecycle_on.
THEOREM AdmittedEventsAlwaysCommit == Spec => []AdmittedEventsCommit
<1>1. PlanInv => AdmittedEventsCommit
  BY ReportPersists DEF AdmittedEventsCommit, EvidenceCommits
<1> QED
  BY <1>1, PlanInvariant, PTL

=============================================================================
