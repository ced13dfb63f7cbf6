----------------------- MODULE InboundRecoveryProofs -----------------------
(***************************************************************************)
(* Proofs about InboundRecovery, for any number of messages, sessions and  *)
(* workers, whatever the ids of the workers are.                           *)
(***************************************************************************)
EXTENDS InboundRecovery, TLAPS

\* Zenon proves a leaf that names no other prover.
USE Zenon

\* The facts of an item are committed with its row and with nothing else.
FactsFollowRows ==
    \A i \in Items : facts[i] = IF row[i].status = "HANDLED" THEN 1 ELSE 0

\* The message at hand has a sequence number that no row of the session has; the
\* rows of a session are behind its connection.
SequencesAreFresh ==
    \A s \in Sessions :
        /\ \A m \in Messages : Stored(m) /\ row[m].session = s =>
               row[m].sequence >= 1 /\ row[m].sequence <= conn[s].last
        /\ conn[s].phase = "admitting" =>
               /\ conn[s].message \in Messages
               /\ conn[s].last >= 1
               /\ \A m \in Messages : Stored(m) /\ row[m].session = s =>
                      row[m].sequence # conn[s].last

\* An answer that is about to be sent is as good as one that was sent.
Durable(a) ==
    /\ Stored(a.message)
    /\ a.status = "ACCEPTED" <=> Origin(a.message, a)
    /\ a.status = "REJECTED" =>
           [message |-> a.message, session |-> a.session, sequence |-> a.sequence]
               \in rejections

AnswerAtHand(s) == [message |-> conn[s].message, session |-> s,
                    sequence |-> conn[s].last, status |-> conn[s].answer]

AnswersAtHandAreDurable ==
    \A s \in Sessions : conn[s].phase = "answering" =>
        /\ conn[s].message \in Messages
        /\ conn[s].answer \in {"ACCEPTED", "DUPLICATE", "REJECTED"}
        /\ Durable(AnswerAtHand(s))

WorkersHoldItems ==
    \A w \in Workers : Holding(w) => worker[w].item \in Items

IInv ==
    /\ TypeOK
    /\ FactsFollowRows
    /\ SequencesAreFresh
    /\ AnswersAtHandAreDurable
    /\ AnswersAreDurable
    /\ DeadlettersExplainFailures
    /\ WorkersHoldItems

-----------------------------------------------------------------------------
LEMMA InitIsIInv == Init => IInv
<1> SUFFICES ASSUME Init PROVE IInv
  OBVIOUS
<1> USE DEF Init, AdmissionInit
<1>1. TypeOK
  <2>1. NoRow \in Rows
    BY DEF NoRow, Rows
  <2>2. Unused \in Connections
    BY DEF Unused, Connections
  <2>3. Scanning(0) \in WorkerStates
    BY RecoveryAssumption, SMT DEF Scanning, WorkerStates
  <2> QED
    BY <2>1, <2>2, <2>3, AdmissionAssumption, RecoveryAssumption, SMT DEF TypeOK
<1>2. FactsFollowRows
  BY DEF FactsFollowRows, NoRow
<1>3. SequencesAreFresh
  BY DEF SequencesAreFresh, Stored, NoRow, Unused, Items
<1>4. AnswersAtHandAreDurable /\ AnswersAreDurable
  BY DEF AnswersAtHandAreDurable, AnswersAreDurable, Unused
<1>5. DeadlettersExplainFailures
  BY DEF DeadlettersExplainFailures, NoRow, Items
<1>6. WorkersHoldItems
  BY DEF WorkersHoldItems, Holding, Scanning
<1> QED
  BY <1>1, <1>2, <1>3, <1>4, <1>5, <1>6 DEF IInv

-----------------------------------------------------------------------------
(* What the steps do to rows.                                              *)

\* Of a stored row the sending it was made of stays.
RowsKeepOrigin ==
    \A i \in Items : Stored(i) =>
        Stored(i)' /\ row'[i].session = row[i].session /\ row'[i].sequence = row[i].sequence

\* The steps of the dispatcher store nothing.
RowsKeepStored ==
    \A i \in Items : Stored(i)' => Stored(i)

\* A row that is stored is new.
LEMMA InsertKeepsRows ==
    ASSUME TypeOK, NEW i \in Items, NEW s \in Sessions, NEW q \in Nat, NEW at \in Nat,
           ~Stored(i), Insert(i, s, q, at)
    PROVE  /\ row' \in [Items -> Rows]
           /\ RowsKeepOrigin
           /\ row'[i].status = "PENDING" /\ row'[i].session = s /\ row'[i].sequence = q
           /\ \A j \in Items : j # i => row'[j] = row[j]
<1> DEFINE new == [NoRow EXCEPT !.status = "PENDING", !.session = s, !.sequence = q, !.at = at]
<1>1. /\ new \in Rows
      /\ new.status = "PENDING" /\ new.session = s /\ new.sequence = q
  BY DEF NoRow, Rows
<1>2. row' = [row EXCEPT ![i] = new]
  BY DEF Insert
<1> HIDE DEF new
<1>3. row' \in [Items -> Rows] /\ row'[i] = new /\ \A j \in Items : j # i => row'[j] = row[j]
  BY <1>1, <1>2 DEF TypeOK
<1> QED
  BY <1>1, <1>3 DEF RowsKeepOrigin, Stored

\* Inserting a row leaves facts and deadletters in step with the rows.
LEMMA InsertKeepsFacts ==
    ASSUME IInv, NEW i \in Items, NEW s \in Sessions, NEW q \in Nat, NEW at \in Nat,
           ~Stored(i), Insert(i, s, q, at), UNCHANGED recoveryVars
    PROVE  FactsFollowRows' /\ DeadlettersExplainFailures' /\ WorkersHoldItems'
<1>1. \A j \in Items : row'[j] = row[j] \/ (row[j].status = "ABSENT" /\ row'[j].status = "PENDING")
  BY InsertKeepsRows DEF IInv, Stored
<1>2. FactsFollowRows'
  BY <1>1 DEF IInv, FactsFollowRows, recoveryVars
<1>3. DeadlettersExplainFailures'
  BY <1>1 DEF IInv, DeadlettersExplainFailures, recoveryVars, Items
<1> QED
  BY <1>2, <1>3 DEF IInv, WorkersHoldItems, Holding, recoveryVars

\* Answers that were sent stay as good as they were.
LEMMA AnswersStayDurable ==
    ASSUME TypeOK, AnswersAreDurable, RowsKeepOrigin,
           rejections \subseteq rejections', answers' = answers
    PROVE  AnswersAreDurable'
<1> SUFFICES ASSUME NEW a \in answers
             PROVE  /\ Stored(a.message)'
                    /\ a.status = "ACCEPTED" <=> Origin(a.message, a)'
                    /\ a.status = "REJECTED" =>
                          [message |-> a.message, session |-> a.session,
                           sequence |-> a.sequence] \in rejections'
  BY DEF AnswersAreDurable
<1>1. a.message \in Items
  BY DEF TypeOK, Answers, Items
<1> QED
  BY <1>1 DEF AnswersAreDurable, RowsKeepOrigin, Origin

\* So do the answers at hand, on every connection that stays as it is.
LEMMA AnswerAtHandStaysDurable ==
    ASSUME TypeOK, AnswersAtHandAreDurable, RowsKeepOrigin,
           rejections \subseteq rejections',
           NEW s \in Sessions, conn'[s] = conn[s], conn[s].phase = "answering"
    PROVE  /\ conn'[s].message \in Messages
           /\ conn'[s].answer \in {"ACCEPTED", "DUPLICATE", "REJECTED"}
           /\ Durable(AnswerAtHand(s))'
<1>1. conn[s].message \in Messages /\ Durable(AnswerAtHand(s))
  BY DEF AnswersAtHandAreDurable
<1>2. conn[s].message \in Items
  BY <1>1 DEF Items
<1>3. Durable(AnswerAtHand(s))'
  BY <1>1, <1>2 DEF RowsKeepOrigin, Durable, AnswerAtHand, Origin
<1> QED
  BY <1>1, <1>3 DEF AnswersAtHandAreDurable

\* A step that neither stores a row nor touches a connection keeps all that is
\* said of connections.
LEMMA DispatchKeepsAdmission ==
    ASSUME IInv, RowsKeepOrigin, RowsKeepStored, UNCHANGED <<rejections, conn, answers>>
    PROVE  SequencesAreFresh' /\ AnswersAtHandAreDurable' /\ AnswersAreDurable'
<1>1. SequencesAreFresh'
  <2>1. \A m \in Messages : Stored(m)' => /\ Stored(m)
                                          /\ row'[m].session = row[m].session
                                          /\ row'[m].sequence = row[m].sequence
    BY DEF RowsKeepOrigin, RowsKeepStored, Items
  <2> QED
    BY <2>1 DEF IInv, SequencesAreFresh
<1>2. AnswersAtHandAreDurable'
  BY AnswerAtHandStaysDurable DEF IInv, AnswersAtHandAreDurable
<1>3. AnswersAreDurable'
  BY AnswersStayDurable DEF IInv
<1> QED
  BY <1>1, <1>2, <1>3

-----------------------------------------------------------------------------
(* The steps of the connections.                                           *)

LEMMA ConnectionTypes ==
    /\ \A q \in Nat : /\ Open(q) \in Connections
                      /\ Open(q).phase = "open" /\ Open(q).last = q
    /\ \A c \in Connections : /\ Closed(c) \in Connections
                              /\ Closed(c).phase = "closed" /\ Closed(c).last = c.last
    /\ Unused \in Connections /\ Unused.last = 0
<1>1. \A q \in Nat : Open(q) \in Connections /\ Open(q).phase = "open" /\ Open(q).last = q
  BY DEF Open, Unused, Connections
<1>2. \A c \in Connections : /\ Closed(c) \in Connections
                             /\ Closed(c).phase = "closed" /\ Closed(c).last = c.last
  BY DEF Closed, Unused, Connections
<1> QED
  BY <1>1, <1>2 DEF Unused, Connections

\* A connection that is left without a message at hand, no message being stored.
LEMMA ConnectionRests ==
    ASSUME IInv, NEW s \in Sessions, NEW c \in Connections,
           c.phase \in {"open", "closed"}, c.last >= conn[s].last,
           conn' = [conn EXCEPT ![s] = c],
           RowsKeepOrigin, \A m \in Messages : Stored(m)' => Stored(m),
           rejections' = rejections
    PROVE  conn' \in [Sessions -> Connections] /\ SequencesAreFresh' /\ AnswersAtHandAreDurable'
<1>1. /\ conn' \in [Sessions -> Connections]
      /\ conn'[s] = c /\ \A t \in Sessions : t # s => conn'[t] = conn[t]
      /\ conn \in [Sessions -> Connections]
  BY DEF IInv, TypeOK
<1>2. \A m \in Messages : Stored(m)' => /\ Stored(m)
                                        /\ row'[m].session = row[m].session
                                        /\ row'[m].sequence = row[m].sequence
  BY DEF RowsKeepOrigin, Items
<1>3. SequencesAreFresh'
  <2> SUFFICES ASSUME NEW t \in Sessions
               PROVE  /\ \A m \in Messages : Stored(m)' /\ row'[m].session = t =>
                             row'[m].sequence >= 1 /\ row'[m].sequence <= conn'[t].last
                      /\ conn'[t].phase = "admitting" =>
                             /\ conn'[t].message \in Messages
                             /\ conn'[t].last >= 1
                             /\ \A m \in Messages : Stored(m)' /\ row'[m].session = t =>
                                    row'[m].sequence # conn'[t].last
    BY DEF SequencesAreFresh
  <2>1. CASE t = s
    <3>1. /\ conn'[t].last \in Nat /\ conn[t].last \in Nat /\ conn'[t].last >= conn[t].last
          /\ conn'[t].phase # "admitting"
      BY <1>1, <2>1 DEF Connections
    <3>2. \A m \in Messages : row[m].sequence \in Nat
      BY DEF IInv, TypeOK, Rows, Items
    <3> QED
      BY <1>2, <3>1, <3>2, SMT DEF IInv, SequencesAreFresh
  <2>2. CASE t # s
    BY <1>1, <1>2, <2>2 DEF IInv, SequencesAreFresh
  <2> QED
    BY <2>1, <2>2
<1>4. AnswersAtHandAreDurable'
  <2> SUFFICES ASSUME NEW t \in Sessions, conn'[t].phase = "answering"
               PROVE  /\ conn'[t].message \in Messages
                      /\ conn'[t].answer \in {"ACCEPTED", "DUPLICATE", "REJECTED"}
                      /\ Durable(AnswerAtHand(t))'
    BY DEF AnswersAtHandAreDurable
  <2>1. conn'[t] = conn[t]
    BY <1>1
  <2> QED
    BY <2>1, AnswerAtHandStaysDurable DEF IInv
<1> QED
  BY <1>1, <1>3, <1>4

\* What is not stored by the handshake or by Receive stays.
LEMMA StepWithoutRows ==
    ASSUME IInv, UNCHANGED <<row, rejections, stamp>>, UNCHANGED recoveryVars,
           conn' \in [Sessions -> Connections], SequencesAreFresh', AnswersAtHandAreDurable',
           answers' \subseteq Answers, AnswersAreDurable'
    PROVE  IInv'
BY DEF IInv, TypeOK, FactsFollowRows, DeadlettersExplainFailures, WorkersHoldItems, Holding,
       recoveryVars

LEMMA RowsUnchanged ==
    ASSUME row' = row
    PROVE  RowsKeepOrigin /\ RowsKeepStored /\ \A m \in Messages : Stored(m)' => Stored(m)
BY DEF RowsKeepOrigin, RowsKeepStored, Stored

\* A step of a connection that stores nothing and ends without a message at hand.
LEMMA QuietStep ==
    ASSUME IInv, NEW s \in Sessions, NEW c \in Connections,
           c.phase \in {"open", "closed"}, c.last >= conn[s].last,
           conn' = [conn EXCEPT ![s] = c],
           UNCHANGED <<row, rejections, stamp>>, UNCHANGED recoveryVars,
           answers' \subseteq Answers, AnswersAreDurable'
    PROVE  IInv'
<1>1. row' = row /\ rejections' = rejections
  OBVIOUS
<1>2. RowsKeepOrigin /\ \A m \in Messages : Stored(m)' => Stored(m)
  BY <1>1, RowsUnchanged
<1>3. conn' \in [Sessions -> Connections] /\ SequencesAreFresh' /\ AnswersAtHandAreDurable'
  BY <1>1, <1>2, ConnectionRests
<1> QED
  BY <1>3, StepWithoutRows

\* The same, with no answer sent.
LEMMA QuietStepWithoutAnswer ==
    ASSUME IInv, NEW s \in Sessions, NEW c \in Connections,
           c.phase \in {"open", "closed"}, c.last >= conn[s].last,
           conn' = [conn EXCEPT ![s] = c],
           UNCHANGED <<row, rejections, answers, stamp>>, UNCHANGED recoveryVars
    PROVE  IInv'
<1>1. row' = row /\ rejections' = rejections /\ answers' = answers
  OBVIOUS
<1>2. RowsKeepOrigin
  BY <1>1, RowsUnchanged
<1>3. AnswersAreDurable'
  BY <1>1, <1>2, AnswersStayDurable DEF IInv
<1>4. answers' \subseteq Answers
  BY <1>1 DEF IInv, TypeOK
<1> QED
  BY <1>3, <1>4, QuietStep

LEMMA ConnectStep ==
    ASSUME IInv, NEW s \in Sessions, Connect(s), UNCHANGED recoveryVars
    PROVE  IInv'
<1>1. /\ Open(0) \in Connections /\ Open(0).phase \in {"open", "closed"}
      /\ Open(0).last >= conn[s].last
  BY ConnectionTypes, SMT DEF Connect
<1>2. /\ conn' = [conn EXCEPT ![s] = Open(0)]
      /\ UNCHANGED <<row, rejections, answers, stamp>>
  BY DEF Connect
<1> QED
  BY <1>1, <1>2, QuietStepWithoutAnswer

\* A cursor is stored, and the connection opens or closes.
LEMMA ResumeStored ==
    ASSUME IInv, NEW s \in Sessions, NEW h \in Hellos, NEW c \in Connections,
           conn[s] = Unused, ResumeConflicts(h, s) = {}, Insert(h, s, 0, stamp),
           c.phase \in {"open", "closed"}, c.last = 0, conn' = [conn EXCEPT ![s] = c],
           UNCHANGED <<rejections, answers, stamp>>, UNCHANGED recoveryVars
    PROVE  IInv'
<1>1. h \in Items /\ ~Stored(h) /\ stamp \in Nat
  BY SMT DEF Items, ResumeConflicts, IInv, TypeOK
<1>2. /\ row' \in [Items -> Rows] /\ RowsKeepOrigin
      /\ \A j \in Items : j # h => row'[j] = row[j]
  BY <1>1, InsertKeepsRows, SMT DEF IInv
<1>3. FactsFollowRows' /\ DeadlettersExplainFailures' /\ WorkersHoldItems'
  BY <1>1, InsertKeepsFacts, SMT
<1>4. \A m \in Messages : Stored(m)' => Stored(m)
  BY <1>2, AdmissionAssumption DEF Items, Stored
<1>5. conn' \in [Sessions -> Connections] /\ SequencesAreFresh' /\ AnswersAtHandAreDurable'
  <2>1. c.last >= conn[s].last
    BY ConnectionTypes, SMT
  <2> QED
    BY <1>2, <1>4, <2>1, ConnectionRests
<1>6. AnswersAreDurable'
  BY <1>2, AnswersStayDurable DEF IInv
<1>7. TypeOK'
  BY <1>2, <1>5 DEF IInv, TypeOK, recoveryVars
<1> QED
  BY <1>3, <1>5, <1>6, <1>7 DEF IInv

LEMMA ConnectWithResumeStep ==
    ASSUME IInv, NEW s \in Sessions, NEW h \in Hellos, ConnectWithResume(s, h),
           UNCHANGED recoveryVars
    PROVE  IInv'
<1>1. /\ Open(0) \in Connections /\ Open(0).phase \in {"open", "closed"}
      /\ Open(0).last = 0
  BY ConnectionTypes, SMT
<1>2. /\ conn[s] = Unused /\ ResumeConflicts(h, s) = {} /\ Insert(h, s, 0, stamp)
      /\ conn' = [conn EXCEPT ![s] = Open(0)]
      /\ UNCHANGED <<rejections, answers, stamp>>
  BY DEF ConnectWithResume
<1> QED
  BY <1>1, <1>2, ResumeStored

LEMMA RefuseResumeStep ==
    ASSUME IInv, NEW s \in Sessions, NEW h \in Hellos, RefuseResume(s, h),
           UNCHANGED recoveryVars
    PROVE  IInv'
<1>1. /\ Closed(Unused) \in Connections /\ Closed(Unused).phase \in {"open", "closed"}
      /\ Closed(Unused).last = 0
  BY ConnectionTypes
<1>2. /\ conn[s] = Unused /\ conn' = [conn EXCEPT ![s] = Closed(Unused)]
      /\ UNCHANGED <<rejections, answers, stamp>>
  BY DEF RefuseResume
<1>3. CASE UNCHANGED row
  <2>1. Closed(Unused).last >= conn[s].last
    BY <1>1, <1>2, ConnectionTypes, SMT
  <2> QED
    BY <1>1, <1>2, <1>3, <2>1, QuietStepWithoutAnswer
<1>4. CASE ResumeConflicts(h, s) = {} /\ Insert(h, s, 0, stamp)
  BY <1>1, <1>2, <1>4, ResumeStored
<1> QED
  BY <1>3, <1>4 DEF RefuseResume

LEMMA DropStep ==
    ASSUME IInv, NEW s \in Sessions, Drop(s), UNCHANGED recoveryVars
    PROVE  IInv'
<1>1. conn[s] \in Connections /\ conn[s].last \in Nat
  BY DEF IInv, TypeOK, Connections
<1>2. /\ Closed(conn[s]) \in Connections /\ Closed(conn[s]).phase \in {"open", "closed"}
      /\ Closed(conn[s]).last >= conn[s].last
  BY <1>1, ConnectionTypes, SMT
<1>3. /\ conn' = [conn EXCEPT ![s] = Closed(conn[s])]
      /\ UNCHANGED <<row, rejections, answers, stamp>>
  BY DEF Drop
<1> QED
  BY <1>2, <1>3, QuietStepWithoutAnswer

LEMMA ReceiveControlStep ==
    ASSUME IInv, NEW s \in Sessions, NEW q \in 1 .. MaxSequence, ReceiveControl(s, q),
           UNCHANGED recoveryVars
    PROVE  IInv'
<1>1. conn[s].last \in Nat /\ q \in Nat
  BY AdmissionAssumption, SMT DEF IInv, TypeOK, Connections
<1>2. /\ Open(q) \in Connections /\ Open(q).phase \in {"open", "closed"}
      /\ Open(q).last >= conn[s].last
  BY <1>1, ConnectionTypes, SMT DEF ReceiveControl, InSequence
<1>3. /\ conn' = [conn EXCEPT ![s] = Open(q)]
      /\ UNCHANGED <<row, rejections, answers, stamp>>
  BY DEF ReceiveControl
<1> QED
  BY <1>2, <1>3, QuietStepWithoutAnswer

\* The answer at hand becomes an answer that was sent.
LEMMA AnswerStep ==
    ASSUME IInv, NEW s \in Sessions, Answer(s), UNCHANGED recoveryVars
    PROVE  IInv'
<1> DEFINE a == AnswerAtHand(s)
<1>1. /\ conn[s] \in Connections /\ conn[s].last \in Nat /\ conn[s].message \in Messages
      /\ conn[s].answer \in {"ACCEPTED", "DUPLICATE", "REJECTED"}
      /\ Durable(a)
  BY DEF IInv, TypeOK, Connections, AnswersAtHandAreDurable, Answer
<1>2. /\ Open(conn[s].last) \in Connections
      /\ Open(conn[s].last).phase \in {"open", "closed"}
      /\ Open(conn[s].last).last >= conn[s].last
  BY <1>1, ConnectionTypes, SMT
<1>3. /\ conn' = [conn EXCEPT ![s] = Open(conn[s].last)]
      /\ answers' = answers \cup {a}
      /\ UNCHANGED <<row, rejections, stamp>>
  BY DEF Answer, AnswerAtHand
<1>4. a \in Answers
  BY <1>1 DEF AnswerAtHand, Answers
<1>5. answers' \subseteq Answers
  BY <1>3, <1>4 DEF IInv, TypeOK
<1>6. AnswersAreDurable'
  <2> HIDE DEF a
  <2>1. row' = row /\ rejections' = rejections
    BY <1>3
  <2>2. ASSUME NEW b \in answers' PROVE Durable(b)'
    <3>1. Durable(b)
      BY <1>1, <1>3, <2>2 DEF IInv, AnswersAreDurable, Durable
    <3> QED
      BY <2>1, <3>1 DEF Durable, Stored, Origin
  <2> QED
    BY <2>2 DEF AnswersAreDurable, Durable
<1> QED
  BY <1>2, <1>3, <1>5, <1>6, QuietStep

LEMMA ReceiveStep ==
    ASSUME IInv, NEW s \in Sessions, NEW m \in Messages, NEW q \in 1 .. MaxSequence,
           Receive(s, m, q), UNCHANGED recoveryVars
    PROVE  IInv'
<1> DEFINE c == [Open(q) EXCEPT !.phase = "admitting", !.message = m, !.at = stamp]
<1>1. /\ conn \in [Sessions -> Connections] /\ conn[s].last \in Nat /\ q \in Nat /\ q >= 1
      /\ stamp \in Nat
  BY AdmissionAssumption, SMT DEF IInv, TypeOK, Connections
<1>2. c \in Connections /\ c.phase = "admitting" /\ c.last = q /\ c.message = m
  BY <1>1 DEF Connections, Open, Unused
<1>3. /\ conn' = [conn EXCEPT ![s] = c] /\ InSequence(s, q)
      /\ row' = row /\ rejections' = rejections /\ answers' = answers /\ stamp' = stamp
  BY DEF Receive
<1> HIDE DEF c
<1>4. /\ conn' \in [Sessions -> Connections]
      /\ conn'[s] = c /\ \A t \in Sessions : t # s => conn'[t] = conn[t]
  BY <1>1, <1>2, <1>3
<1>5. RowsKeepOrigin
  BY <1>3, RowsUnchanged
<1>6. SequencesAreFresh'
  <2> SUFFICES ASSUME NEW t \in Sessions
               PROVE  /\ \A n \in Messages : Stored(n)' /\ row'[n].session = t =>
                             row'[n].sequence >= 1 /\ row'[n].sequence <= conn'[t].last
                      /\ conn'[t].phase = "admitting" =>
                             /\ conn'[t].message \in Messages
                             /\ conn'[t].last >= 1
                             /\ \A n \in Messages : Stored(n)' /\ row'[n].session = t =>
                                    row'[n].sequence # conn'[t].last
    BY DEF SequencesAreFresh
  <2>1. \A n \in Messages : row[n].sequence \in Nat /\ (Stored(n)' <=> Stored(n))
    BY <1>3 DEF IInv, TypeOK, Rows, Items, Stored
  <2>2. CASE t = s
    <3>1. \A n \in Messages : Stored(n) /\ row[n].session = s =>
              row[n].sequence >= 1 /\ row[n].sequence < q
      BY <1>1, <1>3, <2>1, SMT DEF IInv, SequencesAreFresh, InSequence
    <3> QED
      BY <1>1, <1>2, <1>3, <1>4, <2>1, <2>2, <3>1, SMT
  <2>3. CASE t # s
    BY <1>3, <1>4, <2>1, <2>3 DEF IInv, SequencesAreFresh
  <2> QED
    BY <2>2, <2>3
<1>7. AnswersAtHandAreDurable'
  <2> SUFFICES ASSUME NEW t \in Sessions, conn'[t].phase = "answering"
               PROVE  /\ conn'[t].message \in Messages
                      /\ conn'[t].answer \in {"ACCEPTED", "DUPLICATE", "REJECTED"}
                      /\ Durable(AnswerAtHand(t))'
    BY DEF AnswersAtHandAreDurable
  <2>1. conn'[t] = conn[t]
    BY <1>2, <1>4
  <2> QED
    BY <1>3, <1>5, <2>1, AnswerAtHandStaysDurable DEF IInv
<1>8. AnswersAreDurable' /\ answers' \subseteq Answers
  BY <1>3, <1>5, AnswersStayDurable DEF IInv, TypeOK
<1> QED
  BY <1>3, <1>4, <1>6, <1>7, <1>8, StepWithoutRows

\* What the transaction of message m, sent with sequence number q on session s, does
\* to the inbox when its outcome is o.
AdmissionEffect(s, m, q, o) ==
    /\ m \in Messages /\ q \in Nat /\ q >= 1
    /\ row' \in [Items -> Rows] /\ RowsKeepOrigin
    /\ rejections \subseteq rejections' /\ rejections' \subseteq Sendings
    /\ \A n \in Messages : Stored(n)' =>
           Stored(n) \/ (row'[n].session = s /\ row'[n].sequence = q)
    /\ Durable([message |-> m, session |-> s, sequence |-> q, status |-> o])'
    /\ o \in {"ACCEPTED", "DUPLICATE", "REJECTED"}
    /\ \A i \in Items : \/ row'[i] = row[i]
                        \/ row[i].status = "ABSENT" /\ row'[i].status = "PENDING"

\* After its transaction the message is stored, and the outcome says how: the
\* sequence number being fresh, only the message itself can be in the way.
LEMMA Admitted ==
    ASSUME IInv, NEW s \in Sessions, conn[s].phase = "admitting", AdmitInbound(s),
           NEW m, m = conn[s].message, NEW q, q = conn[s].last,
           NEW o, o = Outcome(m, s, q)
    PROVE  AdmissionEffect(s, m, q, o)
<1>1. /\ m \in Messages /\ m \in Items /\ q \in Nat /\ q >= 1 /\ conn[s].at \in Nat
  BY DEF IInv, SequencesAreFresh, TypeOK, Connections, Items
<1>2. \A n \in Messages : Stored(n) /\ row[n].session = s => row[n].sequence # q
  BY DEF IInv, SequencesAreFresh
<1>3. /\ IF Outcome(m, s, q) = "ACCEPTED" THEN Insert(m, s, q, conn[s].at) ELSE UNCHANGED row
      /\ rejections' = rejections \cup
             IF Outcome(m, s, q) = "REJECTED"
             THEN {[message |-> m, session |-> s, sequence |-> q]} ELSE {}
  BY DEF AdmitInbound
<1>4. rejections \subseteq rejections' /\ rejections' \subseteq Sendings
  BY <1>1, <1>3, SMT DEF IInv, TypeOK, Sendings
<1>5. CASE ~Stored(m)
  <2>1. Outcome(m, s, q) = "ACCEPTED"
    BY <1>2, <1>5 DEF Outcome, InboundConflicts
  <2>2. Insert(m, s, q, conn[s].at)
    BY <1>3, <2>1
  <2>3. /\ row' \in [Items -> Rows] /\ RowsKeepOrigin
        /\ row'[m].status = "PENDING" /\ row'[m].session = s /\ row'[m].sequence = q
        /\ \A j \in Items : j # m => row'[j] = row[j]
    <3>1. TypeOK
      BY DEF IInv
    <3> QED
      BY <1>1, <1>5, <2>2, <3>1, InsertKeepsRows, SMT
  <2>4. Durable([message |-> m, session |-> s, sequence |-> q, status |-> o])'
    BY <2>1, <2>3 DEF Durable, Stored, Origin
  <2>5. \A n \in Messages : n \in Items
    BY DEF Items
  <2>6. \A n \in Messages : Stored(n)' =>
            Stored(n) \/ (row'[n].session = s /\ row'[n].sequence = q)
    <3> SUFFICES ASSUME NEW n \in Messages, Stored(n)', ~Stored(n)
                 PROVE  row'[n].session = s /\ row'[n].sequence = q
      OBVIOUS
    <3>1. n = m
      BY <2>3, <2>5 DEF Stored
    <3> QED
      BY <2>3, <3>1
  <2>7. row[m].status = "ABSENT"
    BY <1>1, <1>5 DEF Stored
  <2> QED
    BY <1>1, <1>4, <2>1, <2>3, <2>4, <2>6, <2>7 DEF AdmissionEffect
<1>6. CASE Stored(m)
  <2>1. Outcome(m, s, q) = "REJECTED"
    BY <1>1, <1>2, <1>6 DEF Outcome, InboundConflicts, SameInboundIdentity
  <2>2. row' = row /\ [message |-> m, session |-> s, sequence |-> q] \in rejections'
    BY <1>3, <2>1
  <2>3. Durable([message |-> m, session |-> s, sequence |-> q, status |-> o])'
    BY <1>1, <1>2, <1>6, <2>1, <2>2 DEF Durable, Stored, Origin
  <2>4. row' \in [Items -> Rows] /\ RowsKeepOrigin
    BY <2>2, RowsUnchanged DEF IInv, TypeOK
  <2>5. \A n \in Messages : Stored(n)' => Stored(n)
    BY <2>2 DEF Stored
  <2> QED
    BY <1>1, <1>4, <2>1, <2>2, <2>3, <2>4, <2>5 DEF AdmissionEffect
<1> QED
  BY <1>5, <1>6

\* Whatever becomes of the connection once the message is admitted.
LEMMA AfterAdmission ==
    ASSUME IInv, NEW s \in Sessions, conn[s].phase = "admitting", AdmitInbound(s),
           NEW m, m = conn[s].message, NEW q, q = conn[s].last,
           NEW o, o = Outcome(m, s, q),
           NEW c \in Connections, c.last = q,
           \/ c.phase \in {"open", "closed"}
           \/ c.phase = "answering" /\ c.message = m /\ c.answer = o,
           conn' = [conn EXCEPT ![s] = c],
           UNCHANGED <<answers, stamp>>, UNCHANGED recoveryVars
    PROVE  IInv'
<1>0. AdmissionEffect(s, m, q, o)
  BY Admitted
<1>1. /\ m \in Messages /\ q \in Nat /\ q >= 1
      /\ row' \in [Items -> Rows] /\ RowsKeepOrigin
      /\ rejections \subseteq rejections' /\ rejections' \subseteq Sendings
      /\ \A n \in Messages : Stored(n)' =>
             Stored(n) \/ (row'[n].session = s /\ row'[n].sequence = q)
      /\ Durable([message |-> m, session |-> s, sequence |-> q, status |-> o])'
      /\ o \in {"ACCEPTED", "DUPLICATE", "REJECTED"}
      /\ \A i \in Items : \/ row'[i] = row[i]
                          \/ row[i].status = "ABSENT" /\ row'[i].status = "PENDING"
  BY <1>0 DEF AdmissionEffect
<1>2. /\ conn \in [Sessions -> Connections] /\ conn' \in [Sessions -> Connections]
      /\ conn'[s] = c /\ \A t \in Sessions : t # s => conn'[t] = conn[t]
  BY DEF IInv, TypeOK
<1>3. TypeOK'
  BY <1>1, <1>2 DEF IInv, TypeOK, recoveryVars
<1>4. FactsFollowRows' /\ DeadlettersExplainFailures' /\ WorkersHoldItems'
  <2>1. FactsFollowRows'
    BY <1>1 DEF IInv, FactsFollowRows, recoveryVars
  <2>2. DeadlettersExplainFailures'
    BY <1>1 DEF IInv, DeadlettersExplainFailures, recoveryVars, Items
  <2> QED
    BY <2>1, <2>2 DEF IInv, WorkersHoldItems, Holding, recoveryVars
<1>5. SequencesAreFresh'
  <2> SUFFICES ASSUME NEW t \in Sessions
               PROVE  /\ \A n \in Messages : Stored(n)' /\ row'[n].session = t =>
                             row'[n].sequence >= 1 /\ row'[n].sequence <= conn'[t].last
                      /\ conn'[t].phase = "admitting" =>
                             /\ conn'[t].message \in Messages
                             /\ conn'[t].last >= 1
                             /\ \A n \in Messages : Stored(n)' /\ row'[n].session = t =>
                                    row'[n].sequence # conn'[t].last
    BY DEF SequencesAreFresh
  <2>1. \A n \in Messages : Stored(n) => /\ row'[n].session = row[n].session
                                         /\ row'[n].sequence = row[n].sequence
    BY <1>1 DEF RowsKeepOrigin, Items
  <2>2. CASE t = s
    <3>1. conn'[t].last = q /\ conn'[t].phase # "admitting" /\ conn[t].last = q
      BY <1>2, <2>2
    <3>3. q >= 1 /\ q <= q
      <4>1. q \in Nat /\ q >= 1
        BY <1>0 DEF AdmissionEffect
      <4> QED
        BY <4>1, SMT
    <3>2. ASSUME NEW n \in Messages, Stored(n)', row'[n].session = t
          PROVE  row'[n].sequence >= 1 /\ row'[n].sequence <= q
      <4>1. CASE Stored(n)
        <5>1. row[n].session = t /\ row'[n].sequence = row[n].sequence
          BY <2>1, <3>2, <4>1
        <5>2. row[n].sequence >= 1 /\ row[n].sequence <= conn[t].last
          BY <4>1, <5>1 DEF IInv, SequencesAreFresh
        <5> QED
          BY <3>1, <5>1, <5>2
      <4>2. CASE ~Stored(n)
        <5>1. row'[n].sequence = q
          BY <1>1, <3>2, <4>2
        <5> QED
          BY <3>3, <5>1
      <4> QED
        BY <4>1, <4>2
    <3> QED
      BY <3>1, <3>2
  <2>3. CASE t # s
    <3>1. conn'[t] = conn[t]
      BY <1>2, <2>3
    <3>2. ASSUME NEW n \in Messages, Stored(n)', row'[n].session = t
          PROVE  Stored(n) /\ row[n].session = t /\ row'[n].sequence = row[n].sequence
      <4>1. Stored(n)
        BY <1>1, <2>3, <3>2
      <4> QED
        BY <2>1, <3>2, <4>1
    <3>3. /\ \A n \in Messages : Stored(n) /\ row[n].session = t =>
                 row[n].sequence >= 1 /\ row[n].sequence <= conn[t].last
          /\ conn[t].phase = "admitting" =>
                 /\ conn[t].message \in Messages
                 /\ conn[t].last >= 1
                 /\ \A n \in Messages : Stored(n) /\ row[n].session = t =>
                        row[n].sequence # conn[t].last
      BY DEF IInv, SequencesAreFresh
    <3> QED
      BY <3>1, <3>2, <3>3
  <2> QED
    BY <2>2, <2>3
<1>6. AnswersAtHandAreDurable'
  <2> SUFFICES ASSUME NEW t \in Sessions, conn'[t].phase = "answering"
               PROVE  /\ conn'[t].message \in Messages
                      /\ conn'[t].answer \in {"ACCEPTED", "DUPLICATE", "REJECTED"}
                      /\ Durable(AnswerAtHand(t))'
    BY DEF AnswersAtHandAreDurable
  <2>1. CASE t = s
    <3>1. conn'[t].message = m /\ conn'[t].answer = o /\ conn'[t].last = q
      BY <1>2, <2>1
    <3> QED
      BY <1>1, <2>1, <3>1 DEF AnswerAtHand, Durable, Origin
  <2>2. CASE t # s
    <3>1. conn'[t] = conn[t]
      BY <1>2, <2>2
    <3> QED
      BY <1>1, <3>1, AnswerAtHandStaysDurable DEF IInv
  <2> QED
    BY <2>1, <2>2
<1>7. AnswersAreDurable'
  BY <1>1, AnswersStayDurable DEF IInv
<1> QED
  BY <1>3, <1>4, <1>5, <1>6, <1>7 DEF IInv

LEMMA AdmitStep ==
    ASSUME IInv, NEW s \in Sessions, Admit(s), UNCHANGED recoveryVars
    PROVE  IInv'
<1>1. /\ conn[s].phase = "admitting" /\ AdmitInbound(s) /\ UNCHANGED <<answers, stamp>>
      /\ conn[s] \in Connections /\ conn[s].last \in Nat
  BY DEF Admit, IInv, TypeOK, Connections
<1>2. CASE conn[s].message \in Silent
  <2>1. conn' = [conn EXCEPT ![s] = Open(conn[s].last)]
    BY <1>2 DEF Admit
  <2>2. /\ Open(conn[s].last) \in Connections /\ Open(conn[s].last).phase \in {"open", "closed"}
        /\ Open(conn[s].last).last = conn[s].last
    BY <1>1, ConnectionTypes
  <2> QED
    BY <1>1, <2>1, <2>2, AfterAdmission
<1>3. CASE conn[s].message \notin Silent
  <2> DEFINE o == Outcome(conn[s].message, s, conn[s].last)
             c == [conn[s] EXCEPT !.phase = "answering", !.answer = o]
  <2>1. conn' = [conn EXCEPT ![s] = c]
    BY <1>3 DEF Admit
  <2>2. o \in {"ACCEPTED", "DUPLICATE", "REJECTED"}
    BY DEF Outcome
  <2>3. /\ c \in Connections /\ c.phase = "answering" /\ c.last = conn[s].last
        /\ c.message = conn[s].message /\ c.answer = o
    <3> HIDE DEF o
    <3> QED
      BY <1>1, <2>2 DEF Connections
  <2> QED
    BY <1>1, <2>1, <2>3, AfterAdmission
<1> QED
  BY <1>2, <1>3

LEMMA AdmitUnansweredStep ==
    ASSUME IInv, NEW s \in Sessions, AdmitUnanswered(s), UNCHANGED recoveryVars
    PROVE  IInv'
<1>1. /\ conn[s].phase = "admitting" /\ AdmitInbound(s) /\ UNCHANGED <<answers, stamp>>
      /\ conn[s] \in Connections
      /\ conn' = [conn EXCEPT ![s] = Closed(conn[s])]
  BY DEF AdmitUnanswered, IInv, TypeOK
<1>2. /\ Closed(conn[s]) \in Connections /\ Closed(conn[s]).phase \in {"open", "closed"}
      /\ Closed(conn[s]).last = conn[s].last
  BY <1>1, ConnectionTypes
<1> QED
  BY <1>1, <1>2, AfterAdmission

LEMMA TickStep ==
    ASSUME IInv, Tick, UNCHANGED recoveryVars
    PROVE  IInv'
<1>1. TypeOK'
  BY AdmissionAssumption, SMT DEF IInv, TypeOK, Tick, recoveryVars
<1>2. SequencesAreFresh' /\ AnswersAtHandAreDurable' /\ AnswersAreDurable'
  BY DispatchKeepsAdmission, RowsUnchanged DEF Tick
<1> QED
  BY <1>1, <1>2 DEF IInv, FactsFollowRows, DeadlettersExplainFailures, WorkersHoldItems,
                    Holding, recoveryVars, Tick

LEMMA AdmissionStep ==
    ASSUME IInv, AdmissionNext, UNCHANGED recoveryVars
    PROVE  IInv'
BY TickStep, ConnectStep, AdmitStep, AdmitUnansweredStep, AnswerStep, DropStep,
   ConnectWithResumeStep, RefuseResumeStep, ReceiveControlStep, ReceiveStep
   DEF AdmissionNext

-----------------------------------------------------------------------------
(* The steps of the dispatcher and the faults.                             *)

\* A step that changes at most one row, a stored one, and keeps its origin.
LEMMA DispatchRow ==
    ASSUME IInv, NEW i \in Items, Stored(i), NEW r \in Rows, r.status # "ABSENT",
           r.session = row[i].session, r.sequence = row[i].sequence,
           row' = [row EXCEPT ![i] = r], UNCHANGED <<rejections, conn, answers>>
    PROVE  /\ row' \in [Items -> Rows] /\ row'[i] = r
           /\ \A j \in Items : j # i => row'[j] = row[j]
           /\ SequencesAreFresh' /\ AnswersAtHandAreDurable' /\ AnswersAreDurable'
<1>1. /\ row' \in [Items -> Rows] /\ row'[i] = r
      /\ \A j \in Items : j # i => row'[j] = row[j]
  BY DEF IInv, TypeOK
<1>2. RowsKeepOrigin /\ RowsKeepStored
  BY <1>1 DEF RowsKeepOrigin, RowsKeepStored, Stored
<1> QED
  BY <1>1, <1>2, DispatchKeepsAdmission

LEMMA ClaimedType ==
    ASSUME NEW r \in Rows, NEW id \in Nat
    PROVE  /\ Claimed(r, id) \in Rows /\ Claimed(r, id).status = "PROCESSING"
           /\ Claimed(r, id).session = r.session /\ Claimed(r, id).sequence = r.sequence
<1> DEFINE v == r.revision + 1
<1>1. v \in Nat
  BY SMT DEF Rows
<1> HIDE DEF v
<1>2. Claimed(r, id) = [r EXCEPT !.status = "PROCESSING", !.owner = id, !.leased = TRUE,
                                 !.revision = v]
  BY DEF Claimed, v
<1> QED
  BY <1>1, <1>2 DEF Rows

LEMMA FinishedType ==
    ASSUME NEW r \in Rows, NEW status \in {"HANDLED", "FAILED"},
           NEW error \in {"none", "handler", "timeout"}
    PROVE  /\ Finished(r, status, error) \in Rows
           /\ Finished(r, status, error).status = status
           /\ Finished(r, status, error).error = error
           /\ Finished(r, status, error).session = r.session
           /\ Finished(r, status, error).sequence = r.sequence
<1> DEFINE v == r.revision + 1
<1>1. v \in Nat
  BY SMT DEF Rows
<1> HIDE DEF v
<1>2. Finished(r, status, error) =
          [r EXCEPT !.status = status, !.error = error, !.owner = 0, !.leased = FALSE,
                    !.revision = v]
  BY DEF Finished, v
<1>3. status \in {"ABSENT", "PENDING", "PROCESSING", "HANDLED", "FAILED"}
  OBVIOUS
<1>4. Finished(r, status, error) \in Rows
  <2>1. /\ r = [status |-> r.status, revision |-> r.revision, owner |-> r.owner,
                leased |-> r.leased, session |-> r.session, sequence |-> r.sequence,
                at |-> r.at, error |-> r.error]
        /\ r.session \in Sessions \cup {0} /\ r.sequence \in Nat /\ r.at \in Nat
    BY DEF Rows
  <2>2. Finished(r, status, error) =
            [status |-> status, revision |-> v, owner |-> 0, leased |-> FALSE,
             session |-> r.session, sequence |-> r.sequence, at |-> r.at, error |-> error]
    BY <1>2, <2>1
  <2> QED
    BY <1>1, <1>3, <2>1, <2>2, SMT DEF Rows
<1>5. /\ Finished(r, status, error).status = status
      /\ Finished(r, status, error).error = error
      /\ Finished(r, status, error).session = r.session
      /\ Finished(r, status, error).sequence = r.sequence
  BY <1>2 DEF Rows
<1> QED
  BY <1>4, <1>5

\* The states a worker goes through.
LEMMA WorkerTypes ==
    ASSUME TypeOK, NEW w \in Workers
    PROVE  /\ \A n \in 0 .. BatchSize - 1 : /\ Scanning(n) \in WorkerStates
                                            /\ Scanning(n).phase = "scanning"
           /\ 0 \in 0 .. BatchSize - 1
           /\ (worker[w].index + 1) % BatchSize \in 0 .. BatchSize - 1
<1>1. worker[w].index \in 0 .. BatchSize - 1 /\ BatchSize \in Nat \ {0}
  BY RecoveryAssumption DEF TypeOK, WorkerStates
<1> QED
  BY <1>1, SMT DEF Scanning, WorkerStates

\* A worker that goes back to scanning.
LEMMA WorkerScans ==
    ASSUME IInv, NEW w \in Workers, NextItem(w) \/ EndBatch(w)
    PROVE  worker' \in [Workers -> WorkerStates] /\ WorkersHoldItems'
<1>1. PICK n \in 0 .. BatchSize - 1 : worker' = [worker EXCEPT ![w] = Scanning(n)]
  BY WorkerTypes DEF IInv, NextItem, EndBatch
<1>2. Scanning(n) \in WorkerStates /\ Scanning(n).phase = "scanning"
  BY WorkerTypes DEF IInv
<1> QED
  BY <1>1, <1>2 DEF IInv, TypeOK, WorkersHoldItems, Holding

\* Only a stored item is found, and one that is not finished.
LEMMA Found ==
    ASSUME NEW w \in Workers, NEW i \in Expired(Kind(w)) \cup NextPending(Kind(w))
    PROVE  /\ i \in Items /\ row[i].status \in {"PENDING", "PROCESSING"} /\ Stored(i)
BY DEF Kind, Expired, NextPending, Pending, Items, Stored

LEMMA ClaimStep ==
    ASSUME IInv, NEW w \in Workers, Claim(w)
    PROVE  IInv'
<1> DEFINE found == IF worker[w].step % 2 = 1 THEN Expired(Kind(w)) ELSE NextPending(Kind(w))
<1>1. /\ ~Holding(w)
      /\ \/ \E i \in found : ClaimOn(w, i)
         \/ /\ IF worker[w].step < 4 THEN NextStep(w) ELSE EndBatch(w)
            /\ UNCHANGED row
      /\ UNCHANGED <<rejections, conn, answers, stamp, facts, deadletters, faults>>
  BY DEF Claim
<1>2. worker[w] \in WorkerStates /\ worker \in [Workers -> WorkerStates]
  BY DEF IInv, TypeOK
<1>3. CASE \E i \in found : ClaimOn(w, i)
  <2>1. PICK i \in found : ClaimOn(w, i)
    BY <1>3
  <2>2. i \in Items /\ row[i].status \in {"PENDING", "PROCESSING"} /\ Stored(i)
    BY Found
  <2>3. row[i] \in Rows /\ WorkerId[w] \in Nat /\ row[i].revision + 1 \in Nat
    BY <2>2, RecoveryAssumption, SMT DEF IInv, TypeOK, Rows
  <2> DEFINE r == Claimed(row[i], WorkerId[w])
             v == row[i].revision + 1
             u == [worker[w] EXCEPT !.phase = "handling", !.item = i, !.revision = v]
  <2>4. row' = [row EXCEPT ![i] = r] /\ worker' = [worker EXCEPT ![w] = u]
    BY <2>1 DEF ClaimOn
  <2>5. /\ r \in Rows /\ r.status = "PROCESSING" /\ r.session = row[i].session
        /\ r.sequence = row[i].sequence
    BY <2>3, ClaimedType
  <2>6. v \in Nat
    BY <2>3
  <2> HIDE DEF r, v
  <2>7. u \in WorkerStates /\ u.item = i
    BY <1>2, <2>2, <2>6 DEF WorkerStates
  <2> HIDE DEF u
  <2>8. /\ row' \in [Items -> Rows] /\ row'[i] = r
        /\ \A j \in Items : j # i => row'[j] = row[j]
        /\ SequencesAreFresh' /\ AnswersAtHandAreDurable' /\ AnswersAreDurable'
    BY <1>1, <2>2, <2>4, <2>5, DispatchRow
  <2>9. WorkersHoldItems' /\ worker' \in [Workers -> WorkerStates]
    BY <1>2, <2>2, <2>4, <2>7 DEF IInv, WorkersHoldItems, Holding
  <2>10. FactsFollowRows'
    BY <1>1, <2>2, <2>5, <2>8 DEF IInv, FactsFollowRows
  <2>11. DeadlettersExplainFailures'
    BY <1>1, <2>2, <2>5, <2>8 DEF IInv, DeadlettersExplainFailures, Items
  <2>12. TypeOK'
    BY <1>1, <2>8, <2>9 DEF IInv, TypeOK
  <2> QED
    BY <2>8, <2>9, <2>10, <2>11, <2>12 DEF IInv
<1>4. CASE row' = row /\ (IF worker[w].step < 4 THEN NextStep(w) ELSE EndBatch(w))
  <2>1. worker' \in [Workers -> WorkerStates] /\ WorkersHoldItems'
    <3>1. CASE EndBatch(w)
      BY <3>1, WorkerScans
    <3>2. CASE NextStep(w) /\ worker[w].step < 4
      <4> DEFINE n == worker[w].step + 1
                 u == [worker[w] EXCEPT !.step = n]
      <4>1. n \in 1 .. 4
        <5>1. worker[w].step \in 1 .. 4
          BY <1>2 DEF WorkerStates
        <5> QED
          BY <3>2, <5>1, SMT
      <4> HIDE DEF n
      <4>2. u \in WorkerStates /\ u.phase = worker[w].phase /\ u.item = worker[w].item
        <5> DEFINE Steps == 1 .. 4
                   Indexes == 0 .. BatchSize - 1
        <5>1. n \in Steps
          BY <4>1
        <5>2. WorkerStates =
                  [phase : {"scanning", "handling", "failing", "timing out"},
                   index : Indexes, step : Steps, item : Items \cup {0}, revision : Nat,
                   fresh : BOOLEAN]
          BY DEF WorkerStates
        <5> HIDE DEF Steps, Indexes
        <5> QED
          BY <1>2, <5>1, <5>2
      <4>3. worker' = [worker EXCEPT ![w] = u]
        BY <3>2 DEF NextStep, n
      <4> HIDE DEF u
      <4> QED
        BY <1>2, <4>2, <4>3 DEF IInv, WorkersHoldItems, Holding
    <3> QED
      BY <1>4, <3>1, <3>2
  <2>2. SequencesAreFresh' /\ AnswersAtHandAreDurable' /\ AnswersAreDurable'
    BY <1>1, <1>4, RowsUnchanged, DispatchKeepsAdmission
  <2>3. TypeOK'
    BY <1>1, <1>4, <2>1 DEF IInv, TypeOK
  <2> QED
    BY <1>1, <1>4, <2>1, <2>2, <2>3 DEF IInv, FactsFollowRows, DeadlettersExplainFailures
<1> QED
  BY <1>1, <1>3, <1>4

\* A step of a worker that leaves the rows alone.
LEMMA WorkerOnly ==
    ASSUME IInv, worker' \in [Workers -> WorkerStates], WorkersHoldItems',
           UNCHANGED <<admissionVars, facts, deadletters>>, faults' \in 0 .. MaxFaults
    PROVE  IInv'
<1>1. /\ row' = row /\ rejections' = rejections /\ conn' = conn /\ answers' = answers
      /\ stamp' = stamp
  BY DEF admissionVars
<1>2. SequencesAreFresh' /\ AnswersAtHandAreDurable' /\ AnswersAreDurable'
  BY <1>1, RowsUnchanged, DispatchKeepsAdmission
<1>3. TypeOK'
  BY <1>1 DEF IInv, TypeOK
<1> QED
  BY <1>1, <1>2, <1>3 DEF IInv, FactsFollowRows, DeadlettersExplainFailures

LEMMA CompleteStep ==
    ASSUME IInv, NEW w \in Workers, Complete(w)
    PROVE  IInv'
<1> DEFINE i == worker[w].item
<1>1. /\ i \in Items /\ row[i] \in Rows
      /\ UNCHANGED <<rejections, conn, answers, stamp, deadletters, faults>>
  BY DEF Complete, IInv, WorkersHoldItems, Holding, TypeOK
<1>2. CASE Owned(w) /\ row[i].leased
  <2> DEFINE r == Finished(row[i], "HANDLED", "none")
  <2>1. /\ row' = [row EXCEPT ![i] = r] /\ facts' = [facts EXCEPT ![i] = facts[i] + 1]
        /\ NextItem(w) /\ row[i].status = "PROCESSING"
    BY <1>2 DEF Complete, Finish, Owned
  <2>2. /\ r \in Rows /\ r.status = "HANDLED" /\ r.session = row[i].session
        /\ r.sequence = row[i].sequence
    BY <1>1, FinishedType
  <2>3. worker' \in [Workers -> WorkerStates] /\ WorkersHoldItems'
    BY <2>1, WorkerScans
  <2> HIDE DEF r, i
  <2>4. Stored(i)
    BY <2>1 DEF Stored
  <2>5. /\ row' \in [Items -> Rows] /\ row'[i] = r
        /\ \A j \in Items : j # i => row'[j] = row[j]
        /\ SequencesAreFresh' /\ AnswersAtHandAreDurable' /\ AnswersAreDurable'
    BY <1>1, <2>1, <2>2, <2>4, DispatchRow
  <2>6. facts[i] = 0 /\ facts \in [Items -> Nat]
    BY <1>1, <2>1 DEF IInv, FactsFollowRows, TypeOK
  <2>7. facts' \in [Items -> Nat] /\ facts'[i] = 1 /\ \A j \in Items : j # i => facts'[j] = facts[j]
    BY <1>1, <2>1, <2>6, SMT
  <2>8. FactsFollowRows'
    BY <1>1, <2>2, <2>5, <2>7 DEF IInv, FactsFollowRows
  <2>9. DeadlettersExplainFailures'
    BY <1>1, <2>1, <2>2, <2>5 DEF IInv, DeadlettersExplainFailures, Items
  <2>10. TypeOK'
    BY <1>1, <2>3, <2>5, <2>7 DEF IInv, TypeOK
  <2> QED
    BY <2>3, <2>5, <2>8, <2>9, <2>10 DEF IInv
<1>3. CASE ~(Owned(w) /\ row[i].leased)
  <2>1. EndBatch(w) /\ UNCHANGED <<row, facts>>
    BY <1>3 DEF Complete
  <2>2. worker' \in [Workers -> WorkerStates] /\ WorkersHoldItems'
    BY <2>1, WorkerScans
  <2> QED
    BY <1>1, <2>1, <2>2, WorkerOnly DEF admissionVars, IInv, TypeOK
<1> QED
  BY <1>2, <1>3

LEMMA GiveUpStep ==
    ASSUME IInv, NEW w \in Workers, NEW phase \in {"failing", "timing out"}, GiveUp(w, phase)
    PROVE  IInv'
<1> DEFINE f == row[worker[w].item].leased
           u == [worker[w] EXCEPT !.phase = phase, !.fresh = f]
<1>1. worker[w].item \in Items /\ worker[w] \in WorkerStates /\ worker \in [Workers -> WorkerStates]
  BY DEF GiveUp, IInv, WorkersHoldItems, Holding, TypeOK
<1>2. f \in BOOLEAN
  BY <1>1 DEF IInv, TypeOK, Rows
<1>3. worker' = [worker EXCEPT ![w] = u]
  BY DEF GiveUp
<1> HIDE DEF f
<1>4. phase \in {"scanning", "handling", "failing", "timing out"}
  OBVIOUS
<1>5. u \in WorkerStates /\ u.item = worker[w].item
  BY <1>1, <1>2, <1>4 DEF WorkerStates
<1> HIDE DEF u
<1>6. worker' \in [Workers -> WorkerStates] /\ WorkersHoldItems'
  BY <1>1, <1>3, <1>5 DEF IInv, WorkersHoldItems, Holding
<1> QED
  BY <1>6, WorkerOnly DEF GiveUp, IInv, TypeOK

LEMMA FailStep ==
    ASSUME IInv, NEW w \in Workers, Fail(w)
    PROVE  IInv'
<1> DEFINE i == worker[w].item
           e == IF worker[w].phase = "failing" THEN "handler" ELSE "timeout"
<1>1. /\ i \in Items /\ row[i] \in Rows
      /\ worker[w].phase \in {"failing", "timing out"}
      /\ deadletters' = deadletters \cup Deadletter(w)
      /\ UNCHANGED <<rejections, conn, answers, stamp, facts, faults>>
  BY DEF Fail, IInv, WorkersHoldItems, Holding, TypeOK
<1>2. CASE Owned(w) /\ worker[w].fresh
  <2> DEFINE r == Finished(row[i], "FAILED", e)
  <2>1. /\ row' = [row EXCEPT ![i] = r] /\ NextItem(w) /\ row[i].status = "PROCESSING"
    BY <1>2 DEF Fail, Finish, Owned
  <2>2. /\ r \in Rows /\ r.status = "FAILED" /\ r.session = row[i].session
        /\ r.sequence = row[i].sequence /\ r.error = e
    BY <1>1, FinishedType
  <2>3. worker' \in [Workers -> WorkerStates] /\ WorkersHoldItems'
    BY <2>1, WorkerScans
  <2>4. deadletters' = deadletters \cup (IF e = "handler" THEN {i} \cap Messages ELSE {})
    BY <1>1, <1>2 DEF Deadletter
  <2> HIDE DEF r, i, e
  <2>5. Stored(i)
    BY <2>1 DEF Stored
  <2>6. /\ row' \in [Items -> Rows] /\ row'[i] = r
        /\ \A j \in Items : j # i => row'[j] = row[j]
        /\ SequencesAreFresh' /\ AnswersAtHandAreDurable' /\ AnswersAreDurable'
    BY <1>1, <2>1, <2>2, <2>5, DispatchRow
  <2>7. FactsFollowRows'
    BY <1>1, <2>1, <2>2, <2>6 DEF IInv, FactsFollowRows
  <2>8. DeadlettersExplainFailures'
    BY <1>1, <2>1, <2>2, <2>4, <2>6 DEF IInv, DeadlettersExplainFailures, Items
  <2>9. TypeOK'
    BY <1>1, <2>3, <2>4, <2>6 DEF IInv, TypeOK
  <2> QED
    BY <2>3, <2>6, <2>7, <2>8, <2>9 DEF IInv
<1>3. CASE ~(Owned(w) /\ worker[w].fresh)
  <2>1. EndBatch(w) /\ UNCHANGED row /\ Deadletter(w) = {}
    BY <1>3 DEF Fail, Deadletter
  <2>2. worker' \in [Workers -> WorkerStates] /\ WorkersHoldItems'
    BY <2>1, WorkerScans
  <2> QED
    BY <1>1, <2>1, <2>2, WorkerOnly DEF admissionVars, IInv, TypeOK
<1> QED
  BY <1>2, <1>3

LEMMA AbortStep ==
    ASSUME IInv, NEW w \in Workers, Abort(w)
    PROVE  IInv'
<1>1. worker' \in [Workers -> WorkerStates] /\ WorkersHoldItems'
  BY WorkerScans DEF Abort
<1>2. faults' \in 0 .. MaxFaults
  BY RecoveryAssumption, SMT DEF Abort, IInv, TypeOK
<1> QED
  BY <1>1, <1>2, WorkerOnly DEF Abort

LEMMA LeaseRunsOutStep ==
    ASSUME IInv, NEW i \in Items, LeaseRunsOut(i)
    PROVE  IInv'
<1> DEFINE r == [row[i] EXCEPT !.leased = FALSE]
<1>1. /\ row[i] \in Rows /\ row[i].status = "PROCESSING" /\ row' = [row EXCEPT ![i] = r]
      /\ UNCHANGED <<rejections, conn, answers, stamp, facts, deadletters, worker>>
  BY DEF LeaseRunsOut, IInv, TypeOK
<1>2. /\ r \in Rows /\ r.status = row[i].status /\ r.error = row[i].error
      /\ r.session = row[i].session /\ r.sequence = row[i].sequence
  BY <1>1 DEF Rows
<1>3. faults' \in 0 .. MaxFaults
  BY RecoveryAssumption, SMT DEF LeaseRunsOut, IInv, TypeOK
<1> HIDE DEF r
<1>4. Stored(i)
  BY <1>1 DEF Stored
<1>5. /\ row' \in [Items -> Rows] /\ row'[i] = r
      /\ \A j \in Items : j # i => row'[j] = row[j]
      /\ SequencesAreFresh' /\ AnswersAtHandAreDurable' /\ AnswersAreDurable'
  BY <1>1, <1>2, <1>4, DispatchRow
<1>6. \A j \in Items : row'[j].status = row[j].status /\ row'[j].error = row[j].error
  BY <1>2, <1>5
<1>7. FactsFollowRows' /\ DeadlettersExplainFailures'
  BY <1>1, <1>6 DEF IInv, FactsFollowRows, DeadlettersExplainFailures, Items
<1>8. TypeOK' /\ WorkersHoldItems'
  BY <1>1, <1>3, <1>5 DEF IInv, TypeOK, WorkersHoldItems, Holding
<1> QED
  BY <1>5, <1>7, <1>8 DEF IInv

LEMMA CrashStep ==
    ASSUME IInv, Crash
    PROVE  IInv'
<1>1. /\ row' = row /\ rejections' = rejections /\ answers' = answers /\ stamp' = stamp
      /\ facts' = facts /\ deadletters' = deadletters
      /\ faults' \in 0 .. MaxFaults
      /\ worker' = [w \in Workers |-> Scanning(0)]
  BY RecoveryAssumption, SMT DEF Crash, IInv, TypeOK
<1>2. Scanning(0) \in WorkerStates /\ Scanning(0).phase = "scanning"
  BY RecoveryAssumption, SMT DEF Scanning, WorkerStates
<1>3. /\ conn' \in [Sessions -> Connections]
      /\ \A s \in Sessions : /\ conn'[s].phase \in {"unused", "closed"}
                             /\ conn'[s].last = conn[s].last
  <2>1. /\ conn' = [s \in Sessions |-> IF conn[s] = Unused THEN Unused ELSE Closed(conn[s])]
        /\ conn \in [Sessions -> Connections]
    BY DEF Crash, IInv, TypeOK
  <2>2. Unused.phase = "unused"
    BY DEF Unused
  <2> QED
    BY <2>1, <2>2, ConnectionTypes
<1>4. SequencesAreFresh' /\ AnswersAtHandAreDurable'
  BY <1>1, <1>3 DEF IInv, SequencesAreFresh, AnswersAtHandAreDurable, Stored
<1>5. AnswersAreDurable'
  BY <1>1, RowsUnchanged, AnswersStayDurable DEF IInv
<1>6. WorkersHoldItems' /\ TypeOK'
  BY <1>1, <1>2, <1>3 DEF WorkersHoldItems, Holding, IInv, TypeOK
<1> QED
  BY <1>1, <1>4, <1>5, <1>6 DEF IInv, FactsFollowRows, DeadlettersExplainFailures

LEMMA StutterStep ==
    ASSUME IInv, UNCHANGED vars
    PROVE  IInv'
<1>1. /\ UNCHANGED <<admissionVars, facts, deadletters>>
      /\ worker' = worker /\ faults' = faults
  BY DEF vars, recoveryVars
<1> QED
  BY <1>1, WorkerOnly DEF IInv, TypeOK, WorkersHoldItems, Holding

LEMMA NextStepKeepsIInv ==
    ASSUME IInv, [Next]_vars
    PROVE  IInv'
<1>1. CASE AdmissionNext /\ UNCHANGED recoveryVars
  BY <1>1, AdmissionStep
<1>2. ASSUME NEW w \in Workers, Work(w) \/ Abort(w)
      PROVE  IInv'
  BY <1>2, ClaimStep, CompleteStep, GiveUpStep, FailStep, AbortStep DEF Work
<1>3. ASSUME NEW i \in Items, LeaseRunsOut(i)
      PROVE  IInv'
  BY <1>3, LeaseRunsOutStep
<1>4. CASE Crash
  BY <1>4, CrashStep
<1>5. CASE UNCHANGED vars
  BY <1>5, StutterStep
<1> QED
  BY <1>1, <1>2, <1>3, <1>4, <1>5 DEF Next

-----------------------------------------------------------------------------
(* The theorems.                                                           *)

\* The variables keep their types, whatever is sent, crashes or comes late.
THEOREM TypeCorrect == Spec => []TypeOK
<1>1. IInv => TypeOK
  BY DEF IInv
<1> QED
  BY <1>1, InitIsIInv, NextStepKeepsIInv, PTL DEF Spec

\* An answer that reached the client is backed by the tables: the message is
\* stored, ACCEPTED names the stored sending, REJECTED a stored rejection
\* (handle_message answers only after admit_inbound has committed).
THEOREM AnsweredIsDurable == Spec => []AnswersAreDurable
<1>1. IInv => AnswersAreDurable
  BY DEF IInv
<1> QED
  BY <1>1, InitIsIInv, NextStepKeepsIInv, PTL DEF Spec

\* Deadletters and failed rows are written together (fail_terminal_inbound).
THEOREM FailureIsExplained == Spec => []DeadlettersExplainFailures
<1>1. IInv => DeadlettersExplainFailures
  BY DEF IInv
<1> QED
  BY <1>1, InitIsIInv, NextStepKeepsIInv, PTL DEF Spec

-----------------------------------------------------------------------------
(* Refinement.                                                             *)

\* A step that changes one row changes one item of the inbox.
LEMMA OneItem ==
    ASSUME TypeOK, NEW i \in Items, NEW r, row' = [row EXCEPT ![i] = r]
    PROVE  inboxState' = [inboxState EXCEPT ![i] = InboxOf(r)]
<1>1. row'[i] = r /\ \A j \in Items : j # i => row'[j] = row[j]
  BY DEF TypeOK
<1>2. InboxOf(row'[i]) = InboxOf(r) /\ \A j \in Items : j # i => InboxOf(row'[j]) = InboxOf(row[j])
  BY <1>1
<1> HIDE DEF InboxOf
<1>3. inboxState' = [j \in Items |-> InboxOf(row'[j])] /\ inboxState = [j \in Items |-> InboxOf(row[j])]
  BY DEF inboxState
<1> QED
  BY <1>2, <1>3

LEMMA NothingInInbox ==
    ASSUME row' = row, facts' = facts
    PROVE  UNCHANGED I!vars
BY DEF I!vars, inboxState

\* A new row is an admission.
LEMMA InsertAdmits ==
    ASSUME TypeOK, NEW i \in Items, NEW s, NEW q, NEW at,
           ~Stored(i), Insert(i, s, q, at), facts' = facts
    PROVE  I!Admit(i)
<1> DEFINE r == [NoRow EXCEPT !.status = "PENDING", !.session = s, !.sequence = q, !.at = at]
<1>1. row' = [row EXCEPT ![i] = r]
  BY DEF Insert
<1>2. InboxOf(r) = "waiting"
  BY DEF InboxOf, NoRow
<1>3. inboxState[i] = "absent"
  BY DEF inboxState, InboxOf, Stored
<1>4. inboxState' = [inboxState EXCEPT ![i] = InboxOf(r)]
  BY <1>1, OneItem
<1> QED
  BY <1>2, <1>3, <1>4 DEF I!Admit

LEMMA AdmissionRefines ==
    ASSUME IInv, AdmissionNext, UNCHANGED recoveryVars
    PROVE  I!Next \/ UNCHANGED I!vars
<1>1. TypeOK /\ facts' = facts
  BY DEF IInv, recoveryVars
<1>2. ASSUME NEW s \in Sessions, NEW h \in Hellos, ResumeConflicts(h, s) = {},
             Insert(h, s, 0, stamp)
      PROVE  I!Next
  <2>1. h \in Items /\ ~Stored(h)
    BY <1>2 DEF Items, ResumeConflicts
  <2> QED
    BY <1>1, <1>2, <2>1, InsertAdmits DEF I!Next
<1>3. ASSUME NEW s \in Sessions, conn[s].phase = "admitting", AdmitInbound(s)
      PROVE  I!Next \/ UNCHANGED I!vars
  <2> DEFINE m == conn[s].message
             q == conn[s].last
  <2>1. m \in Messages /\ m \in Items
    BY <1>3 DEF IInv, SequencesAreFresh, Items
  <2>2. CASE Outcome(m, s, q) = "ACCEPTED"
    <3>1. Insert(m, s, q, conn[s].at)
      BY <1>3, <2>2 DEF AdmitInbound
    <3>2. ~Stored(m)
      BY <2>1, <2>2 DEF Outcome, InboundConflicts
    <3> QED
      BY <1>1, <2>1, <3>1, <3>2, InsertAdmits DEF I!Next
  <2>3. CASE Outcome(m, s, q) # "ACCEPTED"
    BY <1>1, <1>3, <2>3, NothingInInbox DEF AdmitInbound
  <2> QED
    BY <2>2, <2>3
<1>4. CASE row' = row
  BY <1>1, <1>4, NothingInInbox
<1> QED
  BY <1>2, <1>3, <1>4 DEF AdmissionNext, Tick, Connect, Admit, AdmitUnanswered, Answer, Drop,
     ConnectWithResume, RefuseResume, ReceiveControl, Receive

LEMMA ClaimRefines ==
    ASSUME IInv, NEW w \in Workers, Claim(w)
    PROVE  UNCHANGED I!vars
<1>1. TypeOK /\ facts' = facts
  BY DEF IInv, Claim
<1>2. ASSUME NEW i \in Expired(Kind(w)) \cup NextPending(Kind(w)), ClaimOn(w, i)
      PROVE  UNCHANGED I!vars
  <2> DEFINE r == Claimed(row[i], WorkerId[w])
  <2>1. i \in Items /\ row[i].status \in {"PENDING", "PROCESSING"} /\ row[i] \in Rows
    BY Found DEF IInv, TypeOK
  <2>2. row' = [row EXCEPT ![i] = r] /\ r.status = "PROCESSING"
    BY <1>2, <2>1, ClaimedType, RecoveryAssumption DEF ClaimOn
  <2>3. InboxOf(r) = InboxOf(row[i])
    BY <2>1, <2>2 DEF InboxOf
  <2>4. inboxState' = [inboxState EXCEPT ![i] = InboxOf(r)] /\ inboxState[i] = InboxOf(row[i])
    BY <1>1, <2>1, <2>2, OneItem DEF inboxState
  <2>5. inboxState' = inboxState
    BY <2>1, <2>3, <2>4 DEF inboxState
  <2> QED
    BY <1>1, <2>5 DEF I!vars
<1>3. CASE row' = row
  BY <1>1, <1>3, NothingInInbox
<1> QED
  BY <1>2, <1>3 DEF Claim

LEMMA CompleteRefines ==
    ASSUME IInv, NEW w \in Workers, Complete(w)
    PROVE  I!Next \/ UNCHANGED I!vars
<1> DEFINE i == worker[w].item
           r == Finished(row[i], "HANDLED", "none")
<1>1. i \in Items /\ row[i] \in Rows
  BY DEF Complete, IInv, WorkersHoldItems, Holding, TypeOK
<1>2. CASE Owned(w) /\ row[i].leased
  <2>1. /\ row' = [row EXCEPT ![i] = r] /\ facts' = [facts EXCEPT ![i] = facts[i] + 1]
        /\ row[i].status = "PROCESSING" /\ r.status = "HANDLED"
    BY <1>1, <1>2, FinishedType DEF Complete, Finish, Owned
  <2> HIDE DEF i, r
  <2>2. facts' = [facts EXCEPT ![i] = 1]
    <3>1. facts[i] = 0
      BY <1>1, <2>1 DEF IInv, FactsFollowRows
    <3>2. facts[i] + 1 = 1
      BY <3>1, SMT
    <3> QED
      BY <2>1, <3>2
  <2>3. InboxOf(r) = "handled" /\ inboxState[i] = "waiting"
    BY <1>1, <2>1 DEF InboxOf, inboxState
  <2>4. inboxState' = [inboxState EXCEPT ![i] = InboxOf(r)]
    BY <1>1, <2>1, OneItem DEF IInv
  <2> QED
    BY <1>1, <2>2, <2>3, <2>4 DEF I!Next, I!Consume
<1>3. CASE ~(Owned(w) /\ row[i].leased)
  BY <1>3, NothingInInbox DEF Complete
<1> QED
  BY <1>2, <1>3

LEMMA FailRefines ==
    ASSUME IInv, NEW w \in Workers, Fail(w)
    PROVE  I!Next \/ UNCHANGED I!vars
<1> DEFINE i == worker[w].item
           r == Finished(row[i], "FAILED",
                         IF worker[w].phase = "failing" THEN "handler" ELSE "timeout")
<1>1. i \in Items /\ row[i] \in Rows /\ facts' = facts
  BY DEF Fail, IInv, WorkersHoldItems, Holding, TypeOK
<1>2. CASE Owned(w) /\ worker[w].fresh
  <2>1. /\ row' = [row EXCEPT ![i] = r] /\ row[i].status = "PROCESSING" /\ r.status = "FAILED"
    BY <1>1, <1>2, FinishedType DEF Fail, Finish, Owned
  <2> HIDE DEF i, r
  <2>2. InboxOf(r) = "failed" /\ inboxState[i] = "waiting"
    BY <1>1, <2>1 DEF InboxOf, inboxState
  <2>3. inboxState' = [inboxState EXCEPT ![i] = InboxOf(r)]
    BY <1>1, <2>1, OneItem DEF IInv
  <2> QED
    BY <1>1, <2>2, <2>3 DEF I!Next, I!GiveUp
<1>3. CASE ~(Owned(w) /\ worker[w].fresh)
  BY <1>1, <1>3, NothingInInbox DEF Fail
<1> QED
  BY <1>2, <1>3

LEMMA LeaseRefines ==
    ASSUME IInv, NEW i \in Items, LeaseRunsOut(i)
    PROVE  UNCHANGED I!vars
<1> DEFINE r == [row[i] EXCEPT !.leased = FALSE]
<1>1. row[i] \in Rows /\ row' = [row EXCEPT ![i] = r] /\ facts' = facts /\ TypeOK
  BY DEF LeaseRunsOut, IInv, TypeOK
<1>2. r.status = row[i].status
  BY <1>1 DEF Rows
<1>3. InboxOf(r) = InboxOf(row[i])
  BY <1>2 DEF InboxOf
<1>4. inboxState' = inboxState
  BY <1>1, <1>3, OneItem, SMT DEF inboxState
<1> QED
  BY <1>1, <1>4 DEF I!vars

\* Admission and dispatch implement the inbox: whatever is sent again, crashes,
\* fails or comes late, an admitted item is consumed once or given up, and its
\* facts are committed only when it is consumed.
THEOREM ImplementsInbox == Spec => InboxSpec
<1>1. Init => I!Init
  BY SMT DEF Init, AdmissionInit, I!Init, inboxState, InboxOf, NoRow
<1>2. ASSUME IInv, [Next]_vars
      PROVE  [I!Next]_(I!vars)
  <2>1. CASE AdmissionNext /\ UNCHANGED recoveryVars
    BY <1>2, <2>1, AdmissionRefines
  <2>2. ASSUME NEW w \in Workers, Work(w) \/ Abort(w)
        PROVE  [I!Next]_(I!vars)
    <3>1. CASE Claim(w)
      BY <1>2, <3>1, ClaimRefines
    <3>2. CASE Complete(w)
      BY <1>2, <3>2, CompleteRefines
    <3>3. CASE GiveUp(w, "failing") \/ GiveUp(w, "timing out") \/ Abort(w)
      BY <3>3, NothingInInbox DEF GiveUp, Abort, admissionVars
    <3>4. CASE Fail(w)
      BY <1>2, <3>4, FailRefines
    <3> QED
      BY <2>2, <3>1, <3>2, <3>3, <3>4 DEF Work
  <2>3. ASSUME NEW i \in Items, LeaseRunsOut(i)
        PROVE  [I!Next]_(I!vars)
    BY <1>2, <2>3, LeaseRefines
  <2>4. CASE Crash \/ UNCHANGED vars
    BY <2>4, NothingInInbox DEF Crash, vars, admissionVars, recoveryVars
  <2> QED
    BY <1>2, <2>1, <2>2, <2>3, <2>4 DEF Next
<1> QED
  BY <1>1, <1>2, InitIsIInv, NextStepKeepsIInv, PTL DEF Spec, InboxSpec, I!Spec

-----------------------------------------------------------------------------
(* The order of a session, for one dispatcher.                             *)

\* A connection reads the clock when a message comes in: what is stored of a session was
\* received no later than the message at hand.
ReceivedInTime ==
    \A s \in Sessions :
        /\ conn[s].phase = "admitting" => conn[s].at <= stamp
        /\ \A m \in Messages : Stored(m) /\ row[m].session = s =>
               /\ row[m].at <= stamp
               /\ conn[s].phase = "admitting" => row[m].at <= conn[s].at

\* A row in PROCESSING is in the hands of a worker, who still owns it.
LeasesAreHeld ==
    /\ \A i \in Items : row[i].status = "PROCESSING" =>
           \E w \in Workers : Holding(w) /\ worker[w].item = i
    /\ \A w \in Workers : Holding(w) =>
           /\ Owned(w) /\ row[worker[w].item].leased
           /\ worker[w].phase # "handling" => worker[w].fresh

\* SessionOrder, with the row that is being handled.
TakenInOrder ==
    \A m, n \in Messages :
        /\ Stored(m) /\ Stored(n)
        /\ row[m].session = row[n].session /\ row[m].at < row[n].at
        /\ row[n].status \in {"PROCESSING", "HANDLED", "FAILED"}
        => row[m].status \in {"HANDLED", "FAILED"}

OrderInv == ReceivedInTime /\ (faults = MaxFaults => LeasesAreHeld /\ TakenInOrder)

\* What the claim and the end of a row change of it, and what not.
LEMMA ClaimedFields ==
    ASSUME NEW r \in Rows, NEW id
    PROVE  /\ Claimed(r, id).status = "PROCESSING" /\ Claimed(r, id).owner = id
           /\ Claimed(r, id).leased = TRUE /\ Claimed(r, id).revision = r.revision + 1
           /\ Claimed(r, id).session = r.session /\ Claimed(r, id).at = r.at
BY DEF Claimed, Rows

LEMMA FinishedFields ==
    ASSUME NEW r \in Rows, NEW status, NEW error
    PROVE  /\ Finished(r, status, error).status = status
           /\ Finished(r, status, error).session = r.session
           /\ Finished(r, status, error).at = r.at
BY DEF Finished, Rows

LEMMA InsertedFields ==
    ASSUME TypeOK, NEW i \in Items, NEW s, NEW q, NEW at, Insert(i, s, q, at)
    PROVE  /\ row'[i].status = "PENDING" /\ row'[i].session = s /\ row'[i].at = at
           /\ \A j \in Items : j # i => row'[j] = row[j]
<1> DEFINE new == [NoRow EXCEPT !.status = "PENDING", !.session = s, !.sequence = q, !.at = at]
<1>1. new.status = "PENDING" /\ new.session = s /\ new.at = at
  BY DEF NoRow
<1>2. row' = [row EXCEPT ![i] = new]
  BY DEF Insert
<1> HIDE DEF new
<1> QED
  BY <1>1, <1>2 DEF TypeOK

\* Of the messages nothing is stored, and session and time of what is stored stay.
ReceiptsStay ==
    \A m \in Messages : Stored(m)' =>
        Stored(m) /\ row'[m].session = row[m].session /\ row'[m].at = row[m].at

LEMMA ReceiptsUnchanged == ASSUME row' = row PROVE ReceiptsStay
BY DEF ReceiptsStay, Stored

\* A step that stores no message and hands a connection none but one received now.
LEMMA ReceivedStays ==
    ASSUME TypeOK, TypeOK', ReceivedInTime, ReceiptsStay, stamp <= stamp',
           \A s \in Sessions : conn'[s].phase = "admitting" =>
               conn'[s] = conn[s] \/ (conn'[s].at = stamp /\ stamp' = stamp)
    PROVE  ReceivedInTime'
<1> SUFFICES ASSUME NEW s \in Sessions
             PROVE  /\ conn'[s].phase = "admitting" => conn'[s].at <= stamp'
                    /\ \A m \in Messages : Stored(m)' /\ row'[m].session = s =>
                           /\ row'[m].at <= stamp'
                           /\ conn'[s].phase = "admitting" => row'[m].at <= conn'[s].at
  BY DEF ReceivedInTime
<1>1. /\ stamp \in Nat /\ stamp' \in Nat
      /\ conn[s].at \in Nat /\ conn'[s].at \in Nat
      /\ \A m \in Messages : row[m].at \in Nat
  BY SMT DEF TypeOK, Connections, Rows, Items
<1>2. conn'[s].phase = "admitting" => conn'[s].at <= stamp'
  BY <1>1, SMT DEF ReceivedInTime
<1>3. ASSUME NEW m \in Messages, Stored(m)', row'[m].session = s
      PROVE  /\ row'[m].at <= stamp'
             /\ conn'[s].phase = "admitting" => row'[m].at <= conn'[s].at
  <2>1. Stored(m) /\ row[m].session = s /\ row'[m].at = row[m].at
    BY <1>3 DEF ReceiptsStay
  <2>2. row[m].at <= stamp /\ (conn[s].phase = "admitting" => row[m].at <= conn[s].at)
    BY <2>1 DEF ReceivedInTime
  <2> QED
    BY <1>1, <2>1, <2>2, SMT
<1> QED
  BY <1>2, <1>3

\* A message is stored when its connection has it at hand, with the time it was received at.
LEMMA ReceivedAdmitted ==
    ASSUME IInv, TypeOK', ReceivedInTime, NEW s \in Sessions, conn[s].phase = "admitting",
           AdmitInbound(s), NEW c, c.phase # "admitting", conn' = [conn EXCEPT ![s] = c],
           stamp' = stamp
    PROVE  ReceivedInTime'
<1>1. \A t \in Sessions : conn'[t].phase = "admitting" => t # s /\ conn'[t] = conn[t]
  BY DEF IInv, TypeOK
<1>2. CASE row' = row
  BY <1>1, <1>2, ReceivedStays, ReceiptsUnchanged, SMT DEF IInv, TypeOK
<1>3. CASE Insert(conn[s].message, s, conn[s].last, conn[s].at)
  <2>1. conn[s].message \in Messages /\ conn[s].message \in Items
    BY DEF IInv, SequencesAreFresh, Items
  <2>2. PICK m \in Messages : m = conn[s].message /\ m \in Items
    BY <2>1
  <2>3. /\ row'[m].session = s /\ row'[m].at = conn[s].at
        /\ \A j \in Items : j # m => row'[j] = row[j]
    BY <1>3, <2>2, InsertedFields, SMT DEF IInv
  <2> SUFFICES ASSUME NEW t \in Sessions
               PROVE  /\ conn'[t].phase = "admitting" => conn'[t].at <= stamp'
                      /\ \A n \in Messages : Stored(n)' /\ row'[n].session = t =>
                             /\ row'[n].at <= stamp'
                             /\ conn'[t].phase = "admitting" => row'[n].at <= conn'[t].at
    BY DEF ReceivedInTime
  <2>4. conn'[t].phase = "admitting" => conn'[t].at <= stamp'
    BY <1>1 DEF ReceivedInTime
  <2>5. ASSUME NEW n \in Messages, Stored(n)', row'[n].session = t
        PROVE  /\ row'[n].at <= stamp'
               /\ conn'[t].phase = "admitting" => row'[n].at <= conn'[t].at
    <3>1. CASE n = m
      BY <1>1, <2>3, <2>5, <3>1 DEF ReceivedInTime
    <3>2. CASE n # m
      <4>1. row'[n] = row[n]
        BY <2>3, <3>2 DEF Items
      <4> QED
        BY <1>1, <2>5, <4>1 DEF ReceivedInTime, Stored
    <3> QED
      BY <3>1, <3>2
  <2> QED
    BY <2>4, <2>5
<1> QED
  BY <1>2, <1>3 DEF AdmitInbound

\* The connections receive in time.
LEMMA AdmissionReceives ==
    ASSUME IInv, IInv', ReceivedInTime, AdmissionNext
    PROVE  ReceivedInTime'
<1> USE DEF IInv
<1>1. stamp \in Nat /\ conn \in [Sessions -> Connections]
  BY SMT DEF TypeOK
<1>2. CASE Tick
  BY <1>1, <1>2, ReceivedStays, ReceiptsUnchanged, SMT DEF Tick
<1>3. ASSUME NEW s \in Sessions, NEW c, conn' = [conn EXCEPT ![s] = c], c.phase # "admitting",
             row' = row, stamp' = stamp
      PROVE  ReceivedInTime'
  <2>1. \A t \in Sessions : conn'[t].phase = "admitting" => conn'[t] = conn[t]
    BY <1>1, <1>3
  <2> QED
    BY <1>1, <1>3, <2>1, ReceivedStays, ReceiptsUnchanged, SMT
<1>4. ASSUME NEW s \in Sessions, Connect(s) \/ Answer(s) \/ Drop(s)
      PROVE  ReceivedInTime'
  <2>1. conn[s] \in Connections /\ conn[s].last \in Nat
    BY <1>1 DEF Connections
  <2> QED
    BY <1>3, <1>4, <2>1, ConnectionTypes, SMT DEF Connect, Answer, Drop
<1>5. ASSUME NEW s \in Sessions, NEW q \in 1 .. MaxSequence, ReceiveControl(s, q)
      PROVE  ReceivedInTime'
  <2>1. q \in Nat
    BY SMT
  <2> QED
    BY <1>3, <1>5, <2>1, ConnectionTypes DEF ReceiveControl
<1>6. ASSUME NEW s \in Sessions, NEW h \in Hellos, ConnectWithResume(s, h) \/ RefuseResume(s, h)
      PROVE  ReceivedInTime'
  <2>1. PICK c : conn' = [conn EXCEPT ![s] = c] /\ c.phase # "admitting"
    BY <1>6, ConnectionTypes, SMT DEF ConnectWithResume, RefuseResume
  <2>2. stamp' = stamp
    BY <1>6 DEF ConnectWithResume, RefuseResume
  <2>3. CASE row' = row
    BY <1>3, <2>1, <2>2, <2>3
  <2>4. CASE Insert(h, s, 0, stamp)
    <3>1. \A m \in Messages : row'[m] = row[m]
      BY <2>4, InsertedFields, AdmissionAssumption DEF Items
    <3>2. ReceiptsStay
      BY <3>1 DEF ReceiptsStay, Stored
    <3>3. \A t \in Sessions : conn'[t].phase = "admitting" => conn'[t] = conn[t]
      BY <1>1, <2>1
    <3> QED
      BY <1>1, <2>2, <3>2, <3>3, ReceivedStays, SMT
  <2> QED
    BY <1>6, <2>3, <2>4 DEF ConnectWithResume, RefuseResume
<1>7. ASSUME NEW s \in Sessions, NEW q \in 1 .. MaxSequence, NEW m \in Messages, Receive(s, m, q)
      PROVE  ReceivedInTime'
  <2>1. PICK c : /\ c = [Open(q) EXCEPT !.phase = "admitting", !.message = m, !.at = stamp]
                 /\ conn' = [conn EXCEPT ![s] = c]
    BY <1>7 DEF Receive
  <2>2. c.at = stamp
    BY <2>1 DEF Open, Unused
  <2>3. \A t \in Sessions : conn'[t] = conn[t] \/ conn'[t].at = stamp
    BY <1>1, <2>1, <2>2
  <2> QED
    BY <1>1, <1>7, <2>3, ReceivedStays, ReceiptsUnchanged, SMT DEF Receive
<1>8. ASSUME NEW s \in Sessions, Admit(s) \/ AdmitUnanswered(s)
      PROVE  ReceivedInTime'
  <2>1. conn[s] \in Connections /\ conn[s].last \in Nat
    BY <1>1 DEF Connections
  <2>2. PICK c : conn' = [conn EXCEPT ![s] = c] /\ c.phase # "admitting"
    <3>1. CASE Admit(s)
      <4>1. CASE conn[s].message \in Silent
        BY <2>1, <3>1, <4>1, ConnectionTypes DEF Admit
      <4>2. CASE conn[s].message \notin Silent
        <5>1. PICK c : c = [conn[s] EXCEPT !.phase = "answering",
                                !.answer = Outcome(conn[s].message, s, conn[s].last)]
          OBVIOUS
        <5>2. c.phase = "answering"
          BY <2>1, <5>1 DEF Connections
        <5> QED
          BY <3>1, <4>2, <5>1, <5>2 DEF Admit
      <4> QED
        BY <4>1, <4>2
    <3>2. CASE AdmitUnanswered(s)
      BY <2>1, <3>2, ConnectionTypes DEF AdmitUnanswered
    <3> QED
      BY <1>8, <3>1, <3>2
  <2>3. conn[s].phase = "admitting" /\ AdmitInbound(s) /\ stamp' = stamp
    BY <1>8 DEF Admit, AdmitUnanswered
  <2> QED
    BY <2>2, <2>3, ReceivedAdmitted
<1> QED
  BY <1>2, <1>4, <1>5, <1>6, <1>7, <1>8 DEF AdmissionNext

\* One row of the dispatcher changes, and keeps session and time.
LEMMA OneRowStays ==
    ASSUME TypeOK, NEW i \in Items, Stored(i), NEW r, row' = [row EXCEPT ![i] = r],
           r.session = row[i].session, r.at = row[i].at
    PROVE  /\ row'[i] = r /\ \A j \in Items : j # i => row'[j] = row[j]
           /\ ReceiptsStay
<1>1. row'[i] = r /\ \A j \in Items : j # i => row'[j] = row[j]
  BY DEF TypeOK
<1> QED
  BY <1>1 DEF ReceiptsStay, Stored, Items

\* What a worker does to the row of its item.
LEMMA WorkOnRows ==
    ASSUME IInv, NEW w \in Workers, Work(w) \/ Abort(w)
    PROVE  ReceiptsStay /\ UNCHANGED <<conn, stamp>>
<1> USE DEF IInv
<1>1. UNCHANGED <<conn, stamp>>
  BY DEF Work, Claim, Complete, GiveUp, Fail, Abort, admissionVars
<1>2. CASE row' = row
  BY <1>1, <1>2, ReceiptsUnchanged
<1>3. ASSUME NEW i \in Expired(Kind(w)) \cup NextPending(Kind(w)), ClaimOn(w, i)
      PROVE  ReceiptsStay
  <2>1. i \in Items /\ Stored(i) /\ row[i] \in Rows
    BY <1>3, Found DEF TypeOK
  <2>2. PICK r : r = Claimed(row[i], WorkerId[w]) /\ row' = [row EXCEPT ![i] = r]
    BY <1>3 DEF ClaimOn
  <2>3. r.session = row[i].session /\ r.at = row[i].at
    BY <2>1, <2>2, ClaimedFields
  <2> QED
    BY <2>1, <2>2, <2>3, OneRowStays
<1>4. ASSUME NEW st, NEW e, Holding(w), Owned(w), Finish(w, st, e)
      PROVE  ReceiptsStay
  <2>1. PICK i \in Items : i = worker[w].item
    BY <1>4 DEF WorkersHoldItems
  <2>2. row[i] \in Rows /\ Stored(i)
    BY <1>4, <2>1 DEF TypeOK, Owned, Stored
  <2>3. PICK r : r = Finished(row[i], st, e) /\ row' = [row EXCEPT ![i] = r]
    BY <1>4, <2>1 DEF Finish
  <2>4. r.session = row[i].session /\ r.at = row[i].at
    BY <2>2, <2>3, FinishedFields, SMT
  <2> QED
    BY <2>1, <2>2, <2>3, <2>4, OneRowStays
<1>5. CASE Claim(w)
  BY <1>1, <1>2, <1>3, <1>5 DEF Claim
<1>6. CASE Complete(w)
  BY <1>1, <1>2, <1>4, <1>6 DEF Complete, Holding
<1>7. CASE Fail(w)
  BY <1>1, <1>2, <1>4, <1>7 DEF Fail, Holding
<1>8. CASE GiveUp(w, "failing") \/ GiveUp(w, "timing out") \/ Abort(w)
  BY <1>2, <1>8 DEF GiveUp, Abort, admissionVars
<1> QED
  BY <1>1, <1>5, <1>6, <1>7, <1>8 DEF Work

\* Every step receives in time.
LEMMA ReceivedStep ==
    ASSUME IInv, IInv', ReceivedInTime, [Next]_vars
    PROVE  ReceivedInTime'
<1> USE DEF IInv
<1>1. stamp \in Nat
  BY SMT DEF TypeOK
<1>2. ASSUME ReceiptsStay, UNCHANGED <<conn, stamp>>
      PROVE  ReceivedInTime'
  BY <1>1, <1>2, ReceivedStays, SMT
<1>3. ASSUME NEW w \in Workers, Work(w) \/ Abort(w)
      PROVE  ReceivedInTime'
  BY <1>2, <1>3, WorkOnRows
<1>4. ASSUME NEW i \in Items, LeaseRunsOut(i)
      PROVE  ReceivedInTime'
  <2>1. row[i] \in Rows /\ Stored(i) /\ UNCHANGED <<conn, stamp>>
    BY <1>4 DEF LeaseRunsOut, TypeOK, Stored
  <2>2. PICK r : r = [row[i] EXCEPT !.leased = FALSE] /\ row' = [row EXCEPT ![i] = r]
    BY <1>4 DEF LeaseRunsOut
  <2>3. r.session = row[i].session /\ r.at = row[i].at
    BY <2>1, <2>2 DEF Rows
  <2> QED
    BY <1>2, <2>1, <2>2, <2>3, OneRowStays
<1>5. CASE Crash
  <2>1. \A s \in Sessions : conn'[s].phase # "admitting"
    BY <1>5, ConnectionTypes DEF Crash, TypeOK, Unused
  <2> QED
    BY <1>1, <1>5, <2>1, ReceivedStays, ReceiptsUnchanged, SMT DEF Crash
<1>6. CASE UNCHANGED vars
  BY <1>2, <1>6, ReceiptsUnchanged DEF vars, admissionVars
<1> QED
  BY <1>3, <1>4, <1>5, <1>6, AdmissionReceives DEF Next

\* A row that is taken out of PROCESSING, or was never in it, and the worker scans on.
LEMMA ItemFinished ==
    ASSUME \A v, w \in Workers : v = w, IInv, LeasesAreHeld, TakenInOrder,
           NEW w \in Workers, Holding(w), NEW st \in {"HANDLED", "FAILED"}, NEW e,
           Finish(w, st, e), NextItem(w)
    PROVE  LeasesAreHeld' /\ TakenInOrder'
<1> USE DEF IInv
<1>1. PICK i \in Items : i = worker[w].item
  BY DEF WorkersHoldItems
<1>2. row[i] \in Rows /\ row[i].status = "PROCESSING"
  BY <1>1 DEF TypeOK, LeasesAreHeld, Owned
<1>3. PICK r : r = Finished(row[i], st, e) /\ row' = [row EXCEPT ![i] = r]
  BY <1>1 DEF Finish
<1>4. r.status = st /\ r.session = row[i].session /\ r.at = row[i].at
  BY <1>2, <1>3, FinishedFields, SMT
<1>5. row'[i] = r /\ \A j \in Items : j # i => row'[j] = row[j]
  BY <1>3 DEF TypeOK
<1>6. \A v \in Workers : ~Holding(v)'
  <2>1. PICK n : worker' = [worker EXCEPT ![w] = Scanning(n)]
    BY DEF NextItem
  <2>2. worker'[w].phase = "scanning"
    BY <2>1 DEF TypeOK, Scanning
  <2> QED
    BY <2>2 DEF Holding
<1>7. \A j \in Items : row'[j].status # "PROCESSING"
  BY <1>1, <1>4, <1>5 DEF LeasesAreHeld
<1>8. LeasesAreHeld'
  BY <1>6, <1>7 DEF LeasesAreHeld
<1>9. TakenInOrder'
  <2> SUFFICES ASSUME NEW m \in Messages, NEW n \in Messages, Stored(m)', Stored(n)',
                      row'[m].session = row'[n].session, row'[m].at < row'[n].at,
                      row'[n].status \in {"PROCESSING", "HANDLED", "FAILED"}
               PROVE  row'[m].status \in {"HANDLED", "FAILED"}
    BY DEF TakenInOrder
  <2>1. m \in Items /\ n \in Items
    BY DEF Items
  <2>2. /\ Stored(m) /\ row[m].session = row'[m].session /\ row[m].at = row'[m].at
        /\ Stored(n) /\ row[n].session = row'[n].session /\ row[n].at = row'[n].at
        /\ row[n].status \in {"PROCESSING", "HANDLED", "FAILED"}
    BY <1>2, <1>4, <1>5, <2>1 DEF Stored
  <2>3. row[m].status \in {"HANDLED", "FAILED"}
    BY <2>2 DEF TakenInOrder
  <2> QED
    BY <1>2, <1>5, <2>1, <2>3
<1> QED
  BY <1>8, <1>9

\* The one dispatcher takes the next pending row.
LEMMA ClaimInOrder ==
    ASSUME \A v, w \in Workers : v = w, IInv, LeasesAreHeld, TakenInOrder,
           NEW w \in Workers, Claim(w)
    PROVE  LeasesAreHeld' /\ TakenInOrder'
<1> USE DEF IInv
<1>1. (\A v \in Workers : ~Holding(v)) /\ \A j \in Items : row[j].status # "PROCESSING"
  BY DEF Claim, LeasesAreHeld
<1>2. CASE row' = row /\ (NextStep(w) \/ EndBatch(w))
  <2>1. worker'[w].phase = "scanning"
    <3>1. CASE EndBatch(w)
      BY <3>1 DEF EndBatch, Scanning, TypeOK
    <3>2. CASE NextStep(w)
      <4>1. PICK u : u = [worker[w] EXCEPT !.step = worker[w].step + 1]
                     /\ worker' = [worker EXCEPT ![w] = u]
        BY <3>2 DEF NextStep
      <4>2. u.phase = "scanning"
        BY <1>1, <4>1 DEF TypeOK, WorkerStates, Holding
      <4> QED
        BY <4>1, <4>2 DEF TypeOK
    <3> QED
      BY <1>2, <3>1, <3>2
  <2>2. \A v \in Workers : ~Holding(v)'
    BY <2>1 DEF Holding
  <2>3. LeasesAreHeld'
    BY <1>1, <1>2, <2>2 DEF LeasesAreHeld
  <2>4. TakenInOrder'
    BY <1>2 DEF TakenInOrder, Stored
  <2> QED
    BY <2>3, <2>4
<1>3. ASSUME NEW i \in Expired(Kind(w)) \cup NextPending(Kind(w)), ClaimOn(w, i)
      PROVE  LeasesAreHeld' /\ TakenInOrder'
  <2>1. i \in Items /\ row[i] \in Rows
    BY <1>3, Found DEF TypeOK
  <2>2. i \in NextPending(Kind(w)) /\ row[i].status = "PENDING"
    BY <1>1, <1>3, <2>1 DEF Expired, NextPending, Pending
  <2>3. PICK r : r = Claimed(row[i], WorkerId[w]) /\ row' = [row EXCEPT ![i] = r]
    BY <1>3 DEF ClaimOn
  <2>4. /\ r.status = "PROCESSING" /\ r.owner = WorkerId[w] /\ r.leased
        /\ r.revision = row[i].revision + 1 /\ r.session = row[i].session /\ r.at = row[i].at
    BY <2>1, <2>3, ClaimedFields
  <2>5. row'[i] = r /\ \A j \in Items : j # i => row'[j] = row[j]
    BY <2>1, <2>3 DEF TypeOK
  <2>6. PICK u : /\ u = [worker[w] EXCEPT !.phase = "handling", !.item = i,
                                          !.revision = row[i].revision + 1]
                 /\ worker' = [worker EXCEPT ![w] = u]
    BY <1>3 DEF ClaimOn
  <2>7. /\ worker'[w].phase = "handling" /\ worker'[w].item = i
        /\ worker'[w].revision = row[i].revision + 1
    BY <2>6 DEF TypeOK, WorkerStates
  <2>8. Holding(w)' /\ Owned(w)' /\ row'[i].leased
    BY <2>4, <2>5, <2>7 DEF Holding, Owned
  <2>9. LeasesAreHeld'
    <3>1. \A j \in Items : row'[j].status = "PROCESSING" => j = i
      BY <1>1, <2>5
    <3> QED
      BY <2>7, <2>8, <3>1 DEF LeasesAreHeld
  <2>10. TakenInOrder'
    <3> SUFFICES ASSUME NEW m \in Messages, NEW n \in Messages, Stored(m)', Stored(n)',
                        row'[m].session = row'[n].session, row'[m].at < row'[n].at,
                        row'[n].status \in {"PROCESSING", "HANDLED", "FAILED"}
                 PROVE  row'[m].status \in {"HANDLED", "FAILED"}
      BY DEF TakenInOrder
    <3>1. m \in Items /\ n \in Items
      BY DEF Items
    <3>2. /\ Stored(m) /\ row[m].session = row'[m].session /\ row[m].at = row'[m].at
          /\ Stored(n) /\ row[n].session = row'[n].session /\ row[n].at = row'[n].at
      BY <2>2, <2>4, <2>5, <3>1 DEF Stored
    <3>3. row[m].at \in Nat /\ row[n].at \in Nat
      BY <3>1 DEF TypeOK, Rows
    <3>4. CASE n = i
      <4>1. Kind(w) = Messages
        BY <2>2, <3>4, AdmissionAssumption DEF Kind, NextPending, Pending
      <4>2. m \notin Pending(Messages)
        BY <2>2, <3>2, <3>3, <3>4, <4>1, SMT DEF NextPending
      <4>3. row[m].status \in {"HANDLED", "FAILED"}
        BY <1>1, <3>1, <3>2, <4>2 DEF Pending, Stored, TypeOK, Rows
      <4> QED
        BY <2>2, <2>5, <3>1, <4>3
    <3>5. CASE n # i
      <4>1. row[m].status \in {"HANDLED", "FAILED"}
        BY <2>5, <3>1, <3>2, <3>5 DEF TakenInOrder
      <4> QED
        BY <2>2, <2>5, <3>1, <4>1
    <3> QED
      BY <3>4, <3>5
  <2> QED
    BY <2>9, <2>10
<1> QED
  BY <1>2, <1>3 DEF Claim

\* Every other step of the dispatcher finishes the item it holds, or reads the clock.
LEMMA WorkInOrder ==
    ASSUME \A v, w \in Workers : v = w, IInv, LeasesAreHeld, TakenInOrder,
           NEW w \in Workers, Work(w)
    PROVE  LeasesAreHeld' /\ TakenInOrder'
<1> USE DEF IInv
<1>1. CASE Complete(w)
  <2>1. Holding(w) /\ Owned(w) /\ row[worker[w].item].leased
    BY <1>1 DEF Complete, Holding, LeasesAreHeld
  <2> QED
    BY <1>1, <2>1, ItemFinished DEF Complete
<1>2. CASE Fail(w)
  <2>1. Holding(w) /\ Owned(w) /\ worker[w].fresh
    BY <1>2 DEF Fail, Holding, LeasesAreHeld
  <2> QED
    BY <1>2, <2>1, ItemFinished DEF Fail
<1>3. ASSUME NEW phase \in {"failing", "timing out"}, GiveUp(w, phase)
      PROVE  LeasesAreHeld' /\ TakenInOrder'
  <2>1. Holding(w) /\ Owned(w) /\ row[worker[w].item].leased /\ row' = row
    BY <1>3 DEF GiveUp, Holding, LeasesAreHeld, admissionVars
  <2>2. PICK u : /\ u = [worker[w] EXCEPT !.phase = phase, !.fresh = row[worker[w].item].leased]
                 /\ worker' = [worker EXCEPT ![w] = u]
    BY <1>3 DEF GiveUp
  <2>3. /\ worker'[w].phase = phase /\ worker'[w].fresh = row[worker[w].item].leased
        /\ worker'[w].item = worker[w].item /\ worker'[w].revision = worker[w].revision
    BY <2>2 DEF TypeOK, WorkerStates
  <2>4. Holding(w)' /\ Owned(w)' /\ row'[worker'[w].item].leased /\ worker'[w].fresh
    BY <2>1, <2>3 DEF Holding, Owned
  <2>5. LeasesAreHeld'
    BY <2>1, <2>3, <2>4 DEF LeasesAreHeld
  <2>6. TakenInOrder'
    BY <2>1 DEF TakenInOrder, Stored
  <2> QED
    BY <2>5, <2>6
<1> QED
  BY <1>1, <1>2, <1>3, ClaimInOrder DEF Work

\* A message that is stored now was received after what is stored of its session.
LEMMA InsertInOrder ==
    ASSUME IInv, LeasesAreHeld, TakenInOrder, worker' = worker,
           NEW i \in Items, ~Stored(i), NEW s, NEW q, NEW at \in Nat, Insert(i, s, q, at),
           i \in Messages => \A n \in Messages : Stored(n) /\ row[n].session = s => row[n].at <= at
    PROVE  LeasesAreHeld' /\ TakenInOrder'
<1> USE DEF IInv
<1>1. /\ row'[i].status = "PENDING" /\ row'[i].session = s /\ row'[i].at = at
      /\ \A j \in Items : j # i => row'[j] = row[j]
  BY InsertedFields
<1>2. LeasesAreHeld'
  <2>1. \A w \in Workers : Holding(w) => worker[w].item \in Items /\ worker[w].item # i
    BY DEF LeasesAreHeld, Owned, Stored, WorkersHoldItems
  <2>2. \A w \in Workers : Holding(w) => row'[worker[w].item] = row[worker[w].item]
    BY <1>1, <2>1
  <2>3. \A w \in Workers : Holding(w)' <=> Holding(w)
    BY DEF Holding
  <2>4. ASSUME NEW w \in Workers, Holding(w)'
        PROVE  /\ Owned(w)' /\ row'[worker'[w].item].leased
               /\ worker'[w].phase # "handling" => worker'[w].fresh
    BY <2>2, <2>3, <2>4, SMT DEF LeasesAreHeld, Owned
  <2>5. ASSUME NEW j \in Items, row'[j].status = "PROCESSING"
        PROVE  \E w \in Workers : Holding(w)' /\ worker'[w].item = j
    BY <1>1, <2>3, <2>5 DEF LeasesAreHeld
  <2> QED
    BY <2>4, <2>5 DEF LeasesAreHeld
<1>3. TakenInOrder'
  <2> SUFFICES ASSUME NEW m \in Messages, NEW n \in Messages, Stored(m)', Stored(n)',
                      row'[m].session = row'[n].session, row'[m].at < row'[n].at,
                      row'[n].status \in {"PROCESSING", "HANDLED", "FAILED"}
               PROVE  row'[m].status \in {"HANDLED", "FAILED"}
    BY DEF TakenInOrder
  <2>1. m \in Items /\ n \in Items /\ row'[n] = row[n] /\ Stored(n) /\ row[n].at \in Nat
    BY <1>1 DEF Items, Stored, TypeOK, Rows
  <2>2. m # i
    BY <1>1, <2>1, SMT
  <2>3. row'[m] = row[m] /\ Stored(m)
    BY <1>1, <2>1, <2>2 DEF Stored
  <2> QED
    BY <2>1, <2>3 DEF TakenInOrder
<1> QED
  BY <1>2, <1>3

\* So whatever the connections do, the order stays.
LEMMA AdmissionInOrder ==
    ASSUME IInv, ReceivedInTime, LeasesAreHeld, TakenInOrder, AdmissionNext, worker' = worker
    PROVE  LeasesAreHeld' /\ TakenInOrder'
<1> USE DEF IInv
<1>1. CASE row' = row
  BY <1>1, SMT DEF LeasesAreHeld, TakenInOrder, Holding, Owned, Stored
<1>2. ASSUME NEW s \in Sessions, NEW h \in Hellos, ResumeConflicts(h, s) = {},
             Insert(h, s, 0, stamp)
      PROVE  LeasesAreHeld' /\ TakenInOrder'
  <2>1. h \in Items /\ h \notin Messages /\ ~Stored(h) /\ stamp \in Nat
    BY <1>2, AdmissionAssumption, SMT DEF Items, ResumeConflicts, TypeOK
  <2> QED
    BY <1>2, <2>1, InsertInOrder
<1>3. ASSUME NEW s \in Sessions, conn[s].phase = "admitting", AdmitInbound(s), row' # row
      PROVE  LeasesAreHeld' /\ TakenInOrder'
  <2>1. PICK m \in Messages : m = conn[s].message
    BY <1>3 DEF SequencesAreFresh
  <2>2. PICK q : q = conn[s].last
    OBVIOUS
  <2>3. Outcome(m, s, q) = "ACCEPTED" /\ Insert(m, s, q, conn[s].at)
    BY <1>3, <2>1, <2>2 DEF AdmitInbound
  <2>4. ~Stored(m)
    BY <2>3 DEF Outcome, InboundConflicts
  <2>5. conn[s].at \in Nat /\ m \in Items
    BY DEF TypeOK, Connections, Items
  <2>6. \A n \in Messages : Stored(n) /\ row[n].session = s => row[n].at <= conn[s].at
    BY <1>3 DEF ReceivedInTime
  <2> QED
    BY <2>3, <2>4, <2>5, <2>6, InsertInOrder
<1> QED
  BY <1>1, <1>2, <1>3
     DEF AdmissionNext, Tick, Connect, Admit, AdmitUnanswered, Answer, Drop, ConnectWithResume,
         RefuseResume, ReceiveControl, Receive

\* Steps without a fault keep the order.
LEMMA OrderStep ==
    ASSUME \A v, w \in Workers : v = w, IInv, IInv', OrderInv, [Next]_vars
    PROVE  OrderInv'
<1> USE DEF IInv
<1>1. ReceivedInTime'
  BY ReceivedStep DEF OrderInv
<1>2. SUFFICES ASSUME faults' = MaxFaults
               PROVE  LeasesAreHeld' /\ TakenInOrder'
  BY <1>1 DEF OrderInv
<1>3. faults \in 0 .. MaxFaults /\ MaxFaults \in Nat
  BY RecoveryAssumption DEF TypeOK
<1>4. CASE Crash \/ \E w \in Workers : Abort(w)
  BY <1>2, <1>3, <1>4, SMT DEF Crash, Abort
<1>5. CASE AdmissionNext /\ UNCHANGED recoveryVars
  BY <1>2, <1>5, AdmissionInOrder DEF OrderInv, recoveryVars
<1>6. ASSUME NEW w \in Workers, Work(w)
      PROVE  LeasesAreHeld' /\ TakenInOrder'
  <2>1. faults' = faults
    BY <1>6 DEF Work, Claim, Complete, GiveUp, Fail
  <2> QED
    BY <1>2, <1>6, <2>1, WorkInOrder DEF OrderInv
<1>7. ASSUME NEW i \in Items, LeaseRunsOut(i)
      PROVE  FALSE
  <2>1. faults = MaxFaults
    BY <1>2, <1>3, <1>7, SMT DEF LeaseRunsOut
  <2>2. \E w \in Workers : /\ Holding(w) /\ worker[w].item = i
                           /\ worker[w].revision = row[i].revision
    BY <1>7, <2>1, SMT DEF LeaseRunsOut, OrderInv, LeasesAreHeld, Owned
  <2> QED
    BY <1>2, <1>3, <1>7, <2>1, <2>2, SMT DEF LeaseRunsOut
<1>8. CASE UNCHANGED vars
  BY <1>2, <1>8, SMT DEF vars, admissionVars, recoveryVars, OrderInv, LeasesAreHeld, TakenInOrder,
                    Holding, Owned, Stored
<1> QED
  BY <1>4, <1>5, <1>6, <1>7, <1>8 DEF Next

\* With one dispatcher and no fault the messages of a session are finished in the order in
\* which they were received (fetch_next_inbound_pending orders by received_at), for any
\* number of messages, sessions, resumes and interleaved sendings.
THEOREM SessionsAreInOrder ==
    ASSUME \A v, w \in Workers : v = w
    PROVE  Spec => []SessionOrder
<1>1. Init => OrderInv
  <2> SUFFICES ASSUME Init PROVE OrderInv
    OBVIOUS
  <2>1. \A i \in Items : row[i].status = "ABSENT"
    BY DEF Init, AdmissionInit, NoRow
  <2>2. \A s \in Sessions : conn[s].phase = "unused"
    BY DEF Init, AdmissionInit, Unused
  <2>3. \A w \in Workers : worker[w].phase = "scanning"
    BY DEF Init, Scanning
  <2> QED
    BY <2>1, <2>2, <2>3
       DEF OrderInv, ReceivedInTime, LeasesAreHeld, TakenInOrder, Stored, Holding, Items
<1>2. IInv /\ IInv' /\ OrderInv /\ [Next]_vars => OrderInv'
  BY OrderStep
<1>3. OrderInv => SessionOrder
  BY DEF OrderInv, TakenInOrder, SessionOrder
<1> QED
  BY <1>1, <1>2, <1>3, InitIsIInv, NextStepKeepsIInv, PTL DEF Spec
=============================================================================
