--------------------------- MODULE GatewayProofs ---------------------------
(***************************************************************************)
(* Proofs about GatewayDelivery and OutboundOverGateway, for any workers,  *)
(* subjects, generations, sessions and inflight limit.                     *)
(***************************************************************************)
EXTENDS OutboundOverGateway, Sequences, TLAPS

\* Zenon proves a leaf that names no other prover.
USE Zenon

-----------------------------------------------------------------------------
(* The inductive invariant.                                                *)

\* The rows of a message and its frame k fit together: the frame is touched only
\* between the claim of the row and its end, and whoever speaks of bytes that
\* left (an ack, a receipt, a completed write) speaks of bytes that did.
LeftTheProcess(k) == k \in {"written", "partial"}

RowOK(d, k) ==
    \/ d = NoDelivery /\ k = "none"
    \/ /\ Unbound(d) /\ d.attempt \in {"Cancelled", "NoActiveSession", "Backpressure"}
       /\ d.session = {} /\ d.error = "none" /\ d.sent = "none" /\ k = "none"
    \/ /\ d.session \in {{x} : x \in Sessions}
       /\ \/ Unwritten(d) /\ d.error = "none" /\ d.sent = "none" /\ k = "none"
          \/ /\ d.outbox = "Cancelled" /\ d.attempt \in {"Cancelled", "NoActiveSession"}
             /\ d.error # "rejected" /\ d.sent = "none" /\ k = "none"
          \/ /\ d.outbox = "WriteStarted" /\ d.attempt \in {"Pending", "Unconfirmed"}
             /\ d.error = "none" /\ d.sent = "none"
          \/ /\ d.outbox = "WriteStarted" /\ d.attempt = "Acked"
             /\ d.error = "none" /\ LeftTheProcess(k)
          \/ /\ d.outbox = "Sent" /\ d.attempt \in {"Sent", "Acked", "Unconfirmed"}
             /\ d.error = "none" /\ LeftTheProcess(k)
          \/ /\ d.outbox = "Acked" /\ d.attempt \in {"Pending", "Sent", "Acked", "Unconfirmed"}
             /\ d.error = "none" /\ LeftTheProcess(k)
          \/ /\ d.outbox = "Failed" /\ d.attempt \in {"Pending", "Sent", "Acked", "Unconfirmed"}
             /\ d.error = "rejected" /\ LeftTheProcess(k)
          \/ /\ d.outbox = "Failed" /\ d.attempt \in {"Failed", "Backpressure"}
             /\ d.error = "none" /\ d.sent = "none" /\ k \in {"none", "dropped"}

RowsFit == \A s \in Subjects, g \in Generations : RowOK(delivery[s][g], sink[s][g])

\* Only messages that were submitted have rows, and a call in progress is about one.
RowsWereSubmitted ==
    /\ \A s \in Subjects, g \in Generations : delivery[s][g] # NoDelivery => g \in submitted[s]
    /\ \A w \in Workers : call[w].pc = "busy" => call[w].generation \in submitted[call[w].subject]

\* Between claim and end of a write the frame is where the stage says.
Writing == {"claimed", "sinking", "refused", "backpressure"}

\* The frame of the message a worker is delivering.
FrameOf(w) == sink[call[w].subject][call[w].generation]

\* What the stage of a call says of the rows and the frame of its message.
StageFits(w) ==
    /\ stage[w] = "prepared" => RowOf(w).outbox # "none"
    /\ stage[w] \in {"claimed", "refused", "backpressure"} =>
           RowOf(w).outbox = "WriteStarted" /\ FrameOf(w) = "none"
    /\ stage[w] = "sinking" =>
           /\ FrameOf(w) # "none"
           /\ RowOf(w).outbox = "Failed" => RowOf(w).error = "rejected"

StagesFit == \A w \in Workers : StageFits(w)

SameMessage(v, w) ==
    call[v].subject = call[w].subject /\ call[v].generation = call[w].generation

\* Two workers never write the frame of the same message.
OneWriter ==
    \A v, w \in Workers :
        stage[v] \in Writing /\ stage[w] \in Writing /\ SameMessage(v, w) => v = w

\* A session and its handle differ only while the holder of the mutex has replaced
\* the sessions of its route and not yet their handles.
InReplacement(y) == \E x \in guard : Active(x) /\ live[x] = "none" /\ y \in SameRoute(x)

\* What the table of sessions and the table of handles say of each other.
SessionsFit ==
    /\ OneActiveSession
    /\ \A x \in guard : session[x].status # "Closed"
    /\ \A y \in Sessions : ~InReplacement(y) => (live[y] # "none" <=> Active(y))

\* The inductive invariant of the gateway.
GInv ==
    /\ TypeOK
    /\ RowsFit
    /\ RowsWereSubmitted
    /\ StagesFit
    /\ OneWriter
    /\ SessionsFit

-----------------------------------------------------------------------------
(* Facts about the rows of one message.                                    *)

\* What became of the bytes of a message with rows d and frame k: see Fate.
FateOf(d, k) ==
    CASE k \in {"written", "partial"} -> "written"
      [] d = NoDelivery \/ Unwritten(d) -> "open"
      [] \/ Unbound(d) \/ d.outbox = "Cancelled"
         \/ d.outbox = "Failed" /\ d.attempt \in {"Failed", "Backpressure"}
            -> "not_written"
      [] OTHER -> "started"

\* The rows d count against the window of their session.
Counts(d) == d.attempt \in {"Pending", "Sent", "Unconfirmed"} /\ ~PeerRejected(d)

\* Rows d with frame k may become rows e with frame l.
Moves(d, k, e, l) ==
    /\ e \in Deliveries /\ RowOK(e, l)
    /\ d.outbox # "none" => e.outbox # "none"
    /\ FateOf(e, l) \in Port!FateSuccessors(FateOf(d, k))

\* They do so without adding to a window ...
KeepsWindow(d, e) == Counts(e) => Counts(d) /\ e.session = d.session

\* ... and without disturbing whoever is writing the frame.
KeepsWriter(d, k, e, l) ==
    /\ d.outbox = "WriteStarted" /\ k = "none" => e.outbox = "WriteStarted" /\ l = "none"
    /\ (d.outbox = "Failed" => d.error = "rejected") /\ k # "none" =>
           l # "none" /\ (e.outbox = "Failed" => e.error = "rejected")

\* A change of rows behind the back of the calls: a close, a fence, an ack, a receipt.
Quiet(d, k, e, l) ==
    /\ Moves(d, k, e, l) /\ KeepsWindow(d, e) /\ KeepsWriter(d, k, e, l)
    /\ d = NoDelivery => e = NoDelivery

\* What a step may do to the windows: add to none, or bind one message to a session
\* that has room for it.
WindowsMove ==
    \/ \A s \in Subjects, g \in Generations : KeepsWindow(delivery[s][g], delivery'[s][g])
    \/ \E s \in Subjects, g \in Generations, x \in Sessions :
           /\ ~(s \in Commands /\ WindowIsFull(x))
           /\ delivery'[s][g].session = {x}
           /\ \A t \in Subjects, i \in Generations :
                  ~(t = s /\ i = g) => delivery'[t][i] = delivery[t][i]

\* The fates of rows that fit their frame, without the cases.
LEMMA FateFacts ==
    ASSUME NEW d \in Deliveries, NEW k \in SinkStates, RowOK(d, k)
    PROVE  /\ LeftTheProcess(k) => FateOf(d, k) = "written"
           /\ ~LeftTheProcess(k) /\ (d = NoDelivery \/ Unwritten(d)) => FateOf(d, k) = "open"
           /\ ~LeftTheProcess(k) /\ d.outbox = "WriteStarted" => FateOf(d, k) = "started"
           /\ ~LeftTheProcess(k) /\ (Unbound(d) \/ d.outbox \in {"Cancelled", "Failed"}) =>
                  FateOf(d, k) = "not_written"
BY SMT DEF RowOK, FateOf, LeftTheProcess, Unwritten, Unbound, Deliveries, NoDelivery, SinkStates

\* The replay matrix (durable_outcome), row by row.
LEMMA DurableFacts ==
    ASSUME NEW d
    PROVE  /\ d.outbox \in {"WriteStarted", "Sent", "Acked", "Failed"} /\ d.attempt = "Acked" =>
                  DurableOutcome(d) = SentOutcome(d)
           /\ PeerRejected(d) /\ d.attempt \in {"Pending", "Sent", "Unconfirmed"} =>
                  DurableOutcome(d) = "TransportRejected"
           /\ d.outbox = "WriteStarted" /\ d.attempt = "Pending" =>
                  DurableOutcome(d) = "Unconfirmed"
           /\ d.outbox \in {"WriteStarted", "Sent", "Acked"} /\ d.attempt = "Unconfirmed" =>
                  DurableOutcome(d) = "Unconfirmed"
           /\ d.outbox \in {"Sent", "Acked"} /\ d.attempt = "Sent" =>
                  DurableOutcome(d) = SentOutcome(d)
           /\ d.outbox = "Acked" /\ d.attempt = "Pending" =>
                  DurableOutcome(d) = SentOutcome(d)
           /\ d.outbox = "Failed" /\ d.attempt = "Backpressure" =>
                  DurableOutcome(d) = "RejectedRetryable"
           /\ d.outbox = "Failed" /\ d.attempt = "Failed" /\ ~PeerRejected(d) =>
                  DurableOutcome(d) = "NotWritten"
           /\ d.outbox = "Cancelled" /\ d.attempt = "Cancelled" =>
                  DurableOutcome(d) \in {"RejectedExpired", "NotWritten"}
           /\ d.outbox = "Cancelled" /\ d.attempt = "NoActiveSession" =>
                  DurableOutcome(d) = "RejectedRetryable"
<1>1. d.outbox \in {"WriteStarted", "Sent", "Acked", "Failed"} /\ d.attempt = "Acked" =>
       DurableOutcome(d) = SentOutcome(d)
  BY DEF DurableOutcome, PeerRejected
<1>2. PeerRejected(d) /\ d.attempt \in {"Pending", "Sent", "Unconfirmed"} =>
       DurableOutcome(d) = "TransportRejected"
  BY DEF DurableOutcome, PeerRejected
<1>3. d.outbox = "WriteStarted" /\ d.attempt = "Pending" =>
       DurableOutcome(d) = "Unconfirmed"
  BY DEF DurableOutcome, PeerRejected
<1>4. d.outbox \in {"WriteStarted", "Sent", "Acked"} /\ d.attempt = "Unconfirmed" =>
       DurableOutcome(d) = "Unconfirmed"
  BY DEF DurableOutcome, PeerRejected
<1>5. d.outbox \in {"Sent", "Acked"} /\ d.attempt = "Sent" =>
       DurableOutcome(d) = SentOutcome(d)
  BY DEF DurableOutcome, PeerRejected
<1>6. d.outbox = "Acked" /\ d.attempt = "Pending" =>
       DurableOutcome(d) = SentOutcome(d)
  BY DEF DurableOutcome, PeerRejected
<1>7. d.outbox = "Failed" /\ d.attempt = "Backpressure" =>
       DurableOutcome(d) = "RejectedRetryable"
  BY DEF DurableOutcome, PeerRejected
<1>8. d.outbox = "Failed" /\ d.attempt = "Failed" /\ ~PeerRejected(d) =>
       DurableOutcome(d) = "NotWritten"
  BY DEF DurableOutcome, PeerRejected
<1>9. d.outbox = "Cancelled" /\ d.attempt = "Cancelled" =>
       DurableOutcome(d) \in {"RejectedExpired", "NotWritten"}
  BY DEF DurableOutcome, PeerRejected
<1>10. d.outbox = "Cancelled" /\ d.attempt = "NoActiveSession" =>
       DurableOutcome(d) = "RejectedRetryable"
  BY DEF DurableOutcome, PeerRejected
<1> QED
  BY <1>1, <1>2, <1>3, <1>4, <1>5, <1>6, <1>7, <1>8, <1>9, <1>10

\* What closing a session does to a row, row by row.
LEMMA CloseFacts ==
    ASSUME NEW d
    PROVE  /\ PeerRejected(d) /\ d.attempt = "Pending" =>
                  AfterClose(d) = [d EXCEPT !.attempt = "Sent"]
           /\ (\/ d.attempt = "Sent" /\ d.outbox # "Failed"
               \/ d.attempt = "Pending" /\ d.outbox \in {"WriteStarted", "Sent", "Acked"}) =>
                  AfterClose(d) = [d EXCEPT !.attempt = "Unconfirmed"]
           /\ Unwritten(d) =>
                  AfterClose(d) = [d EXCEPT !.outbox = "Cancelled", !.attempt = "Cancelled"]
           /\ (\/ d.attempt \notin {"Sent", "Pending"}
               \/ d.attempt = "Sent" /\ d.outbox = "Failed") =>
                  AfterClose(d) = d
BY DEF AfterClose, PeerRejected, Unwritten

\* What may be answered about, and what may follow, each fate.
LEMMA PortFacts ==
    /\ Port!AnswersFor("written") = {"Sent", "SentBadEvidence", "TransportRejected",
                                     "Unconfirmed", "InfrastructureError"}
    /\ Port!AnswersFor("started") = {"Unconfirmed", "InfrastructureError"}
    /\ Port!AnswersFor("not_written") = {"NotWritten", "RejectedRetryable", "RejectedExpired",
                                         "RejectedIdentity", "InfrastructureError"}
    /\ Port!AnswersFor("open") = {"InfrastructureError"}
    /\ Port!FateSuccessors("open") = {"open", "started", "written", "not_written"}
    /\ Port!FateSuccessors("started") = {"started", "written", "not_written"}
    /\ Port!FateSuccessors("written") = {"written"}
    /\ Port!FateSuccessors("not_written") = {"not_written"}
<1>1. /\ Port!AnswersFor("written") =
             {"InfrastructureError"} \cup (Port!WrittenAnswers \cup {"Unconfirmed"})
      /\ Port!AnswersFor("started") = {"InfrastructureError"} \cup {"Unconfirmed"}
      /\ Port!AnswersFor("not_written") = {"InfrastructureError"} \cup Port!NotWrittenAnswers
      /\ Port!AnswersFor("open") = {"InfrastructureError"} \cup {}
  BY DEF Port!AnswersFor
<1>2. /\ Port!FateSuccessors("open") = Port!Fates
      /\ Port!FateSuccessors("started") = {"started", "written", "not_written"}
      /\ Port!FateSuccessors("written") = {"written"}
      /\ Port!FateSuccessors("not_written") = {"not_written"}
  BY DEF Port!FateSuccessors
<1> QED
  BY <1>1, <1>2 DEF Port!WrittenAnswers, Port!NotWrittenAnswers, Port!Fates

\* A settled row is answered from the replay matrix, and the answer is true.
LEMMA ReplayIsTrue ==
    ASSUME NEW d \in Deliveries, NEW k \in SinkStates, RowOK(d, k),
           d.outbox # "none", ~Unwritten(d)
    PROVE  /\ DurableOutcome(d) # "Inconsistent"
           /\ DurableOutcome(d) \in Port!AnswersFor(FateOf(d, k))
<1>1. SentOutcome(d) \in {"Sent", "SentBadEvidence"}
  BY DEF SentOutcome
<1>2. CASE LeftTheProcess(k)
  BY <1>1, <1>2, FateFacts, DurableFacts, PortFacts, SMT
     DEF RowOK, PeerRejected, Unwritten, Unbound, NoDelivery, LeftTheProcess
<1>3. CASE ~LeftTheProcess(k)
  BY <1>3, FateFacts, DurableFacts, PortFacts, SMT
     DEF RowOK, PeerRejected, Unwritten, Unbound, NoDelivery, LeftTheProcess
<1> QED
  BY <1>2, <1>3

\* Rows whose attempt is overwritten.
LEMMA AttemptSet ==
    ASSUME NEW d \in Deliveries, NEW a \in AttemptStatuses, NEW e, e = [d EXCEPT !.attempt = a]
    PROVE  /\ e \in Deliveries
           /\ e.attempt = a /\ e.outbox = d.outbox /\ e.session = d.session
           /\ e.error = d.error /\ e.sent = d.sent
BY DEF Deliveries

\* Every row that fits has one of four fates.
LEMMA FateIsKept ==
    ASSUME NEW d \in Deliveries, NEW k \in SinkStates, RowOK(d, k)
    PROVE  FateOf(d, k) \in Port!FateSuccessors(FateOf(d, k))
BY FateFacts, PortFacts DEF RowOK

\* Rows that stay as they are disturb nobody.
LEMMA SameIsQuiet ==
    ASSUME NEW d \in Deliveries, NEW k \in SinkStates, RowOK(d, k)
    PROVE  Quiet(d, k, d, k)
BY FateIsKept DEF Quiet, Moves, KeepsWindow, KeepsWriter

\* A closing session takes its rows along quietly.
LEMMA CloseIsQuiet ==
    ASSUME NEW d \in Deliveries, NEW k \in SinkStates, RowOK(d, k)
    PROVE  Quiet(d, k, AfterClose(d), k)
<1> USE DEF AttemptStatuses, OutboxStatuses
<1>1. CASE PeerRejected(d) /\ d.attempt = "Pending"
  <2>1. PICK e : e = AfterClose(d) /\ e = [d EXCEPT !.attempt = "Sent"]
    BY <1>1, CloseFacts
  <2>2. e \in Deliveries /\ e.attempt = "Sent" /\ e.outbox = d.outbox /\ e.session = d.session
        /\ e.error = d.error /\ e.sent = d.sent
    BY <2>1, AttemptSet, SMT
  <2>3. LeftTheProcess(k) /\ RowOK(e, k)
    BY <1>1, <2>2, SMT DEF RowOK, PeerRejected, Unwritten, Unbound, NoDelivery
  <2> QED
    BY <1>1, <2>1, <2>2, <2>3, FateFacts, PortFacts, SMT
       DEF Quiet, Moves, KeepsWindow, KeepsWriter, Counts, PeerRejected, NoDelivery
<1>2. CASE \/ d.attempt = "Sent" /\ d.outbox # "Failed"
           \/ d.attempt = "Pending" /\ d.outbox \in {"WriteStarted", "Sent", "Acked"}
  <2>1. PICK e : e = AfterClose(d) /\ e = [d EXCEPT !.attempt = "Unconfirmed"]
    BY <1>2, CloseFacts
  <2>2. e \in Deliveries /\ e.attempt = "Unconfirmed" /\ e.outbox = d.outbox
        /\ e.session = d.session /\ e.error = d.error /\ e.sent = d.sent
    BY <2>1, AttemptSet, SMT
  <2>3. RowOK(e, k)
    BY <1>2, <2>2, SMT DEF RowOK, PeerRejected, Unwritten, Unbound, NoDelivery
  <2>4. d.outbox = "WriteStarted" \/ LeftTheProcess(k)
    BY <1>2, SMT DEF RowOK, Unwritten, Unbound, NoDelivery
  <2>5. FateOf(e, k) = FateOf(d, k)
    BY <2>2, <2>3, <2>4, FateFacts
  <2> QED
    BY <1>2, <2>1, <2>2, <2>3, <2>5, FateIsKept, SMT
       DEF Quiet, Moves, KeepsWindow, KeepsWriter, Counts, PeerRejected, NoDelivery
<1>3. CASE Unwritten(d)
  <2>1. PICK e : e = AfterClose(d) /\ e = [d EXCEPT !.outbox = "Cancelled", !.attempt = "Cancelled"]
    BY <1>3, CloseFacts
  <2>2. e \in Deliveries /\ e.attempt = "Cancelled" /\ e.outbox = "Cancelled"
        /\ e.session = d.session /\ e.error = d.error /\ e.sent = d.sent
    BY <2>1 DEF Deliveries
  <2>3. /\ d.session \in {{x} : x \in Sessions} /\ d.error = "none" /\ d.sent = "none"
        /\ k = "none"
    BY <1>3, SMT DEF RowOK, Unwritten, Unbound, NoDelivery
  <2>4. RowOK(e, k)
    BY <2>2, <2>3 DEF RowOK
  <2>5. FateOf(e, k) = "not_written" /\ FateOf(d, k) = "open"
    BY <1>3, <2>2, <2>3, <2>4, FateFacts DEF LeftTheProcess
  <2> QED
    BY <1>3, <2>1, <2>2, <2>3, <2>4, <2>5, PortFacts, SMT
       DEF Quiet, Moves, KeepsWindow, KeepsWriter, Counts, PeerRejected, NoDelivery, Unwritten
<1>4. CASE d.attempt \notin {"Sent", "Pending"} \/ (d.attempt = "Sent" /\ d.outbox = "Failed")
  BY <1>4, CloseFacts, SameIsQuiet
<1> QED
  BY <1>1, <1>2, <1>3, <1>4, SMT DEF RowOK, PeerRejected, Unwritten, Unbound, NoDelivery

\* So does the fence at start-up.
LEMMA FenceIsQuiet ==
    ASSUME NEW d \in Deliveries, NEW k \in SinkStates, RowOK(d, k)
    PROVE  Quiet(d, k, AfterFence(d), k)
<1>1. CASE d.outbox = "WriteStarted" /\ d.attempt = "Pending"
  <2>1. PICK e : e = AfterFence(d) /\ e = [d EXCEPT !.attempt = "Unconfirmed"]
    BY <1>1 DEF AfterFence
  <2>2. e \in Deliveries /\ e.attempt = "Unconfirmed" /\ e.outbox = d.outbox
        /\ e.session = d.session /\ e.error = d.error /\ e.sent = d.sent
    BY <2>1, AttemptSet, SMT DEF AttemptStatuses
  <2>3. RowOK(e, k)
    BY <1>1, <2>2, SMT DEF RowOK, Unwritten, Unbound, NoDelivery
  <2>4. FateOf(e, k) = FateOf(d, k)
    BY <1>1, <2>2, <2>3, FateFacts
  <2> QED
    BY <1>1, <2>1, <2>2, <2>3, <2>4, FateIsKept, SMT
       DEF Quiet, Moves, KeepsWindow, KeepsWriter, Counts, PeerRejected, NoDelivery
<1>2. CASE ~(d.outbox = "WriteStarted" /\ d.attempt = "Pending")
  <2>1. AfterFence(d) = d
    BY <1>2, SMT DEF AfterFence, RowOK, Unwritten, Unbound, NoDelivery
  <2> QED
    BY <2>1, SameIsQuiet
<1> QED
  BY <1>1, <1>2

\* An ack of bytes that left is quiet, and does not change their fate.
LEMMA AckIsQuiet ==
    ASSUME NEW d \in Deliveries, NEW k \in SinkStates, RowOK(d, k), LeftTheProcess(k),
           NEW accepted \in BOOLEAN, NEW stamp \in {"good", "bad"}
    PROVE  Quiet(d, k, AfterAck(d, accepted, stamp), k)
<1>1. CASE d.outbox \notin {"WriteStarted", "Sent", "Failed"} \/ d.error = "rejected"
  BY <1>1, SameIsQuiet DEF AfterAck
<1>2. CASE d.outbox \in {"WriteStarted", "Sent", "Failed"} /\ d.error # "rejected"
  <2>1. PICK e : /\ e = AfterAck(d, accepted, stamp)
                 /\ e = [d EXCEPT !.outbox = IF accepted THEN "Acked" ELSE "Failed",
                                  !.error = IF accepted THEN "none" ELSE "rejected",
                                  !.sent = IF @ = "none" THEN stamp ELSE @]
    BY <1>2 DEF AfterAck
  <2>2. /\ e.attempt = d.attempt /\ e.session = d.session
        /\ e.outbox = IF accepted THEN "Acked" ELSE "Failed"
        /\ e.error = IF accepted THEN "none" ELSE "rejected"
        /\ e \in Deliveries
    BY <2>1 DEF Deliveries, OutboxStatuses
  <2>3. RowOK(e, k) /\ d.outbox # "Failed"
    BY <1>2, <2>2 DEF RowOK, Unwritten, Unbound, NoDelivery, LeftTheProcess
  <2> QED
    BY <1>2, <2>1, <2>2, <2>3, FateFacts, PortFacts, SMT
       DEF Quiet, Moves, KeepsWindow, KeepsWriter, Counts, PeerRejected, NoDelivery, LeftTheProcess
<1> QED
  BY <1>1, <1>2

\* So is a receipt.
LEMMA ReceiptIsQuiet ==
    ASSUME NEW d \in Deliveries, NEW k \in SinkStates, RowOK(d, k), LeftTheProcess(k)
    PROVE  Quiet(d, k, [d EXCEPT !.attempt = "Acked"], k)
<1>1. PICK e : e = [d EXCEPT !.attempt = "Acked"]
  OBVIOUS
<1>2. e \in Deliveries /\ e.attempt = "Acked" /\ e.outbox = d.outbox /\ e.session = d.session
      /\ e.error = d.error /\ e.sent = d.sent
  BY <1>1, AttemptSet, SMT DEF AttemptStatuses
<1>3. RowOK(e, k) /\ d.outbox # "none"
  BY <1>2 DEF RowOK, Unwritten, Unbound, NoDelivery, LeftTheProcess
<1> QED
  BY <1>1, <1>2, <1>3, FateFacts, PortFacts, SMT
       DEF Quiet, Moves, KeepsWindow, KeepsWriter, Counts, PeerRejected, NoDelivery, LeftTheProcess

\* What is known of a row that may still be written.
LEMMA UnwrittenFacts ==
    ASSUME NEW d \in Deliveries, NEW k \in SinkStates, RowOK(d, k), Unwritten(d)
    PROVE  /\ k = "none" /\ d.error = "none" /\ d.sent = "none"
           /\ d.session \in {{x} : x \in Sessions}
           /\ FateOf(d, k) = "open"
BY FateFacts, SMT DEF RowOK, Unwritten, Unbound, NoDelivery, LeftTheProcess

\* A sink outcome r is recorded by the only writer of the frame.
LEMMA WriteMoves ==
    ASSUME NEW d \in Deliveries, NEW k \in SinkStates, RowOK(d, k), NEW r, NEW late \in BOOLEAN,
           \/ r \in {"refused", "backpressure"} /\ k = "none" /\ d.outbox = "WriteStarted"
           \/ /\ r = k /\ k \in {"written", "partial", "dropped"}
              /\ d.outbox = "Failed" => d.error = "rejected"
    PROVE  /\ Moves(d, k, AfterWrite(d, r, late), k)
           /\ KeepsWindow(d, AfterWrite(d, r, late))
           /\ d.outbox # "none"
           /\ AfterWrite(d, r, late).outbox # "none"
           /\ ~Unwritten(AfterWrite(d, r, late))
<1>e. PICK e : e = AfterWrite(d, r, late)
  OBVIOUS
<1>s. PICK stamp \in {"good", "bad"} : stamp = IF late THEN "bad" ELSE "good"
  OBVIOUS
<1>w. /\ d.outbox = "Failed" /\ d.error = "rejected" /\ d.attempt = "Pending" =>
             e = [d EXCEPT !.attempt = "Sent"]
      /\ d.outbox = "WriteStarted" /\ d.attempt = "Acked" =>
             e = [d EXCEPT !.outbox = "Sent", !.sent = stamp]
      /\ d.outbox \in {"Sent", "Acked", "Failed"} /\ d.attempt = "Acked" => e = d
      /\ d.outbox = "Acked" /\ d.attempt = "Pending" => e = [d EXCEPT !.attempt = "Sent"]
      /\ d.outbox = "WriteStarted" /\ d.attempt = "Pending" =>
            /\ r = "written" => e = [d EXCEPT !.outbox = "Sent", !.attempt = "Sent", !.sent = stamp]
            /\ r = "partial" => e = [d EXCEPT !.attempt = "Unconfirmed"]
            /\ r = "backpressure" => e = [d EXCEPT !.outbox = "Failed", !.attempt = "Backpressure"]
            /\ r \in {"dropped", "refused"} =>
                   e = [d EXCEPT !.outbox = "Failed", !.attempt = "Failed"]
      /\ d.attempt \in {"Sent", "Unconfirmed"} => e = d
  BY <1>e, <1>s DEF AfterWrite, PeerRejected
<1> USE DEF Moves, KeepsWindow, Counts, PeerRejected, Unwritten
<1>1. CASE PeerRejected(d) /\ d.attempt = "Pending"
  <2>1. e = [d EXCEPT !.attempt = "Sent"]
    BY <1>1, <1>w
  <2>2. e \in Deliveries /\ e.attempt = "Sent" /\ e.outbox = d.outbox /\ e.session = d.session
        /\ e.error = d.error /\ e.sent = d.sent
    BY <2>1 DEF Deliveries, AttemptStatuses
  <2>3. LeftTheProcess(k) /\ RowOK(e, k)
    BY <1>1, <2>2 DEF RowOK, Unbound, NoDelivery
  <2> QED
    BY <1>1, <2>2, <2>3, <1>e, FateFacts, PortFacts, SMT
<1>2. CASE d.outbox = "WriteStarted" /\ d.attempt = "Acked"
  <2>1. e = [d EXCEPT !.outbox = "Sent", !.sent = stamp]
    BY <1>2, <1>w
  <2>2. e \in Deliveries /\ e.attempt = d.attempt /\ e.outbox = "Sent" /\ e.session = d.session
        /\ e.error = d.error
    BY <2>1, <1>s DEF Deliveries, OutboxStatuses
  <2>3. LeftTheProcess(k) /\ RowOK(e, k)
    BY <1>2, <2>2, SMT DEF RowOK, Unbound, NoDelivery
  <2> QED
    BY <1>2, <2>2, <2>3, <1>e, FateFacts, PortFacts, SMT
<1>3. CASE d.outbox = "Acked" /\ d.attempt = "Pending"
  <2>1. e = [d EXCEPT !.attempt = "Sent"]
    BY <1>3, <1>w
  <2>2. e \in Deliveries /\ e.attempt = "Sent" /\ e.outbox = d.outbox /\ e.session = d.session
        /\ e.error = d.error /\ e.sent = d.sent
    BY <2>1 DEF Deliveries, AttemptStatuses
  <2>3. LeftTheProcess(k) /\ RowOK(e, k)
    BY <1>3, <2>2 DEF RowOK, Unbound, NoDelivery
  <2> QED
    BY <1>3, <2>2, <2>3, <1>e, FateFacts, PortFacts, SMT
<1>4. CASE \/ d.outbox \in {"Sent", "Acked", "Failed"} /\ d.attempt = "Acked"
           \/ d.attempt \in {"Sent", "Unconfirmed"}
  <2>1. e = d
    BY <1>4, <1>w
  <2>2. d.outbox # "none"
    BY <1>4 DEF RowOK, Unbound, NoDelivery
  <2> QED
    BY <1>4, <2>1, <2>2, <1>e, FateIsKept
<1>5. CASE d.outbox = "WriteStarted" /\ d.attempt = "Pending"
  <2>0. d.session \in {{x} : x \in Sessions} /\ d.error = "none" /\ d.sent = "none"
    BY <1>5, SMT DEF RowOK, Unbound, NoDelivery
  <2>1. CASE r = "written"
    <3>1. e = [d EXCEPT !.outbox = "Sent", !.attempt = "Sent", !.sent = stamp]
      BY <1>5, <2>1, <1>w
    <3>2. e \in Deliveries /\ e.attempt = "Sent" /\ e.outbox = "Sent" /\ e.session = d.session
          /\ e.error = d.error
      BY <3>1, <1>s DEF Deliveries, OutboxStatuses, AttemptStatuses
    <3>3. LeftTheProcess(k) /\ RowOK(e, k)
      BY <2>0, <2>1, <3>2 DEF RowOK, LeftTheProcess
    <3> QED
      BY <1>5, <3>2, <3>3, <1>e, FateFacts, PortFacts, SMT
  <2>2. CASE r = "partial"
    <3>1. e = [d EXCEPT !.attempt = "Unconfirmed"]
      BY <1>5, <2>2, <1>w
    <3>2. e \in Deliveries /\ e.attempt = "Unconfirmed" /\ e.outbox = d.outbox
          /\ e.session = d.session /\ e.error = d.error /\ e.sent = d.sent
      BY <3>1 DEF Deliveries, AttemptStatuses
    <3>3. LeftTheProcess(k) /\ RowOK(e, k)
      BY <1>5, <2>0, <2>2, <3>2 DEF RowOK, LeftTheProcess
    <3> QED
      BY <1>5, <3>2, <3>3, <1>e, FateFacts, PortFacts, SMT
  <2>3. CASE r \in {"dropped", "refused", "backpressure"}
    <3>1. PICK a \in {"Failed", "Backpressure"} : e = [d EXCEPT !.outbox = "Failed", !.attempt = a]
      BY <1>5, <2>3, <1>w
    <3>2. e \in Deliveries /\ e.attempt = a /\ e.outbox = "Failed" /\ e.session = d.session
          /\ e.error = d.error /\ e.sent = d.sent
      BY <3>1 DEF Deliveries, OutboxStatuses, AttemptStatuses
    <3>3. k \in {"none", "dropped"} /\ RowOK(e, k)
      BY <2>0, <2>3, <3>2 DEF RowOK
    <3>4. FateOf(d, k) = "started" /\ FateOf(e, k) = "not_written"
      BY <1>5, <3>2, <3>3, FateFacts DEF LeftTheProcess
    <3> QED
      BY <1>5, <3>2, <3>3, <3>4, <1>e, PortFacts
  <2> QED
    BY <1>5, <2>1, <2>2, <2>3
<1>6. CASE k = "none"
  <2>1. d.outbox = "WriteStarted" /\ d.attempt \in {"Pending", "Unconfirmed"}
    BY <1>6, SMT DEF RowOK, Unbound, NoDelivery, LeftTheProcess
  <2> QED
    BY <2>1, <1>4, <1>5
<1>7. CASE k # "none"
  <2>1. d.outbox \in {"WriteStarted", "Sent", "Acked", "Failed"}
        /\ d.attempt \in {"Pending", "Sent", "Acked", "Unconfirmed"}
    BY <1>7 DEF RowOK, Unbound, NoDelivery, LeftTheProcess
  <2>2. ~(d.outbox = "Sent" /\ d.attempt = "Pending")
    BY <1>7 DEF RowOK, Unbound, NoDelivery, LeftTheProcess
  <2>3. d.outbox = "Failed" => d.error = "rejected"
    BY <1>7
  <2> QED
    BY <2>1, <2>2, <2>3, <1>1, <1>2, <1>3, <1>4, <1>5
<1> QED
  BY <1>6, <1>7

-----------------------------------------------------------------------------
(* From rows to states.                                                    *)

\* Every fate moves only as the port allows, and only if the message was submitted.
FateMoves ==
    \A s \in Subjects, g \in Generations :
        \/ Fate'[s][g] = Fate[s][g]
        \/ g \in submitted[s] /\ Fate'[s][g] \in Port!FateSuccessors(Fate[s][g])

\* The fate of a message is the fate of its rows.
LEMMA FateAt ==
    ASSUME NEW s \in Subjects, NEW g \in Generations
    PROVE  /\ Fate[s][g] = FateOf(delivery[s][g], sink[s][g])
           /\ Fate'[s][g] = FateOf(delivery'[s][g], sink'[s][g])
BY DEF Fate, FateOf

\* A function of messages is changed at one message.
LEMMA PointUpdate ==
    ASSUME NEW D, NEW f \in [Subjects -> [Generations -> D]], NEW e \in D,
           NEW s \in Subjects, NEW g \in Generations, NEW h, h = [f EXCEPT ![s][g] = e]
    PROVE  /\ h \in [Subjects -> [Generations -> D]]
           /\ \A t \in Subjects, i \in Generations :
                 h[t][i] = IF t = s /\ i = g THEN e ELSE f[t][i]
OBVIOUS

\* What was never handed over was never written.
LEMMA NoRowNoFrame ==
    ASSUME NEW k, RowOK(NoDelivery, k)
    PROVE  k = "none"
BY DEF RowOK, NoDelivery, Unbound, Unwritten

\* When every row moves as it may, all rows still fit and so do their fates.
LEMMA RowsMove ==
    ASSUME GInv,
           \A s \in Subjects, g \in Generations :
               Moves(delivery[s][g], sink[s][g], delivery'[s][g], sink'[s][g]),
           \A s \in Subjects, g \in Generations :
               delivery[s][g] = NoDelivery =>
                   delivery'[s][g] = NoDelivery \/ g \in submitted[s]
    PROVE  /\ RowsFit'
           /\ FateMoves
           /\ \A s \in Subjects, g \in Generations :
                 delivery'[s][g] # NoDelivery => g \in submitted[s]
<1>1. RowsFit'
  BY DEF RowsFit, Moves
<1>2. ASSUME NEW s \in Subjects, NEW g \in Generations
      PROVE  /\ delivery'[s][g] # NoDelivery => g \in submitted[s]
             /\ \/ Fate'[s][g] = Fate[s][g]
                \/ g \in submitted[s] /\ Fate'[s][g] \in Port!FateSuccessors(Fate[s][g])
  <2>1. CASE g \in submitted[s]
    BY <2>1, FateAt DEF Moves
  <2>2. CASE g \notin submitted[s]
    <3>1. delivery[s][g] = NoDelivery /\ delivery'[s][g] = NoDelivery
      BY <2>2 DEF GInv, RowsWereSubmitted
    <3>2. sink[s][g] = "none" /\ sink'[s][g] = "none"
      <4>1. RowOK(delivery[s][g], sink[s][g]) /\ RowOK(delivery'[s][g], sink'[s][g])
        BY DEF GInv, RowsFit, Moves
      <4> QED
        BY <3>1, <4>1, NoRowNoFrame
    <3> QED
      BY <3>1, <3>2, FateAt, SMT
  <2> QED
    BY <2>1, <2>2
<1> QED
  BY <1>1, <1>2 DEF FateMoves

\* A sink that is closed, and nothing else, leaves the sessions as they are.
LEMMA SessionsStay ==
    ASSUME GInv, UNCHANGED <<session, guard>>,
           \A x \in Sessions : live'[x] = "none" <=> live[x] = "none"
    PROVE  SessionsFit'
<1>1. guard \subseteq Sessions
  BY DEF GInv, TypeOK
<1> QED
  BY <1>1 DEF GInv, SessionsFit, OneActiveSession, InReplacement, Active, SameRoute

\* A call in progress is about a submitted message.
LEMMA CallInProgress ==
    ASSUME GInv, NEW w \in Workers, stage[w] # "none"
    PROVE  /\ call[w].pc = "busy"
           /\ call[w].subject \in Subjects /\ call[w].generation \in Generations
           /\ call[w].generation \in submitted[call[w].subject]
           /\ RowOf(w) \in Deliveries /\ FrameOf(w) \in SinkStates /\ RowOK(RowOf(w), FrameOf(w))
<1>1. call[w].pc = "busy" /\ call[w] \in Calls
  BY DEF GInv, TypeOK
<1>2. call[w].subject \in Subjects /\ call[w].generation \in Generations
  BY <1>1, SMT DEF Calls, Idle
<1> QED
  BY <1>1, <1>2 DEF GInv, RowsWereSubmitted, RowsFit, TypeOK, RowOf, FrameOf

\* A step that leaves the calls alone and moves every row quietly.
LEMMA QuietStep ==
    ASSUME GInv, TypeOK', SessionsFit', UNCHANGED <<call, submitted, stage>>,
           \A s \in Subjects, g \in Generations :
               Quiet(delivery[s][g], sink[s][g], delivery'[s][g], sink'[s][g])
    PROVE  GInv' /\ FateMoves /\ WindowsMove
<1>1. /\ RowsFit' /\ FateMoves
      /\ \A s \in Subjects, g \in Generations : delivery'[s][g] # NoDelivery => g \in submitted[s]
  BY RowsMove DEF Quiet
<1>2. WindowsMove
  BY DEF WindowsMove, Quiet
<1>3. RowsWereSubmitted'
  BY <1>1 DEF GInv, RowsWereSubmitted
<1>4. ASSUME NEW w \in Workers
      PROVE  StageFits(w)'
  <2>1. CASE stage[w] = "none"
    BY <2>1 DEF StageFits
  <2>2. CASE stage[w] # "none"
    <3>1. Quiet(RowOf(w), FrameOf(w), RowOf(w)', FrameOf(w)')
      BY <2>2, CallInProgress DEF RowOf, FrameOf
    <3>2. StageFits(w)
      BY DEF GInv, StagesFit
    <3> QED
      BY <3>1, <3>2 DEF StageFits, Quiet, Moves, KeepsWriter
  <2> QED
    BY <2>1, <2>2
<1>5. OneWriter'
  BY DEF GInv, OneWriter, SameMessage
<1> QED
  BY <1>1, <1>2, <1>3, <1>4, <1>5 DEF GInv, StagesFit

\* A step of worker w's call, which moves the rows and the frame of its message
\* to e and l and itself to stage st.
WorkerMoves(w, st, e, l) ==
    /\ stage[w] # "none"
    /\ submitted' = submitted
    /\ stage' = [stage EXCEPT ![w] = st]
    /\ \/ call' = call
       \/ st = "none" /\ \E c : c.pc = "done" /\ call' = [call EXCEPT ![w] = c]
    /\ \A s \in Subjects, g \in Generations :
           IF s = call[w].subject /\ g = call[w].generation
           THEN delivery'[s][g] = e /\ sink'[s][g] = l
           ELSE delivery'[s][g] = delivery[s][g] /\ sink'[s][g] = sink[s][g]
    /\ Moves(RowOf(w), FrameOf(w), e, l)
    /\ stage[w] \in Writing \/ KeepsWriter(RowOf(w), FrameOf(w), e, l)
    /\ st \in Writing => stage[w] \in Writing \/ (FrameOf(w) = "none" /\ Unwritten(RowOf(w)))
    /\ st = "prepared" => e.outbox # "none"
    /\ st \in {"claimed", "refused", "backpressure"} => e.outbox = "WriteStarted" /\ l = "none"
    /\ st = "sinking" => l # "none" /\ (e.outbox = "Failed" => e.error = "rejected")

\* A worker moves the rows and the frame of its own message: the invariant is kept when the
\* new rows and the new stage are in order.
LEMMA WorkerStep ==
    ASSUME GInv, TypeOK', SessionsFit',
           NEW w \in Workers, NEW st, NEW e, NEW l, WorkerMoves(w, st, e, l)
    PROVE  GInv' /\ FateMoves
<1> USE DEF WorkerMoves
<1> DEFINE s == call[w].subject
           g == call[w].generation
<1>0. /\ s \in Subjects /\ g \in Generations /\ g \in submitted[s]
      /\ w \in DOMAIN stage /\ w \in DOMAIN call
  BY CallInProgress DEF GInv, TypeOK
<1>1. ASSUME NEW t \in Subjects, NEW i \in Generations
      PROVE  /\ Moves(delivery[t][i], sink[t][i], delivery'[t][i], sink'[t][i])
             /\ delivery[t][i] = NoDelivery => delivery'[t][i] = NoDelivery \/ i \in submitted[t]
  <2>1. CASE t = s /\ i = g
    BY <1>0, <2>1 DEF RowOf, FrameOf
  <2>2. CASE ~(t = s /\ i = g)
    <3>1. Quiet(delivery[t][i], sink[t][i], delivery[t][i], sink[t][i])
      BY SameIsQuiet, SMT DEF GInv, TypeOK, RowsFit
    <3> QED
      BY <2>2, <3>1 DEF Quiet
  <2> QED
    BY <2>1, <2>2
<1>2. /\ RowsFit' /\ FateMoves
      /\ \A t \in Subjects, i \in Generations : delivery'[t][i] # NoDelivery => i \in submitted[t]
  BY <1>1, RowsMove
<1>3. RowsWereSubmitted'
  <2> SUFFICES ASSUME NEW v \in Workers, call'[v].pc = "busy"
               PROVE  call'[v].generation \in submitted[call'[v].subject]
    BY <1>2 DEF RowsWereSubmitted
  <2>1. call'[v] = call[v]
    BY <1>0 DEF GInv, TypeOK
  <2> QED
    BY <2>1 DEF GInv, RowsWereSubmitted
<1>4. ASSUME NEW v \in Workers, stage'[v] # "none"
      PROVE  call'[v] = call[v] /\ (v # w => stage'[v] = stage[v]) /\ (v = w => stage'[v] = st)
  BY <1>0, <1>4 DEF GInv, TypeOK
<1>5. ASSUME NEW v \in Workers
      PROVE  StageFits(v)'
  <2>1. CASE stage'[v] = "none"
    BY <2>1 DEF StageFits
  <2>2. CASE stage'[v] # "none" /\ v = w
    <3>1. RowOf(v)' = e /\ FrameOf(v)' = l /\ stage'[v] = st
      BY <1>0, <1>4, <2>2, SMT DEF RowOf, FrameOf
    <3> QED
      BY <3>1 DEF StageFits
  <2>3. CASE stage'[v] # "none" /\ v # w
    <3>1. call'[v] = call[v] /\ stage'[v] = stage[v] /\ stage[v] # "none"
      BY <1>4, <2>3
    <3>2. StageFits(v) /\ call[v].subject \in Subjects /\ call[v].generation \in Generations
      BY <3>1, CallInProgress DEF GInv, StagesFit
    <3> DEFINE t == call[v].subject
               i == call[v].generation
    <3>a. /\ RowOf(v) = delivery[t][i] /\ RowOf(v)' = delivery'[t][i]
          /\ FrameOf(v) = sink[t][i] /\ FrameOf(v)' = sink'[t][i]
      BY <3>1 DEF RowOf, FrameOf
    <3>3. CASE SameMessage(v, w)
      <4>1. RowOf(v) = RowOf(w) /\ FrameOf(v) = FrameOf(w) /\ RowOf(v)' = e /\ FrameOf(v)' = l
        BY <3>a, <3>2, <3>3 DEF SameMessage, RowOf, FrameOf
      <4>2. CASE stage[v] \in Writing
        <5>1. stage[w] \notin Writing
          BY <2>3, <3>3, <4>2 DEF GInv, OneWriter
        <5> QED
          BY <3>1, <3>2, <4>1, <5>1 DEF StageFits, Moves, KeepsWriter
      <4>3. CASE stage[v] \notin Writing
        BY <3>1, <3>2, <4>1, <4>3 DEF StageFits, Moves, Writing
      <4> QED
        BY <4>2, <4>3
    <3>4. CASE ~SameMessage(v, w)
      <4>1. RowOf(v)' = RowOf(v) /\ FrameOf(v)' = FrameOf(v)
        BY <3>a, <3>2, <3>4, SMT DEF SameMessage
      <4> QED
        BY <3>1, <3>2, <4>1 DEF StageFits
    <3> QED
      BY <3>3, <3>4
  <2> QED
    BY <2>1, <2>2, <2>3
<1>6. OneWriter'
  <2> SUFFICES ASSUME NEW u \in Workers, NEW v \in Workers,
                      stage'[u] \in Writing, stage'[v] \in Writing, SameMessage(u, v)', u # v
               PROVE  FALSE
    BY DEF OneWriter
  <2>1. call'[u] = call[u] /\ call'[v] = call[v] /\ SameMessage(u, v)
    BY <1>4 DEF Writing, SameMessage
  <2>2. PICK z \in Workers : (z # w /\ (z = u \/ z = v) /\ SameMessage(z, w)) \/ (u # w /\ v # w)
    BY <2>1, SMT DEF SameMessage
  <2>3. CASE u # w /\ v # w
    BY <1>4, <2>1, <2>3 DEF Writing, GInv, OneWriter
  <2>4. CASE z # w /\ (z = u \/ z = v) /\ SameMessage(z, w) /\ (u = w \/ v = w)
    <3>1. stage[z] \in Writing /\ stage'[w] = st /\ st \in Writing
      BY <1>4, <2>4 DEF Writing
    <3>2. RowOf(z) = RowOf(w) /\ FrameOf(z) = FrameOf(w)
      BY <2>4 DEF SameMessage, RowOf, FrameOf
    <3>3. StageFits(z)
      BY DEF GInv, StagesFit
    <3>4. stage[w] \notin Writing
      BY <2>4, <3>1 DEF GInv, OneWriter
    <3> QED
      BY <3>1, <3>2, <3>3, <3>4 DEF StageFits, Unwritten, Writing
  <2> QED
    BY <2>2, <2>3, <2>4
<1> QED
  BY <1>2, <1>3, <1>5, <1>6 DEF GInv, StagesFit

-----------------------------------------------------------------------------
(* The steps of a call.                                                    *)

\* The call of w is answered, and the answer is true of the bytes.
Responds(w) ==
    \E o \in Answers :
        Answer(w, o) /\ o \in Port!AnswersFor(Fate'[call[w].subject][call[w].generation])

\* An answer with a true outcome o, over rows that become e.
LEMMA AnswerStep ==
    ASSUME GInv, NEW w \in Workers, stage[w] # "none", NEW e, NEW o,
           AnswerWith(w, e, o), UNCHANGED <<sink, session, live, guard, expired>>,
           Moves(RowOf(w), FrameOf(w), e, FrameOf(w)),
           KeepsWindow(RowOf(w), e),
           stage[w] \in Writing \/ KeepsWriter(RowOf(w), FrameOf(w), e, FrameOf(w)),
           Reply(o) \in Answers,
           Reply(o) \in Port!AnswersFor(FateOf(e, FrameOf(w)))
    PROVE  GInv' /\ FateMoves /\ WindowsMove /\ Responds(w)
<1> DEFINE s == call[w].subject
           g == call[w].generation
           c == Done(s, g, Reply(o))
<1>0. s \in Subjects /\ g \in Generations /\ e \in Deliveries
  BY CallInProgress DEF Moves
<1>1. /\ call' = [call EXCEPT ![w] = c] /\ submitted' = submitted
      /\ stage' = [stage EXCEPT ![w] = "none"]
      /\ delivery' = [delivery EXCEPT ![s][g] = e]
      /\ Answer(w, Reply(o))
  BY DEF AnswerWith, Answer
<1>2. /\ delivery' \in [Subjects -> [Generations -> Deliveries]]
      /\ \A t \in Subjects, i \in Generations :
            delivery'[t][i] = IF t = s /\ i = g THEN e ELSE delivery[t][i]
  <2>1. delivery \in [Subjects -> [Generations -> Deliveries]]
    BY DEF GInv, TypeOK
  <2> QED
    BY <1>0, <1>1, <2>1, PointUpdate
<1>3. c \in Calls /\ c.pc = "done"
  BY <1>0 DEF Done, Calls, CallOutcomes
<1>4. TypeOK'
  <2>1. call' \in [Workers -> Calls] /\ stage' \in [Workers -> Stages]
    BY <1>1, <1>3 DEF GInv, TypeOK, Stages
  <2>2. \A v \in Workers : stage'[v] # "none" <=> call'[v].pc = "busy"
    BY <1>1, <1>3 DEF GInv, TypeOK
  <2> QED
    BY <1>1, <1>2, <2>1, <2>2 DEF GInv, TypeOK
<1>5. SessionsFit'
  BY SessionsStay
<1>6. \A t \in Subjects, i \in Generations :
         IF t = s /\ i = g
         THEN delivery'[t][i] = e /\ sink'[t][i] = FrameOf(w)
         ELSE delivery'[t][i] = delivery[t][i] /\ sink'[t][i] = sink[t][i]
  BY <1>2 DEF FrameOf
<1>7. WindowsMove
  <2>1. ASSUME NEW t \in Subjects, NEW i \in Generations
        PROVE  KeepsWindow(delivery[t][i], delivery'[t][i])
    BY <1>6 DEF KeepsWindow, RowOf
  <2> QED
    BY <2>1 DEF WindowsMove
<1>8. GInv' /\ FateMoves
  <2> DEFINE st == "none"
             l == FrameOf(w)
  <2>1. \/ call' = call
        \/ st = "none" /\ \E b : b.pc = "done" /\ call' = [call EXCEPT ![w] = b]
    BY <1>1, <1>3
  <2>2. /\ st \in Writing => stage[w] \in Writing \/ (FrameOf(w) = "none" /\ Unwritten(RowOf(w)))
        /\ st = "prepared" => e.outbox # "none"
        /\ st \in {"claimed", "refused", "backpressure"} => e.outbox = "WriteStarted" /\ l = "none"
        /\ st = "sinking" => l # "none" /\ (e.outbox = "Failed" => e.error = "rejected")
    BY DEF Writing
  <2>3. WorkerMoves(w, st, e, l)
    BY <1>1, <1>6, <2>1, <2>2 DEF WorkerMoves
  <2> HIDE DEF st, l
  <2> QED
    BY <1>4, <1>5, <2>3, WorkerStep
<1>9. Fate'[s][g] = FateOf(e, FrameOf(w))
  BY <1>0, <1>6, FateAt, SMT
<1> QED
  BY <1>1, <1>7, <1>8, <1>9 DEF Responds

\* A call that goes on, over rows that become e.
LEMMA MoveStep ==
    ASSUME GInv, NEW w \in Workers, stage[w] # "none", NEW e, NEW st \in {"prepared", "claimed"},
           MoveTo(w, st, e), UNCHANGED <<sink, session, live, guard, expired>>,
           Moves(RowOf(w), FrameOf(w), e, FrameOf(w)),
           KeepsWriter(RowOf(w), FrameOf(w), e, FrameOf(w)),
           WindowsMove,
           st = "prepared" => e.outbox # "none",
           st = "claimed" => /\ e.outbox = "WriteStarted" /\ FrameOf(w) = "none"
                             /\ Unwritten(RowOf(w))
    PROVE  GInv' /\ FateMoves /\ WindowsMove /\ UNCHANGED callVars
<1> DEFINE s == call[w].subject
           g == call[w].generation
<1>0. s \in Subjects /\ g \in Generations /\ e \in Deliveries /\ call[w].pc = "busy"
  BY CallInProgress DEF Moves
<1>1. /\ call' = call /\ submitted' = submitted
      /\ stage' = [stage EXCEPT ![w] = st]
      /\ delivery' = [delivery EXCEPT ![s][g] = e]
  BY DEF MoveTo, callVars
<1>2. /\ delivery' \in [Subjects -> [Generations -> Deliveries]]
      /\ \A t \in Subjects, i \in Generations :
            delivery'[t][i] = IF t = s /\ i = g THEN e ELSE delivery[t][i]
  <2>1. delivery \in [Subjects -> [Generations -> Deliveries]]
    BY DEF GInv, TypeOK
  <2> QED
    BY <1>0, <1>1, <2>1, PointUpdate, SMT
<1>4. TypeOK'
  <2>1. stage' \in [Workers -> Stages]
    BY <1>1 DEF GInv, TypeOK, Stages
  <2>2. \A v \in Workers : stage'[v] # "none" <=> call'[v].pc = "busy"
    BY <1>0, <1>1 DEF GInv, TypeOK
  <2> QED
    BY <1>1, <1>2, <2>1, <2>2 DEF GInv, TypeOK
<1>5. SessionsFit'
  BY SessionsStay
<1>6. \A t \in Subjects, i \in Generations :
         IF t = s /\ i = g
         THEN delivery'[t][i] = e /\ sink'[t][i] = FrameOf(w)
         ELSE delivery'[t][i] = delivery[t][i] /\ sink'[t][i] = sink[t][i]
  BY <1>2 DEF FrameOf
<1>8. GInv' /\ FateMoves
  <2> DEFINE l == FrameOf(w)
  <2>1. /\ st \in Writing => stage[w] \in Writing \/ (FrameOf(w) = "none" /\ Unwritten(RowOf(w)))
        /\ st = "prepared" => e.outbox # "none"
        /\ st \in {"claimed", "refused", "backpressure"} => e.outbox = "WriteStarted" /\ l = "none"
        /\ st = "sinking" => l # "none" /\ (e.outbox = "Failed" => e.error = "rejected")
    BY DEF Writing
  <2>2. WorkerMoves(w, st, e, l)
    BY <1>1, <1>6, <2>1 DEF WorkerMoves
  <2> HIDE DEF l
  <2> QED
    BY <1>4, <1>5, <2>2, WorkerStep
<1> QED
  BY <1>1, <1>8 DEF callVars

\* A row that does not change moves quietly.
LEMMA RowStays ==
    ASSUME GInv, NEW w \in Workers, stage[w] # "none"
    PROVE  LET d == RowOf(w)
               k == FrameOf(w)
           IN  Moves(d, k, d, k) /\ KeepsWindow(d, d) /\ KeepsWriter(d, k, d, k)
BY CallInProgress, SameIsQuiet DEF Quiet

\* A message is rejected before it is bound to a session.
Rejected(a) == [NoDelivery EXCEPT !.attempt = a]

\* Recording a rejection before there is a session is a legal move of the rows.
LEMMA RejectMoves ==
    ASSUME NEW a \in {"Cancelled", "NoActiveSession", "Backpressure"}, NEW e, e = Rejected(a)
    PROVE  /\ Moves(NoDelivery, "none", e, "none") /\ KeepsWindow(NoDelivery, e)
           /\ KeepsWriter(NoDelivery, "none", e, "none")
           /\ FateOf(e, "none") = "not_written"
<1>1. /\ e \in Deliveries /\ NoDelivery \in Deliveries /\ "none" \in SinkStates
      /\ e.outbox = "none" /\ e.attempt = a /\ e.session = {} /\ e.error = "none" /\ e.sent = "none"
      /\ NoDelivery.outbox = "none"
  BY DEF Rejected, NoDelivery, Deliveries, OutboxStatuses, AttemptStatuses, SinkStates
<1>2. RowOK(e, "none") /\ RowOK(NoDelivery, "none") /\ Unbound(e)
  BY <1>1 DEF RowOK, Unbound
<1>3. FateOf(e, "none") = "not_written" /\ FateOf(NoDelivery, "none") = "open"
  BY <1>1, <1>2, FateFacts, SMT DEF LeftTheProcess
<1> QED
  BY <1>1, <1>2, <1>3, PortFacts DEF Moves, KeepsWindow, KeepsWriter, Counts

\* A message is bound to session x.
BoundTo(x) == [NoDelivery EXCEPT !.outbox = "Pending", !.attempt = "Pending", !.session = {x}]

\* So is binding a message to a session.
LEMMA BindMoves ==
    ASSUME NEW x \in Sessions, NEW e, e = BoundTo(x)
    PROVE  /\ Moves(NoDelivery, "none", e, "none")
           /\ KeepsWriter(NoDelivery, "none", e, "none")
           /\ e.outbox = "Pending" /\ e.session = {x}
<1>1. /\ e \in Deliveries /\ NoDelivery \in Deliveries /\ "none" \in SinkStates
      /\ e.outbox = "Pending" /\ e.attempt = "Pending" /\ e.session = {x}
      /\ e.error = "none" /\ e.sent = "none" /\ NoDelivery.outbox = "none"
  BY DEF BoundTo, NoDelivery, Deliveries, OutboxStatuses, AttemptStatuses, SinkStates
<1>2. RowOK(e, "none") /\ RowOK(NoDelivery, "none") /\ Unwritten(e)
  BY <1>1 DEF RowOK, Unwritten
<1>3. FateOf(e, "none") = "open" /\ FateOf(NoDelivery, "none") = "open"
  BY <1>1, <1>2, FateFacts, SMT DEF LeftTheProcess
<1> QED
  BY <1>1, <1>2, <1>3, PortFacts DEF Moves, KeepsWriter

\* The port answers with answers.
LEMMA AnswersAreAnswers ==
    ASSUME NEW d \in Deliveries, NEW k \in SinkStates, RowOK(d, k)
    PROVE  Port!AnswersFor(FateOf(d, k)) \subseteq Answers
<1>1. FateOf(d, k) \in {"written", "open", "started", "not_written"}
  BY FateFacts DEF RowOK
<1> QED
  BY <1>1, PortFacts DEF Answers, WrittenAnswers, NotWrittenAnswers

\* Preparing a delivery keeps the invariant, and is a step of the port.
LEMMA PrepareStep ==
    ASSUME GInv, NEW w \in Workers, Prepare(w)
    PROVE  GInv' /\ FateMoves /\ WindowsMove /\ (Responds(w) \/ UNCHANGED callVars)
<1> DEFINE s == call[w].subject
           g == call[w].generation
           d == RowOf(w)
           k == FrameOf(w)
<1>a. stage[w] = "enter" /\ UNCHANGED <<sink, session, live, guard, expired>>
  BY DEF Prepare
<1>0. /\ s \in Subjects /\ g \in Generations /\ stage[w] = "enter"
      /\ d \in Deliveries /\ k \in SinkStates /\ RowOK(d, k)
      /\ UNCHANGED <<sink, session, live, guard, expired>>
  BY <1>a, CallInProgress
<1>1. CASE d = NoDelivery /\ \E a \in {"Cancelled", "NoActiveSession", "Backpressure"},
                                o \in {"RejectedExpired", "RejectedRetryable"} :
                                AnswerWith(w, Rejected(a), o)
  <2>1. PICK a \in {"Cancelled", "NoActiveSession", "Backpressure"},
             o \in {"RejectedExpired", "RejectedRetryable"} : AnswerWith(w, Rejected(a), o)
    BY <1>1
  <2>2. PICK e : e = Rejected(a)
    OBVIOUS
  <2>3. k = "none"
    BY <1>0, <1>1, SMT DEF RowOK, Unbound, Unwritten, NoDelivery
  <2>4. /\ Moves(d, k, e, k) /\ KeepsWindow(d, e) /\ KeepsWriter(d, k, e, k)
        /\ FateOf(e, k) = "not_written"
    BY <1>1, <2>2, <2>3, RejectMoves
  <2>5. Reply(o) \in Answers /\ Reply(o) \in Port!AnswersFor(FateOf(e, k))
    BY <2>4, PortFacts DEF Reply, Answers, NotWrittenAnswers
  <2>6. AnswerWith(w, e, o)
    BY <2>1, <2>2
  <2> QED
    BY <1>0, <2>4, <2>5, <2>6, AnswerStep
<1>2. CASE d = NoDelivery /\ \E x \in Routable(s) :
              /\ ~(s \in Commands /\ WindowIsFull(x))
              /\ MoveTo(w, "prepared", BoundTo(x))
  <2>1. PICK x \in Routable(s) :
              ~(s \in Commands /\ WindowIsFull(x)) /\ MoveTo(w, "prepared", BoundTo(x))
    BY <1>2
  <2>e. PICK e : e = BoundTo(x) /\ MoveTo(w, "prepared", e)
    BY <2>1
  <2>2. x \in Sessions
    BY DEF Routable
  <2>3. k = "none"
    BY <1>0, <1>2, SMT DEF RowOK, Unbound, Unwritten, NoDelivery
  <2>4. /\ Moves(d, k, e, k) /\ KeepsWriter(d, k, e, k)
        /\ e.outbox = "Pending" /\ e.session = {x} /\ e \in Deliveries
    BY <1>2, <2>e, <2>2, <2>3, BindMoves, SMT DEF Moves
  <2>5. \A t \in Subjects, i \in Generations :
            delivery'[t][i] = IF t = s /\ i = g THEN e ELSE delivery[t][i]
    <3>1. delivery' = [delivery EXCEPT ![s][g] = e]
      BY <2>e DEF MoveTo
    <3>2. delivery \in [Subjects -> [Generations -> Deliveries]]
      BY DEF GInv, TypeOK
    <3> QED
      BY <1>0, <2>4, <3>1, <3>2, PointUpdate, SMT
  <2>6. WindowsMove
    <3>1. \A t \in Subjects, i \in Generations :
              ~(t = s /\ i = g) => delivery'[t][i] = delivery[t][i]
      BY <2>5
    <3>2. delivery'[s][g].session = {x}
      BY <1>0, <2>4, <2>5
    <3> QED
      BY <1>0, <2>1, <2>2, <3>1, <3>2 DEF WindowsMove
  <2> QED
    BY <1>0, <2>e, <2>4, <2>6, MoveStep
<1>3. CASE Unbound(d) /\ AnswerWith(w, d, ReplayRejection(d))
  <2>1. k = "none" /\ FateOf(d, k) = "not_written"
    BY <1>0, <1>3, FateFacts DEF RowOK, Unbound, Unwritten, NoDelivery, LeftTheProcess
  <2>2. /\ Reply(ReplayRejection(d)) \in Answers
        /\ Reply(ReplayRejection(d)) \in Port!AnswersFor(FateOf(d, k))
    BY <2>1, PortFacts DEF Reply, ReplayRejection, Answers, NotWrittenAnswers
  <2>3. Moves(d, k, d, k) /\ KeepsWindow(d, d) /\ KeepsWriter(d, k, d, k)
    BY <1>0, RowStays
  <2> QED
    BY <1>0, <1>3, <2>2, <2>3, AnswerStep
<1>4. CASE Unwritten(d) /\ MoveTo(w, "prepared", d)
  <2>1. Moves(d, k, d, k) /\ KeepsWindow(d, d) /\ KeepsWriter(d, k, d, k)
    BY <1>0, RowStays
  <2>2. \A t \in Subjects, i \in Generations : delivery'[t][i] = delivery[t][i]
    <3>1. delivery' = [delivery EXCEPT ![s][g] = d]
      BY <1>4 DEF MoveTo
    <3> QED
      BY <1>0, <3>1 DEF GInv, TypeOK, RowOf
  <2>3. WindowsMove
    <3>1. \A t \in Subjects, i \in Generations : KeepsWindow(delivery[t][i], delivery'[t][i])
      BY <2>2 DEF KeepsWindow
    <3> QED
      BY <3>1 DEF WindowsMove
  <2>4. d.outbox # "none"
    BY <1>4 DEF Unwritten
  <2> QED
    BY <1>0, <1>4, <2>1, <2>3, <2>4, MoveStep
<1>5. CASE d.outbox # "none" /\ ~Unwritten(d) /\ AnswerWith(w, d, DurableOutcome(d))
  <2>1. /\ DurableOutcome(d) # "Inconsistent"
        /\ DurableOutcome(d) \in Port!AnswersFor(FateOf(d, k))
    BY <1>0, <1>5, ReplayIsTrue
  <2>2. Reply(DurableOutcome(d)) = DurableOutcome(d) /\ DurableOutcome(d) \in Answers
    BY <1>0, <2>1, FateFacts, PortFacts, AnswersAreAnswers DEF Reply
  <2>3. Moves(d, k, d, k) /\ KeepsWindow(d, d) /\ KeepsWriter(d, k, d, k)
    BY <1>0, RowStays
  <2> QED
    BY <1>0, <1>5, <2>1, <2>2, <2>3, AnswerStep
<1>6. \/ d = NoDelivery /\ \E late \in Reads(s) :
             \/ AnswerWith(w, Rejected("Cancelled"), "RejectedExpired")
             \/ AnswerWith(w, Rejected("NoActiveSession"), "RejectedRetryable")
             \/ \E x \in Routable(s) :
                   IF s \in Commands /\ WindowIsFull(x)
                   THEN AnswerWith(w, Rejected("Backpressure"), "RejectedRetryable")
                   ELSE MoveTo(w, "prepared", BoundTo(x))
      \/ Unbound(d) /\ AnswerWith(w, d, ReplayRejection(d))
      \/ Unwritten(d) /\ MoveTo(w, "prepared", d)
      \/ d.outbox # "none" /\ ~Unwritten(d) /\ AnswerWith(w, d, DurableOutcome(d))
  BY DEF Prepare, Rejected, BoundTo
<1> QED
  BY <1>1, <1>2, <1>3, <1>4, <1>5, <1>6

\* A frame that may still be written is cancelled, or claimed.
CancelledAs(d, a, r) == [d EXCEPT !.outbox = "Cancelled", !.attempt = a, !.error = r]

\* Cancelling an unwritten message is a legal move of the rows.
LEMMA CancelMoves ==
    ASSUME NEW d \in Deliveries, NEW k \in SinkStates, RowOK(d, k), Unwritten(d),
           NEW a \in {"Cancelled", "NoActiveSession"}, NEW r \in {"none", "expired"}, NEW e,
           e = CancelledAs(d, a, r)
    PROVE  /\ Moves(d, k, e, k) /\ KeepsWindow(d, e) /\ KeepsWriter(d, k, e, k)
           /\ FateOf(e, k) = "not_written"
<1>1. /\ k = "none" /\ d.error = "none" /\ d.sent = "none" /\ d.session \in {{x} : x \in Sessions}
      /\ FateOf(d, k) = "open"
  BY UnwrittenFacts
<1>2. /\ e \in Deliveries /\ e.outbox = "Cancelled" /\ e.attempt = a /\ e.session = d.session
      /\ e.error = r /\ e.sent = d.sent
  BY DEF CancelledAs, Deliveries, OutboxStatuses, AttemptStatuses
<1>3. RowOK(e, k)
  BY <1>1, <1>2 DEF RowOK
<1>4. FateOf(e, k) = "not_written"
  BY <1>1, <1>2, <1>3, FateFacts DEF LeftTheProcess
<1> QED
  BY <1>1, <1>2, <1>3, <1>4, PortFacts DEF Moves, KeepsWindow, KeepsWriter, Counts, Unwritten

\* So is claiming it for writing.
LEMMA ClaimMoves ==
    ASSUME NEW d \in Deliveries, NEW k \in SinkStates, RowOK(d, k), Unwritten(d),
           NEW e, e = [d EXCEPT !.outbox = "WriteStarted"]
    PROVE  /\ Moves(d, k, e, k) /\ KeepsWindow(d, e) /\ KeepsWriter(d, k, e, k)
           /\ e.outbox = "WriteStarted" /\ k = "none"
<1>1. /\ k = "none" /\ d.error = "none" /\ d.sent = "none" /\ d.session \in {{x} : x \in Sessions}
      /\ FateOf(d, k) = "open"
  BY UnwrittenFacts
<1>2. /\ e \in Deliveries /\ e.outbox = "WriteStarted" /\ e.attempt = d.attempt
      /\ e.session = d.session /\ e.error = d.error /\ e.sent = d.sent
  BY DEF Deliveries, OutboxStatuses
<1>3. RowOK(e, k)
  BY <1>1, <1>2 DEF RowOK, Unwritten
<1>4. FateOf(e, k) = "started"
  BY <1>1, <1>2, <1>3, FateFacts DEF LeftTheProcess
<1> QED
  BY <1>1, <1>2, <1>3, <1>4, PortFacts
     DEF Moves, KeepsWindow, KeepsWriter, Counts, Unwritten, PeerRejected

\* Claiming the outbox row keeps the invariant, and is a step of the port.
LEMMA ClaimOutboxStep ==
    ASSUME GInv, NEW w \in Workers, ClaimOutbox(w)
    PROVE  GInv' /\ FateMoves /\ WindowsMove /\ (Responds(w) \/ UNCHANGED callVars)
<1> DEFINE s == call[w].subject
           g == call[w].generation
           d == RowOf(w)
           k == FrameOf(w)
<1>a. stage[w] = "prepared" /\ UNCHANGED <<sink, session, live, guard, expired>>
  BY DEF ClaimOutbox
<1>0. /\ s \in Subjects /\ g \in Generations /\ d.outbox # "none"
      /\ d \in Deliveries /\ k \in SinkStates /\ RowOK(d, k)
  BY <1>a, CallInProgress DEF GInv, StagesFit, StageFits
<1>1. CASE ~Unwritten(d) /\ AnswerWith(w, d, DurableOutcome(d))
  <2>1. /\ DurableOutcome(d) # "Inconsistent"
        /\ DurableOutcome(d) \in Port!AnswersFor(FateOf(d, k))
    BY <1>0, <1>1, ReplayIsTrue
  <2>2. Reply(DurableOutcome(d)) = DurableOutcome(d) /\ DurableOutcome(d) \in Answers
    BY <1>0, <2>1, AnswersAreAnswers DEF Reply
  <2>3. Moves(d, k, d, k) /\ KeepsWindow(d, d) /\ KeepsWriter(d, k, d, k)
    BY <1>a, RowStays
  <2> QED
    BY <1>a, <1>1, <2>1, <2>2, <2>3, AnswerStep
<1>2. CASE Unwritten(d) /\ \E a \in {"Cancelled", "NoActiveSession"}, r \in {"none", "expired"},
                             o \in {"RejectedRetryable", "RejectedExpired"} :
              AnswerWith(w, CancelledAs(d, a, r), o)
  <2>1. PICK a \in {"Cancelled", "NoActiveSession"}, r \in {"none", "expired"},
             o \in {"RejectedRetryable", "RejectedExpired"} :
              AnswerWith(w, CancelledAs(d, a, r), o)
    BY <1>2
  <2>2. PICK e : /\ e = CancelledAs(d, a, r)
                 /\ AnswerWith(w, e, o)
    BY <2>1
  <2>3. /\ Moves(d, k, e, k) /\ KeepsWindow(d, e) /\ KeepsWriter(d, k, e, k)
        /\ FateOf(e, k) = "not_written"
    BY <1>0, <1>2, <2>2, CancelMoves, SMT
  <2>4. Reply(o) \in Answers /\ Reply(o) \in Port!AnswersFor(FateOf(e, k))
    BY <2>3, PortFacts DEF Reply, Answers, NotWrittenAnswers
  <2> QED
    BY <1>a, <2>2, <2>3, <2>4, AnswerStep
<1>3. CASE Unwritten(d) /\ MoveTo(w, "claimed", [d EXCEPT !.outbox = "WriteStarted"])
  <2>1. PICK e : e = [d EXCEPT !.outbox = "WriteStarted"] /\ MoveTo(w, "claimed", e)
    BY <1>3
  <2>2. /\ Moves(d, k, e, k) /\ KeepsWindow(d, e) /\ KeepsWriter(d, k, e, k)
        /\ e.outbox = "WriteStarted" /\ k = "none"
    BY <1>0, <1>3, <2>1, ClaimMoves
  <2>3. \A t \in Subjects, i \in Generations :
            delivery'[t][i] = IF t = s /\ i = g THEN e ELSE delivery[t][i]
    <3>1. delivery' = [delivery EXCEPT ![s][g] = e]
      BY <2>1 DEF MoveTo
    <3>2. delivery \in [Subjects -> [Generations -> Deliveries]] /\ e \in Deliveries
      BY <2>2 DEF GInv, TypeOK, Moves
    <3> QED
      BY <1>0, <3>1, <3>2, PointUpdate
  <2>4. WindowsMove
    <3>1. ASSUME NEW t \in Subjects, NEW i \in Generations
          PROVE  KeepsWindow(delivery[t][i], delivery'[t][i])
      BY <2>2, <2>3 DEF KeepsWindow, RowOf
    <3> QED
      BY <3>1 DEF WindowsMove
  <2> QED
    BY <1>a, <1>3, <2>1, <2>2, <2>4, MoveStep
<1>4. \/ ~Unwritten(d) /\ AnswerWith(w, d, DurableOutcome(d))
      \/ /\ Unwritten(d)
         /\ \/ AnswerWith(w, CancelledAs(d, "NoActiveSession", "none"), "RejectedRetryable")
            \/ AnswerWith(w, CancelledAs(d, "Cancelled", "expired"), "RejectedExpired")
            \/ MoveTo(w, "claimed", [d EXCEPT !.outbox = "WriteStarted"])
  BY DEF ClaimOutbox, CancelledAs
<1> QED
  BY <1>1, <1>2, <1>3, <1>4

\* Handing the frame to the transport does.
LEMMA HandOverStep ==
    ASSUME GInv, NEW w \in Workers, HandOver(w)
    PROVE  GInv' /\ FateMoves /\ WindowsMove /\ UNCHANGED callVars
<1> DEFINE s == call[w].subject
           g == call[w].generation
           d == RowOf(w)
           k == FrameOf(w)
<1>1. /\ stage[w] = "claimed" /\ UNCHANGED <<call, submitted, delivery, session, guard, expired>>
      /\ \E x \in d.session :
            \/ /\ sink' = [sink EXCEPT ![s][g] = "queued"]
               /\ stage' = [stage EXCEPT ![w] = "sinking"]
               /\ UNCHANGED live
            \/ /\ live[x] = "open"
               /\ live' = [live EXCEPT ![x] = "closed"]
               /\ stage' = [stage EXCEPT ![w] = "backpressure"]
               /\ UNCHANGED sink
            \/ /\ stage' = [stage EXCEPT ![w] = "refused"]
               /\ UNCHANGED <<sink, live>>
  BY DEF HandOver, callVars
<1>2. /\ s \in Subjects /\ g \in Generations /\ call[w].pc = "busy"
      /\ d \in Deliveries /\ k = "none" /\ RowOK(d, k) /\ d.outbox = "WriteStarted"
      /\ d.session \subseteq Sessions
  <2>1. StageFits(w)
    BY DEF GInv, StagesFit
  <2> QED
    BY <1>1, <2>1, CallInProgress DEF StageFits, Deliveries
<1>3. PICK st \in {"sinking", "backpressure", "refused"}, l \in {"none", "queued"} :
         /\ stage' = [stage EXCEPT ![w] = st]
         /\ sink' \in [Subjects -> [Generations -> SinkStates]]
         /\ \A t \in Subjects, i \in Generations :
               sink'[t][i] = IF t = s /\ i = g THEN l ELSE sink[t][i]
         /\ l = "queued" <=> st = "sinking"
  <2>0. sink \in [Subjects -> [Generations -> SinkStates]] /\ "queued" \in SinkStates
        /\ sink[s][g] = "none"
    BY <1>2 DEF GInv, TypeOK, SinkStates, FrameOf
  <2>1. CASE sink' = [sink EXCEPT ![s][g] = "queued"] /\ stage' = [stage EXCEPT ![w] = "sinking"]
    <3>1. /\ sink' \in [Subjects -> [Generations -> SinkStates]]
          /\ \A t \in Subjects, i \in Generations :
                sink'[t][i] = IF t = s /\ i = g THEN "queued" ELSE sink[t][i]
      BY <1>2, <2>0, <2>1, PointUpdate, SMT
    <3> QED
      BY <2>1, <3>1
  <2>2. CASE /\ UNCHANGED sink
             /\ \E r \in {"backpressure", "refused"} : stage' = [stage EXCEPT ![w] = r]
    BY <2>0, <2>2
  <2> QED
    BY <1>1, <2>1, <2>2
<1>4. live' \in [Sessions -> {"none", "open", "closed"}]
      /\ \A x \in Sessions : live'[x] = "none" <=> live[x] = "none"
  BY <1>1, <1>2, SMT DEF GInv, TypeOK
<1>5. TypeOK'
  <2>1. stage' \in [Workers -> Stages]
    BY <1>3 DEF GInv, TypeOK, Stages
  <2>2. \A v \in Workers : stage'[v] # "none" <=> call'[v].pc = "busy"
    BY <1>1, <1>2, <1>3 DEF GInv, TypeOK
  <2> QED
    BY <1>1, <1>3, <1>4, <2>1, <2>2 DEF GInv, TypeOK
<1>6. SessionsFit'
  BY <1>1, <1>4, SessionsStay
<1>7. WindowsMove
  BY <1>1 DEF WindowsMove, KeepsWindow
<1>8. Moves(d, k, d, l)
  <2>1. RowOK(d, l)
    BY <1>2, SMT DEF RowOK, Unbound, Unwritten, NoDelivery, LeftTheProcess
  <2>2. FateOf(d, l) = "started" /\ FateOf(d, k) = "started" /\ l \in SinkStates
    BY <1>2, <2>1, FateFacts DEF LeftTheProcess, SinkStates
  <2> QED
    BY <1>2, <2>1, <2>2, PortFacts DEF Moves
<1>9. \A t \in Subjects, i \in Generations :
         IF t = s /\ i = g
         THEN delivery'[t][i] = d /\ sink'[t][i] = l
         ELSE delivery'[t][i] = delivery[t][i] /\ sink'[t][i] = sink[t][i]
  BY <1>1, <1>3 DEF RowOf
<1>10. WorkerMoves(w, st, d, l)
  BY <1>1, <1>2, <1>3, <1>8, <1>9 DEF WorkerMoves, Writing
<1> HIDE DEF d
<1> QED
  BY <1>1, <1>5, <1>6, <1>7, <1>10, WorkerStep DEF callVars

\* The frame of claimed rows moves on by itself.
LEMMA FlushIsQuiet ==
    ASSUME NEW d \in Deliveries, RowOK(d, "queued"), NEW r \in {"written", "partial", "dropped"}
    PROVE  Quiet(d, "queued", d, r) /\ d.session \subseteq Sessions
<1>1. d.outbox = "WriteStarted" /\ d # NoDelivery
  BY SMT DEF RowOK, Unbound, Unwritten, NoDelivery, LeftTheProcess
<1>2. RowOK(d, r)
  BY <1>1 DEF RowOK, Unbound, Unwritten, NoDelivery, LeftTheProcess
<1>3. FateOf(d, "queued") = "started" /\ FateOf(d, r) \in {"started", "written"}
  BY <1>1, <1>2, FateFacts DEF LeftTheProcess, SinkStates
<1> QED
  BY <1>1, <1>2, <1>3, PortFacts DEF Quiet, Moves, KeepsWindow, KeepsWriter, Deliveries

\* The transport writing, cutting or dropping a frame does.
LEMMA TransmitStep ==
    ASSUME GInv, NEW s \in Subjects, NEW g \in Generations, Transmit(s, g)
    PROVE  GInv' /\ FateMoves /\ WindowsMove /\ UNCHANGED callVars
<1> DEFINE d == delivery[s][g]
<1>1. PICK x \in d.session, r \in {"written", "partial", "dropped"} :
         /\ sink[s][g] = "queued"
         /\ sink' = [sink EXCEPT ![s][g] = r]
         /\ live' = live \/ live' = [live EXCEPT ![x] = IF @ = "open" THEN "closed" ELSE @]
         /\ UNCHANGED <<call, submitted, stage, delivery, session, guard, expired>>
  BY DEF Transmit, CloseSink, callVars
<1>2. d \in Deliveries /\ RowOK(d, "queued")
  BY <1>1, SMT DEF GInv, TypeOK, RowsFit
<1>3. Quiet(d, "queued", d, r) /\ x \in Sessions
  BY <1>2, FlushIsQuiet
<1>4. /\ sink' \in [Subjects -> [Generations -> SinkStates]]
      /\ \A t \in Subjects, i \in Generations :
            sink'[t][i] = IF t = s /\ i = g THEN r ELSE sink[t][i]
  <2>1. sink \in [Subjects -> [Generations -> SinkStates]] /\ r \in SinkStates
    BY DEF GInv, TypeOK, SinkStates
  <2> QED
    BY <1>1, <2>1, PointUpdate, SMT
<1>5. live' \in [Sessions -> {"none", "open", "closed"}]
      /\ \A y \in Sessions : live'[y] = "none" <=> live[y] = "none"
  BY <1>1, <1>3 DEF GInv, TypeOK
<1>6. TypeOK'
  BY <1>1, <1>4, <1>5 DEF GInv, TypeOK
<1>7. SessionsFit'
  BY <1>1, <1>5, SessionsStay
<1>8. ASSUME NEW t \in Subjects, NEW i \in Generations
      PROVE  Quiet(delivery[t][i], sink[t][i], delivery'[t][i], sink'[t][i])
  <2>1. CASE t = s /\ i = g
    BY <1>1, <1>3, <1>4, <2>1
  <2>2. CASE ~(t = s /\ i = g)
    BY <1>1, <1>4, <2>2, SameIsQuiet, SMT DEF GInv, TypeOK, RowsFit
  <2> QED
    BY <2>1, <2>2
<1> QED
  BY <1>1, <1>6, <1>7, <1>8, QuietStep DEF callVars

\* Recording the result of a write does.
LEMMA FinishWriteStep ==
    ASSUME GInv, NEW w \in Workers, FinishWrite(w)
    PROVE  GInv' /\ FateMoves /\ WindowsMove /\ Responds(w)
<1> DEFINE d == RowOf(w)
           k == FrameOf(w)
<1> DEFINE r == IF stage[w] = "sinking" THEN k ELSE stage[w]
<1>a. /\ stage[w] \in {"sinking", "refused", "backpressure"} /\ r # "queued"
      /\ UNCHANGED <<sink, session, live, guard, expired>>
      /\ \E late \in Reads(call[w].subject) :
            AnswerWith(w, AfterWrite(d, r, late), DurableOutcome(AfterWrite(d, r, late)))
  BY DEF FinishWrite, FrameOf
<1>1. PICK late \in Reads(call[w].subject) :
         AnswerWith(w, AfterWrite(d, r, late), DurableOutcome(AfterWrite(d, r, late)))
  BY <1>a
<1>b. late \in BOOLEAN
  BY DEF Reads
<1>2. d \in Deliveries /\ k \in SinkStates /\ RowOK(d, k) /\ stage[w] \in Writing
  BY <1>a, CallInProgress DEF Writing
<1>3. \/ r \in {"refused", "backpressure"} /\ k = "none" /\ d.outbox = "WriteStarted"
      \/ /\ r = k /\ k \in {"written", "partial", "dropped"}
         /\ d.outbox = "Failed" => d.error = "rejected"
  <2>1. StageFits(w)
    BY DEF GInv, StagesFit
  <2> QED
    BY <1>a, <1>2, <2>1 DEF StageFits, SinkStates
<1> HIDE DEF r
<1>4. PICK e : e = AfterWrite(d, r, late)
  OBVIOUS
<1>5. /\ Moves(d, k, e, k) /\ KeepsWindow(d, e)
      /\ e.outbox # "none" /\ ~Unwritten(e)
  BY <1>b, <1>2, <1>3, <1>4, WriteMoves
<1>6. /\ DurableOutcome(e) # "Inconsistent" /\ DurableOutcome(e) \in Port!AnswersFor(FateOf(e, k))
      /\ DurableOutcome(e) \in Answers
  BY <1>2, <1>5, ReplayIsTrue, AnswersAreAnswers DEF Moves
<1>7. Reply(DurableOutcome(e)) = DurableOutcome(e) /\ AnswerWith(w, e, DurableOutcome(e))
  BY <1>1, <1>4, <1>6 DEF Reply
<1> QED
  BY <1>a, <1>2, <1>5, <1>6, <1>7, AnswerStep

\* A store error in any stage of a call does.
LEMMA CallFailsStep ==
    ASSUME GInv, NEW w \in Workers, CallFails(w)
    PROVE  GInv' /\ FateMoves /\ WindowsMove /\ Responds(w)
<1> DEFINE d == RowOf(w)
           k == FrameOf(w)
           o == "InfrastructureError"
<1>1. /\ stage[w] # "none" /\ AnswerWith(w, d, o)
      /\ UNCHANGED <<sink, session, live, guard, expired>>
  BY DEF CallFails
<1>2. d \in Deliveries /\ k \in SinkStates /\ RowOK(d, k)
  BY <1>1, CallInProgress
<1>3. Moves(d, k, d, k) /\ KeepsWindow(d, d) /\ KeepsWriter(d, k, d, k)
  BY <1>1, RowStays
<1>4. FateOf(d, k) \in {"written", "open", "started", "not_written"}
  BY <1>2, FateFacts DEF RowOK
<1>5. Reply(o) \in Answers /\ Reply(o) \in Port!AnswersFor(FateOf(d, k))
  BY <1>4, PortFacts DEF Reply, Answers
<1> QED
  BY <1>1, <1>3, <1>5, AnswerStep

-----------------------------------------------------------------------------
(* Steps of the sessions, the client, the clock and the process.           *)

\* The rows of some sessions are closed.
LEMMA ClosedRows ==
    ASSUME GInv, NEW closing
    PROVE  /\ ClosedDeliveries(closing) \in [Subjects -> [Generations -> Deliveries]]
           /\ \A s \in Subjects, g \in Generations :
                 Quiet(delivery[s][g], sink[s][g], ClosedDeliveries(closing)[s][g], sink[s][g])
<1>1. ASSUME NEW s \in Subjects, NEW g \in Generations
      PROVE  /\ Quiet(delivery[s][g], sink[s][g], ClosedDeliveries(closing)[s][g], sink[s][g])
             /\ ClosedDeliveries(closing)[s][g] \in Deliveries
  <2> DEFINE d == delivery[s][g]
             k == sink[s][g]
  <2>1. d \in Deliveries /\ k \in SinkStates /\ RowOK(d, k)
    BY DEF GInv, TypeOK, RowsFit
  <2>2. ClosedDeliveries(closing)[s][g] = d \/ ClosedDeliveries(closing)[s][g] = AfterClose(d)
    BY DEF ClosedDeliveries
  <2>3. Quiet(d, k, d, k) /\ Quiet(d, k, AfterClose(d), k)
    BY <2>1, SameIsQuiet, CloseIsQuiet
  <2> QED
    BY <2>2, <2>3 DEF Quiet, Moves
<1>2. ClosedDeliveries(closing) = [s \in Subjects |-> [g \in Generations |->
                                      ClosedDeliveries(closing)[s][g]]]
  BY DEF ClosedDeliveries
<1> DEFINE F(s, g) == ClosedDeliveries(closing)[s][g]
<1>3. \A s \in Subjects, g \in Generations : F(s, g) \in Deliveries
  BY <1>1
<1> HIDE DEF F
<1>4. [s \in Subjects |-> [g \in Generations |-> F(s, g)]]
         \in [Subjects -> [Generations -> Deliveries]]
  BY <1>3
<1> QED
  BY <1>1, <1>2, <1>4 DEF F

\* A step that changes no row, no frame, no call and no session.
LEMMA NoRowChanges ==
    ASSUME GInv, TypeOK', SessionsFit', UNCHANGED <<call, submitted, stage, delivery, sink>>
    PROVE  GInv' /\ FateMoves /\ WindowsMove /\ UNCHANGED callVars
<1>1. ASSUME NEW s \in Subjects, NEW g \in Generations
      PROVE  Quiet(delivery[s][g], sink[s][g], delivery'[s][g], sink'[s][g])
  BY SameIsQuiet DEF GInv, TypeOK, RowsFit
<1> QED
  BY <1>1, QuietStep DEF callVars

\* Whoever replaces no session under the mutex finds every handle with its session.
LEMMA HandlesMatch ==
    ASSUME GInv, \A x \in guard : ~(Active(x) /\ live[x] = "none")
    PROVE  \A y \in Sessions : live[y] # "none" <=> Active(y)
BY DEF GInv, SessionsFit, InReplacement

\* Each step in the life of a session keeps the invariant and moves no fate it may not.
LEMMA BeginActivationStep ==
    ASSUME GInv, NEW x \in Sessions, BeginActivation(x)
    PROVE  GInv' /\ FateMoves /\ WindowsMove /\ UNCHANGED callVars
<1>1. /\ guard = {} /\ session[x].status = "New" /\ guard' = {x}
      /\ live' \in [Sessions -> {"none", "open", "closed"}]
      /\ \A y \in Sessions : live'[y] = "none" <=> live[y] = "none"
      /\ UNCHANGED <<call, submitted, stage, delivery, sink, session, expired>>
  BY DEF BeginActivation, GInv, TypeOK, callVars
<1>2. \A y \in Sessions : live[y] # "none" <=> Active(y)
  BY <1>1, HandlesMatch
<1>3. TypeOK'
  BY <1>1 DEF GInv, TypeOK
<1>4. SessionsFit'
  BY <1>1, <1>2 DEF GInv, SessionsFit, OneActiveSession, InReplacement, Active
<1> QED
  BY <1>1, <1>3, <1>4, NoRowChanges

\* Publishing the handle ends a replacement.
LEMMA PublishStep ==
    ASSUME GInv, NEW x \in Sessions, Publish(x)
    PROVE  GInv' /\ FateMoves /\ WindowsMove /\ UNCHANGED callVars
<1>1. /\ guard = {x} /\ Active(x) /\ live[x] = "none" /\ guard' = {}
      /\ live' = [y \in Sessions |-> IF y = x THEN "open"
                                     ELSE IF y \in SameRoute(x) THEN "none" ELSE live[y]]
      /\ UNCHANGED <<call, submitted, stage, delivery, sink, session, expired>>
  BY DEF Publish, callVars
<1>2. live' \in [Sessions -> {"none", "open", "closed"}]
  BY <1>1 DEF GInv, TypeOK
<1>3. TypeOK'
  BY <1>1, <1>2 DEF GInv, TypeOK
<1>4. OneActiveSession' /\ OneActiveSession
  BY <1>1 DEF GInv, SessionsFit, OneActiveSession, Active
<1>5. ASSUME NEW y \in Sessions
      PROVE  live'[y] # "none" <=> Active(y)
  <2>1. CASE y = x
    BY <1>1, <2>1
  <2>2. CASE y # x /\ y \in SameRoute(x)
    BY <1>1, <1>4, <2>2 DEF OneActiveSession, SameRoute
  <2>3. CASE y \notin SameRoute(x)
    <3>1. ~InReplacement(y) /\ y # x
      BY <1>1, <2>3 DEF InReplacement, SameRoute
    <3> QED
      BY <1>1, <2>3, <3>1 DEF GInv, SessionsFit
  <2> QED
    BY <2>1, <2>2, <2>3
<1>6. SessionsFit'
  BY <1>1, <1>4, <1>5 DEF SessionsFit, Active
<1> QED
  BY <1>1, <1>3, <1>6, NoRowChanges

\* Giving up an activation that replaced nothing yet.
LEMMA AbandonActivationStep ==
    ASSUME GInv, NEW x \in Sessions, AbandonActivation(x)
    PROVE  GInv' /\ FateMoves /\ WindowsMove /\ UNCHANGED callVars
<1>1. /\ guard = {x} /\ session[x].status = "New" /\ guard' = {}
      /\ session' = [session EXCEPT ![x] = ClosedSession]
      /\ UNCHANGED <<call, submitted, stage, delivery, sink, live, expired>>
  BY DEF AbandonActivation, callVars
<1>2. \A y \in Sessions : live[y] # "none" <=> Active(y)
  BY <1>1, HandlesMatch DEF Active
<1>3. /\ session' \in [Sessions -> SessionRows]
      /\ \A y \in Sessions : Active(y)' <=> Active(y)
  BY <1>1 DEF GInv, TypeOK, ClosedSession, SessionRows, Active
<1>4. TypeOK'
  BY <1>1, <1>3 DEF GInv, TypeOK
<1>5. SessionsFit'
  BY <1>1, <1>2, <1>3 DEF GInv, SessionsFit, OneActiveSession
<1> QED
  BY <1>1, <1>4, <1>5, NoRowChanges

\* Removing the handle and the session before the rows are closed.
LEMMA BeginCloseStep ==
    ASSUME GInv, NEW x \in Sessions, BeginClose(x)
    PROVE  GInv' /\ FateMoves /\ WindowsMove /\ UNCHANGED callVars
<1>1. /\ guard = {} /\ live[x] # "none" /\ guard' = {x}
      /\ live' \in [Sessions -> {"none", "open", "closed"}]
      /\ \A y \in Sessions : live'[y] = "none" <=> live[y] = "none"
      /\ UNCHANGED <<call, submitted, stage, delivery, sink, session, expired>>
  BY DEF BeginClose, CloseSink, GInv, TypeOK, callVars
<1>2. \A y \in Sessions : live[y] # "none" <=> Active(y)
  BY <1>1, HandlesMatch
<1>3. TypeOK'
  BY <1>1 DEF GInv, TypeOK
<1>4. SessionsFit'
  BY <1>1, <1>2 DEF GInv, SessionsFit, OneActiveSession, InReplacement, Active
<1> QED
  BY <1>1, <1>3, <1>4, NoRowChanges

\* A close whose transaction fails.
LEMMA CloseFailsStep ==
    ASSUME GInv, NEW x \in Sessions, CloseFails(x)
    PROVE  GInv' /\ FateMoves /\ WindowsMove /\ UNCHANGED callVars
<1>1. /\ guard = {x} /\ live[x] # "none" /\ guard' = {}
      /\ UNCHANGED <<call, submitted, stage, delivery, sink, session, live, expired>>
  BY DEF CloseFails, callVars
<1>2. \A y \in Sessions : live[y] # "none" <=> Active(y)
  BY <1>1, HandlesMatch
<1>3. TypeOK'
  BY <1>1 DEF GInv, TypeOK
<1>4. SessionsFit'
  BY <1>1, <1>2 DEF GInv, SessionsFit, OneActiveSession, InReplacement, Active
<1> QED
  BY <1>1, <1>3, <1>4, NoRowChanges

\* A heartbeat changes the health of a session and nothing else.
LEMMA HeartbeatStep ==
    ASSUME GInv, NEW x \in Sessions, NEW h \in {"Synced", "Unsynced", "Stale"}, Heartbeat(x, h)
    PROVE  GInv' /\ FateMoves /\ WindowsMove /\ UNCHANGED callVars
<1>1. /\ session' = [session EXCEPT ![x].health = h]
      /\ UNCHANGED <<call, submitted, stage, delivery, sink, live, guard, expired>>
  BY DEF Heartbeat, callVars
<1>2. /\ session' \in [Sessions -> SessionRows]
      /\ \A y \in Sessions : session'[y].status = session[y].status
  BY <1>1 DEF GInv, TypeOK, SessionRows
<1>3. TypeOK'
  BY <1>1, <1>2 DEF GInv, TypeOK
<1>4. SessionsFit'
  <2>1. guard \subseteq Sessions
    BY DEF GInv, TypeOK
  <2> QED
    BY <1>1, <1>2, <2>1, SMT
       DEF GInv, SessionsFit, OneActiveSession, InReplacement, Active, SameRoute
<1> QED
  BY <1>1, <1>3, <1>4, NoRowChanges

\* The new session replaces the ones of its route and takes their rows out of flight.
LEMMA ReplaceSessionStep ==
    ASSUME GInv, NEW x \in Sessions, ReplaceSession(x)
    PROVE  GInv' /\ FateMoves /\ WindowsMove /\ UNCHANGED callVars
<1> DEFINE replaced == {y \in SameRoute(x) : Active(y)}
           preFenced == {y \in SameRoute(x) : live[y] # "none"}
           mismatch == ~(preFenced \subseteq replaced)
<1>1. /\ guard = {x} /\ session[x].status = "New"
      /\ delivery' = ClosedDeliveries(replaced)
      /\ session' = [y \in Sessions |->
                       IF y \in replaced THEN ClosedSession
                       ELSE IF y = x
                       THEN IF mismatch THEN ClosedSession
                                        ELSE [status |-> "Active", health |-> "Unsynced"]
                       ELSE session[y]]
      /\ guard' = IF mismatch THEN {} ELSE guard
      /\ UNCHANGED <<call, submitted, stage, sink, live, expired>>
  BY DEF ReplaceSession, callVars
<1>2. \A y \in Sessions : live[y] # "none" <=> Active(y)
  BY <1>1, HandlesMatch DEF Active
<1>3. ~mismatch
  BY <1>2 DEF SameRoute
<1>4. guard' = {x}
  BY <1>1, <1>3
<1>5. /\ session' \in [Sessions -> SessionRows]
      /\ Active(x)' /\ session'[x].status = "Active"
      /\ \A y \in Sessions : y # x => (Active(y)' <=> Active(y) /\ y \notin SameRoute(x))
  <2>1. x \notin replaced
    BY <1>1 DEF Active
  <2> QED
    BY <1>1, <1>3, <2>1 DEF GInv, TypeOK, ClosedSession, SessionRows, Active
<1>6. TypeOK'
  <2>1. delivery' \in [Subjects -> [Generations -> Deliveries]]
    BY <1>1, ClosedRows
  <2> QED
    BY <1>1, <1>4, <1>5, <2>1 DEF GInv, TypeOK
<1>7. SessionsFit'
  <2>1. OneActiveSession'
    BY <1>5 DEF GInv, SessionsFit, OneActiveSession, SameRoute
  <2>2. live'[x] = "none"
    BY <1>1, <1>2 DEF Active
  <2>3. ASSUME NEW y \in Sessions, ~InReplacement(y)'
        PROVE  live'[y] # "none" <=> Active(y)'
    <3>1. y \notin SameRoute(x)
      BY <1>4, <1>5, <2>2, <2>3 DEF InReplacement, SameRoute
    <3>2. y # x
      BY <3>1 DEF SameRoute
    <3> QED
      BY <1>1, <1>2, <1>5, <3>1, <3>2
  <2> QED
    BY <1>4, <1>5, <2>1, <2>3 DEF SessionsFit
<1>8. \A s \in Subjects, g \in Generations :
         Quiet(delivery[s][g], sink[s][g], delivery'[s][g], sink'[s][g])
  BY <1>1, ClosedRows
<1> QED
  BY <1>1, <1>6, <1>7, <1>8, QuietStep DEF callVars

\* The closing session takes its rows out of flight.
LEMMA FinishCloseStep ==
    ASSUME GInv, NEW x \in Sessions, FinishClose(x)
    PROVE  GInv' /\ FateMoves /\ WindowsMove /\ UNCHANGED callVars
<1> DEFINE closing == {y \in {x} : Active(y)}
<1>1. /\ guard = {x} /\ live[x] # "none" /\ guard' = {}
      /\ delivery' = ClosedDeliveries(closing)
      /\ session' = [y \in Sessions |-> IF y \in closing THEN ClosedSession ELSE session[y]]
      /\ live' = [live EXCEPT ![x] = "none"]
      /\ UNCHANGED <<call, submitted, stage, sink, expired>>
  BY DEF FinishClose, callVars
<1>2. \A y \in Sessions : live[y] # "none" <=> Active(y)
  BY <1>1, HandlesMatch
<1>3. /\ session' \in [Sessions -> SessionRows]
      /\ \A y \in Sessions : Active(y)' <=> Active(y) /\ y # x
  BY <1>1 DEF GInv, TypeOK, ClosedSession, SessionRows, Active
<1>4. /\ live' \in [Sessions -> {"none", "open", "closed"}]
      /\ \A y \in Sessions : live'[y] # "none" <=> live[y] # "none" /\ y # x
  BY <1>1 DEF GInv, TypeOK
<1>5. TypeOK'
  <2>1. delivery' \in [Subjects -> [Generations -> Deliveries]]
    BY <1>1, ClosedRows
  <2> QED
    BY <1>1, <1>3, <1>4, <2>1 DEF GInv, TypeOK
<1>6. SessionsFit'
  BY <1>1, <1>2, <1>3, <1>4 DEF GInv, SessionsFit, OneActiveSession
<1>7. \A s \in Subjects, g \in Generations :
         Quiet(delivery[s][g], sink[s][g], delivery'[s][g], sink'[s][g])
  BY <1>1, ClosedRows
<1> QED
  BY <1>1, <1>5, <1>6, <1>7, QuietStep DEF callVars

\* One row changes, and quietly.
LEMMA OneRowChanges ==
    ASSUME GInv, NEW s \in Subjects, NEW g \in Generations, NEW e,
           Quiet(delivery[s][g], sink[s][g], e, sink[s][g]),
           delivery' = [delivery EXCEPT ![s][g] = e],
           UNCHANGED <<call, submitted, stage, sink, session, live, guard, expired>>
    PROVE  GInv' /\ FateMoves /\ WindowsMove /\ UNCHANGED callVars
<1>1. e \in Deliveries /\ delivery \in [Subjects -> [Generations -> Deliveries]]
  BY DEF Quiet, Moves, GInv, TypeOK
<1>2. /\ delivery' \in [Subjects -> [Generations -> Deliveries]]
      /\ \A t \in Subjects, i \in Generations :
            delivery'[t][i] = IF t = s /\ i = g THEN e ELSE delivery[t][i]
  BY <1>1, PointUpdate, SMT
<1>3. TypeOK'
  BY <1>2 DEF GInv, TypeOK
<1>4. SessionsFit'
  BY SessionsStay
<1>5. ASSUME NEW t \in Subjects, NEW i \in Generations
      PROVE  Quiet(delivery[t][i], sink[t][i], delivery'[t][i], sink'[t][i])
  <2>1. CASE t = s /\ i = g
    BY <1>2, <2>1
  <2>2. CASE ~(t = s /\ i = g)
    BY <1>2, <2>2, SameIsQuiet, SMT DEF GInv, TypeOK, RowsFit
  <2> QED
    BY <2>1, <2>2
<1> QED
  BY <1>3, <1>4, <1>5, QuietStep DEF callVars

\* The client's ack changes one row.
LEMMA TransportAckStep ==
    ASSUME GInv, NEW s \in Subjects, NEW g \in Generations, TransportAck(s, g)
    PROVE  GInv' /\ FateMoves /\ WindowsMove /\ UNCHANGED callVars
<1> DEFINE d == delivery[s][g]
<1>0. /\ d \in Deliveries /\ sink[s][g] \in SinkStates /\ RowOK(d, sink[s][g])
      /\ LeftTheProcess(sink[s][g])
  BY SMT DEF GInv, TypeOK, RowsFit, TransportAck, Seen, LeftTheProcess
<1>1. PICK accepted \in BOOLEAN, stamp \in {"good", "bad"} :
         delivery' = [delivery EXCEPT ![s][g] = AfterAck(@, accepted, stamp)]
  BY DEF TransportAck
<1>2. delivery' = [delivery EXCEPT ![s][g] = AfterAck(d, accepted, stamp)]
  BY <1>1 DEF GInv, TypeOK
<1>3. Quiet(d, sink[s][g], AfterAck(d, accepted, stamp), sink[s][g])
  BY <1>0, AckIsQuiet
<1> QED
  BY <1>2, <1>3, OneRowChanges DEF TransportAck, callVars

\* So does the receipt that Core's handler records.
LEMMA ReceiptRecordedStep ==
    ASSUME GInv, NEW c \in Commands, NEW g \in Generations, ReceiptRecorded(c, g)
    PROVE  GInv' /\ FateMoves /\ WindowsMove /\ UNCHANGED callVars
<1> DEFINE d == delivery[c][g]
<1>0. /\ c \in Subjects /\ d \in Deliveries /\ sink[c][g] \in SinkStates /\ RowOK(d, sink[c][g])
      /\ LeftTheProcess(sink[c][g])
  BY CallAssumption DEF GInv, TypeOK, RowsFit, ReceiptRecorded, Seen, LeftTheProcess
<1>1. delivery' = [delivery EXCEPT ![c][g] = [d EXCEPT !.attempt = "Acked"]]
  BY <1>0 DEF GInv, TypeOK, ReceiptRecorded
<1>2. Quiet(d, sink[c][g], [d EXCEPT !.attempt = "Acked"], sink[c][g])
  BY <1>0, ReceiptIsQuiet
<1> QED
  BY <1>0, <1>1, <1>2, OneRowChanges DEF ReceiptRecorded, callVars

\* Time changes no row.
LEMMA ExpiryPassesStep ==
    ASSUME GInv, NEW c \in Commands, ExpiryPasses(c)
    PROVE  GInv' /\ FateMoves /\ WindowsMove /\ UNCHANGED callVars
<1>1. UNCHANGED <<call, submitted, stage, delivery, sink, session, live, guard>>
  BY DEF ExpiryPasses, callVars
<1>2. TypeOK'
  BY <1>1 DEF ExpiryPasses, GInv, TypeOK
<1>3. SessionsFit'
  BY <1>1, SessionsStay
<1> QED
  BY <1>1, <1>2, <1>3, NoRowChanges

\* What may follow what follows may follow.
LEMMA FatesFollow ==
    ASSUME NEW d \in Deliveries, NEW k \in SinkStates, RowOK(d, k),
           NEW e, Moves(d, k, e, k), NEW f, NEW l, Moves(e, k, f, l)
    PROVE  Moves(d, k, f, l)
<1>1. FateOf(d, k) \in {"written", "open", "started", "not_written"}
  BY FateFacts DEF RowOK
<1>2. FateOf(e, k) \in {"written", "open", "started", "not_written"}
  BY FateFacts DEF RowOK, Moves
<1>3. FateOf(f, l) \in Port!FateSuccessors(FateOf(d, k))
  BY <1>1, <1>2, PortFacts DEF Moves
<1> QED
  BY <1>3 DEF Moves

\* The next process closes the row, fences it, and finds the frame gone.
LEMMA RestartMoves ==
    ASSUME NEW d \in Deliveries, NEW k \in SinkStates, RowOK(d, k), NEW e, Quiet(d, k, e, k),
           NEW r \in {"written", "partial", "dropped"}, NEW l, l = IF k = "queued" THEN r ELSE k
    PROVE  /\ Moves(d, k, AfterFence(e), l) /\ KeepsWindow(d, AfterFence(e))
           /\ d = NoDelivery => AfterFence(e) = NoDelivery
<1>1. e \in Deliveries /\ RowOK(e, k) /\ Moves(d, k, e, k)
  BY DEF Quiet, Moves
<1>2. PICK f : f = AfterFence(e)
  OBVIOUS
<1>3. Quiet(e, k, f, k)
  BY <1>1, <1>2, FenceIsQuiet
<1>4. f \in Deliveries /\ RowOK(f, k)
  BY <1>3 DEF Quiet, Moves
<1>5. Quiet(f, k, f, l)
  <2>1. CASE k = "queued"
    BY <1>4, <2>1, FlushIsQuiet
  <2>2. CASE k # "queued"
    BY <1>4, <2>2, SameIsQuiet
  <2> QED
    BY <2>1, <2>2
<1>6. Moves(d, k, f, k)
  BY <1>1, <1>3, FatesFollow DEF Quiet
<1>7. Moves(d, k, f, l)
  BY <1>5, <1>6, FatesFollow DEF Quiet
<1> QED
  BY <1>2, <1>3, <1>7 DEF Quiet, KeepsWindow

\* A crash drops calls, handles and sessions; the fence settles the rows.
LEMMA RestartStep ==
    ASSUME GInv, Restart
    PROVE  GInv' /\ FateMoves /\ WindowsMove /\ DropCalls
<1> DEFINE closed == ClosedDeliveries({x \in Sessions : Active(x)})
<1>1. /\ DropCalls /\ call' = [w \in Workers |-> Idle] /\ submitted' = submitted
      /\ stage' = [w \in Workers |-> "none"]
      /\ delivery' = [s \in Subjects |-> [g \in Generations |-> AfterFence(closed[s][g])]]
      /\ session' = [x \in Sessions |->
                       IF session[x].status = "New" THEN NewSession ELSE ClosedSession]
      /\ live' = [x \in Sessions |-> "none"] /\ guard' = {} /\ expired' = expired
  BY DEF Restart, DropCalls
<1>2. PICK r \in {"written", "partial", "dropped"} :
         sink' = [s \in Subjects |-> [g \in Generations |->
                     IF sink[s][g] = "queued" THEN r ELSE sink[s][g]]]
  BY DEF Restart
<1>3. ASSUME NEW s \in Subjects, NEW g \in Generations
      PROVE  /\ Moves(delivery[s][g], sink[s][g], delivery'[s][g], sink'[s][g])
             /\ KeepsWindow(delivery[s][g], delivery'[s][g])
             /\ delivery[s][g] = NoDelivery => delivery'[s][g] = NoDelivery
             /\ delivery'[s][g] = AfterFence(closed[s][g])
             /\ AfterFence(closed[s][g]) \in Deliveries
             /\ sink'[s][g] \in SinkStates
  <2> DEFINE d == delivery[s][g]
             k == sink[s][g]
             e == closed[s][g]
  <2>1. d \in Deliveries /\ k \in SinkStates /\ RowOK(d, k)
    BY DEF GInv, TypeOK, RowsFit
  <2>2. Quiet(d, k, e, k)
    BY ClosedRows
  <2>3. sink'[s][g] = IF k = "queued" THEN r ELSE k
    BY <1>2
  <2>4. delivery'[s][g] = AfterFence(e)
    BY <1>1
  <2>5. sink'[s][g] \in SinkStates
    BY <2>1, <2>3 DEF SinkStates
  <2> HIDE DEF d, k, e
  <2>6. /\ Moves(d, k, AfterFence(e), sink'[s][g]) /\ KeepsWindow(d, AfterFence(e))
        /\ d = NoDelivery => AfterFence(e) = NoDelivery
    BY <2>1, <2>2, <2>3, RestartMoves
  <2> QED
    BY <2>4, <2>5, <2>6 DEF Moves, d, k, e
<1>4. TypeOK'
  <2>1. delivery' \in [Subjects -> [Generations -> Deliveries]]
    <3> DEFINE F(s, g) == AfterFence(closed[s][g])
    <3>1. \A s \in Subjects, g \in Generations : F(s, g) \in Deliveries
      BY <1>3
    <3>2. delivery' = [s \in Subjects |-> [g \in Generations |-> F(s, g)]]
      BY <1>1
    <3> HIDE DEF F
    <3> QED
      BY <3>1, <3>2
  <2>2. sink' \in [Subjects -> [Generations -> SinkStates]]
    <3> DEFINE F(s, g) == IF sink[s][g] = "queued" THEN r ELSE sink[s][g]
    <3>1. \A s \in Subjects, g \in Generations : F(s, g) \in SinkStates
      BY <1>2, <1>3
    <3>2. sink' = [s \in Subjects |-> [g \in Generations |-> F(s, g)]]
      BY <1>2
    <3> HIDE DEF F
    <3> QED
      BY <3>1, <3>2
  <2>3. call' \in [Workers -> Calls] /\ \A w \in Workers : call'[w].pc = "idle"
    BY <1>1 DEF Calls, Idle
  <2>4. session' \in [Sessions -> SessionRows]
    BY <1>1 DEF NewSession, ClosedSession, SessionRows
  <2> QED
    BY <1>1, <2>1, <2>2, <2>3, <2>4 DEF GInv, TypeOK, Stages
<1>5. SessionsFit'
  <2>1. \A x \in Sessions : ~Active(x)'
    BY <1>1 DEF Active, NewSession, ClosedSession
  <2> QED
    BY <1>1, <2>1 DEF SessionsFit, OneActiveSession
<1>6. WindowsMove
  BY <1>3 DEF WindowsMove
<1>7. /\ RowsFit' /\ FateMoves
      /\ \A s \in Subjects, g \in Generations : delivery'[s][g] # NoDelivery => g \in submitted[s]
  BY <1>3, RowsMove
<1>8. RowsWereSubmitted'
  BY <1>1, <1>7 DEF RowsWereSubmitted, Idle
<1>9. StagesFit' /\ OneWriter'
  BY <1>1 DEF StagesFit, StageFits, OneWriter, Writing
<1> QED
  BY <1>1, <1>4, <1>5, <1>6, <1>7, <1>8, <1>9 DEF GInv

-----------------------------------------------------------------------------
(* Steps of the callers.                                                   *)

\* The fates as a function of the rows and the frames.
LEMMA FateFunction ==
    /\ Fate = [s \in Subjects |-> [g \in Generations |-> FateOf(delivery[s][g], sink[s][g])]]
    /\ Fate' = [s \in Subjects |-> [g \in Generations |-> FateOf(delivery'[s][g], sink'[s][g])]]
BY DEF Fate, FateOf

\* Rows and frames that do not change have the same fates.
LEMMA FateUnchanged ==
    ASSUME UNCHANGED <<delivery, sink>>
    PROVE  UNCHANGED Fate
BY FateFunction

\* A message is submitted.
LEMMA SubmitStep ==
    ASSUME GInv, NEW w \in Workers, NEW s \in Subjects, NEW g \in Generations,
           Submit(w, s, g), Enter(w)
    PROVE  GInv' /\ WindowsMove
<1>1. /\ call[w] = Idle /\ call' = [call EXCEPT ![w] = Busy(s, g)]
      /\ submitted' = [submitted EXCEPT ![s] = @ \cup {g}]
      /\ stage' = [stage EXCEPT ![w] = "enter"]
      /\ UNCHANGED <<delivery, sink, session, live, guard, expired>>
  BY DEF Submit, Enter
<1>2. Busy(s, g) \in Calls /\ Busy(s, g).pc = "busy" /\ Busy(s, g).subject = s
      /\ Busy(s, g).generation = g
  BY DEF Busy, Calls, CallOutcomes
<1>3. TypeOK'
  <2>1. call' \in [Workers -> Calls] /\ stage' \in [Workers -> Stages]
        /\ submitted' \in [Subjects -> SUBSET Generations]
    BY <1>1, <1>2 DEF GInv, TypeOK, Stages
  <2>2. \A v \in Workers : stage'[v] # "none" <=> call'[v].pc = "busy"
    BY <1>1, <1>2 DEF GInv, TypeOK
  <2> QED
    BY <1>1, <2>1, <2>2 DEF GInv, TypeOK
<1>4. RowsFit' /\ SessionsFit' /\ WindowsMove
  <2>1. SessionsFit'
    BY <1>1, SessionsStay
  <2>2. WindowsMove
    BY <1>1 DEF WindowsMove, KeepsWindow
  <2> QED
    BY <1>1, <2>1, <2>2 DEF GInv, RowsFit
<1>5. RowsWereSubmitted'
  <2>1. \A t \in Subjects : submitted[t] \subseteq submitted'[t]
    BY <1>1 DEF GInv, TypeOK
  <2>2. ASSUME NEW v \in Workers, call'[v].pc = "busy"
        PROVE  call'[v].generation \in submitted'[call'[v].subject]
    <3>1. CASE v = w
      BY <1>1, <1>2, <3>1 DEF GInv, TypeOK
    <3>2. CASE v # w
      <4>1. call'[v] = call[v] /\ call[v] \in Calls
        BY <1>1, <3>2 DEF GInv, TypeOK
      <4>2. call[v].subject \in Subjects
        BY <2>2, <4>1, SMT DEF Calls, Idle
      <4> QED
        BY <2>1, <2>2, <4>1, <4>2 DEF GInv, RowsWereSubmitted
    <3> QED
      BY <3>1, <3>2
  <2> QED
    BY <1>1, <2>1, <2>2 DEF GInv, RowsWereSubmitted
<1>6. ASSUME NEW v \in Workers, stage'[v] \notin {"none", "enter"}
      PROVE  call'[v] = call[v] /\ stage'[v] = stage[v]
  BY <1>1, <1>6 DEF GInv, TypeOK
<1>7. ASSUME NEW v \in Workers
      PROVE  StageFits(v)'
  <2>1. CASE stage'[v] \in {"none", "enter"}
    BY <2>1 DEF StageFits
  <2>2. CASE stage'[v] \notin {"none", "enter"}
    <3>1. StageFits(v) /\ stage'[v] = stage[v] /\ RowOf(v)' = RowOf(v) /\ FrameOf(v)' = FrameOf(v)
      BY <1>1, <1>6, <2>2 DEF GInv, StagesFit, RowOf, FrameOf
    <3> QED
      BY <3>1 DEF StageFits
  <2> QED
    BY <2>1, <2>2
<1>8. OneWriter'
  BY <1>6, SMT DEF GInv, OneWriter, SameMessage, Writing
<1> QED
  BY <1>3, <1>4, <1>5, <1>7, <1>8 DEF GInv, StagesFit

\* A worker that is in no call changes what it remembers of the last one.
LEMMA OutsideStep ==
    ASSUME GInv, NEW w \in Workers, NEW c \in Calls, call[w].pc # "busy", c.pc # "busy",
           call' = [call EXCEPT ![w] = c], submitted' = submitted, UNCHANGED gatewayVars
    PROVE  GInv' /\ WindowsMove
<1>1. UNCHANGED <<stage, delivery, sink, session, live, guard, expired>>
  BY DEF gatewayVars
<1>2. \A v \in Workers : call'[v].pc = "busy" \/ call[v].pc = "busy" => call'[v] = call[v]
  BY DEF GInv, TypeOK
<1>3. TypeOK'
  BY <1>1, <1>2 DEF GInv, TypeOK
<1>4. SessionsFit'
  BY <1>1, SessionsStay
<1>5. WindowsMove
  BY <1>1 DEF WindowsMove, KeepsWindow
<1>6. RowsFit' /\ RowsWereSubmitted'
  BY <1>1, <1>2 DEF GInv, RowsFit, RowsWereSubmitted
<1>7. \A v \in Workers : stage[v] # "none" => call'[v] = call[v]
  BY <1>2 DEF GInv, TypeOK
<1>8. StagesFit'
  <2> SUFFICES ASSUME NEW v \in Workers
               PROVE  StageFits(v)'
    BY DEF StagesFit
  <2>1. StageFits(v) /\ stage'[v] = stage[v]
    BY <1>1 DEF GInv, StagesFit
  <2>2. CASE stage[v] = "none"
    BY <2>1, <2>2 DEF StageFits
  <2>3. CASE stage[v] # "none"
    <3>1. RowOf(v)' = RowOf(v) /\ FrameOf(v)' = FrameOf(v)
      BY <1>1, <1>7, <2>3 DEF RowOf, FrameOf
    <3> QED
      BY <2>1, <3>1 DEF StageFits
  <2> QED
    BY <2>2, <2>3
<1>9. OneWriter'
  BY <1>1, <1>7, SMT DEF GInv, OneWriter, SameMessage, Writing
<1> QED
  BY <1>3, <1>4, <1>5, <1>6, <1>8, <1>9 DEF GInv

\* Taking the answer ends the call.
LEMMA ReturnStep ==
    ASSUME GInv, NEW w \in Workers, Return(w), UNCHANGED gatewayVars
    PROVE  GInv' /\ WindowsMove
<1>1. Idle \in Calls /\ Idle.pc = "idle"
  BY DEF Idle, Calls
<1> QED
  BY <1>1, OutsideStep DEF Return

\* A step that changes nothing keeps the invariant.
LEMMA Stutter ==
    ASSUME GInv, UNCHANGED callVars, UNCHANGED gatewayVars
    PROVE  GInv' /\ WindowsMove
<1>1. UNCHANGED <<call, submitted, stage, delivery, sink, session, live, guard, expired>>
  BY DEF callVars, gatewayVars
<1>2. TypeOK'
  BY <1>1 DEF GInv, TypeOK
<1>3. SessionsFit'
  BY <1>1, SessionsStay
<1> QED
  BY <1>1, <1>2, <1>3, NoRowChanges

\* The invariant holds at the start.
LEMMA InitHolds ==
    ASSUME CallInit, GatewayInit
    PROVE  GInv
<1> USE DEF CallInit, GatewayInit
<1>1. NoDelivery \in Deliveries /\ NoDelivery.attempt = "none" /\ NoDelivery.session = {}
  BY DEF NoDelivery, Deliveries, OutboxStatuses, AttemptStatuses
<1>2. TypeOK
  BY <1>1 DEF TypeOK, Calls, Idle, Stages, SinkStates, SessionRows, NewSession
<1>3. RowsFit
  BY SMT DEF RowsFit, RowOK
<1>4. RowsWereSubmitted
  BY DEF RowsWereSubmitted, Idle
<1>5. StagesFit /\ OneWriter
  BY DEF StagesFit, StageFits, OneWriter, Writing
<1>6. SessionsFit
  BY DEF SessionsFit, OneActiveSession, InReplacement, Active, NewSession
<1> QED
  BY <1>2, <1>3, <1>4, <1>5, <1>6 DEF GInv

-----------------------------------------------------------------------------
(* The gateway implements the delivery port.                               *)

\* Fates that each move forward are a step of the port.
LEMMA FateMovesIsFateStep ==
    ASSUME GInv, GInv', FateMoves
    PROVE  Port!FateStep
<1>1. ASSUME NEW s \in Subjects, NEW g \in Generations
      PROVE  Fate'[s][g] \in Port!Fates /\ Fate[s][g] \in Port!Fates
  <2>1. /\ delivery[s][g] \in Deliveries /\ sink[s][g] \in SinkStates
        /\ RowOK(delivery[s][g], sink[s][g])
    BY DEF GInv, TypeOK, RowsFit
  <2>2. /\ delivery'[s][g] \in Deliveries /\ sink'[s][g] \in SinkStates
        /\ RowOK(delivery'[s][g], sink'[s][g])
    BY DEF GInv, TypeOK, RowsFit
  <2>3. FateOf(delivery[s][g], sink[s][g]) \in Port!Fates
    BY <2>1, FateFacts DEF RowOK, Port!Fates
  <2>4. FateOf(delivery'[s][g], sink'[s][g]) \in Port!Fates
    BY <2>2, FateFacts DEF RowOK, Port!Fates
  <2> QED
    BY <2>3, <2>4, FateAt
<1> DEFINE f == [m \in Port!Afloat |-> Fate'[m[1]][m[2]]]
<1>2. ASSUME NEW m \in Port!Afloat
      PROVE  /\ m[1] \in Subjects /\ m[2] \in Generations /\ m = <<m[1], m[2]>>
             /\ m[2] \in submitted[m[1]] /\ Fate[m[1]][m[2]] \in {"open", "started"}
  BY SMT DEF Port!Afloat, Port!Generations, Generations
<1>3. f \in [Port!Afloat -> Port!Fates]
  BY <1>1, <1>2
<1>4. ASSUME NEW m \in Port!Afloat
      PROVE  f[m] \in Port!FateSuccessors(Fate[m[1]][m[2]])
  <2>1. \/ Fate'[m[1]][m[2]] = Fate[m[1]][m[2]]
        \/ Fate'[m[1]][m[2]] \in Port!FateSuccessors(Fate[m[1]][m[2]])
    BY <1>2 DEF FateMoves
  <2>2. Fate[m[1]][m[2]] \in Port!FateSuccessors(Fate[m[1]][m[2]])
    BY <1>2, PortFacts
  <2>3. f[m] = Fate'[m[1]][m[2]]
    OBVIOUS
  <2> QED
    BY <2>1, <2>2, <2>3
<1>5. ASSUME NEW s \in Subjects, NEW g \in Generations
      PROVE  Fate'[s][g] = IF <<s, g>> \in Port!Afloat THEN f[<<s, g>>] ELSE Fate[s][g]
  <2>1. CASE <<s, g>> \in Port!Afloat
    BY <2>1
  <2>2. CASE <<s, g>> \notin Port!Afloat
    <3>1. g \notin submitted[s] \/ Fate[s][g] \in {"written", "not_written"}
      BY <1>1, <2>2 DEF Port!Afloat, Port!Fates, Port!Generations, Generations
    <3>2. Fate'[s][g] = Fate[s][g]
      BY <3>1, PortFacts DEF FateMoves
    <3> QED
      BY <2>2, <3>2
  <2> QED
    BY <2>1, <2>2
<1> HIDE DEF f
<1>6. Fate' = [s \in Subjects |-> [g \in Generations |->
                  IF <<s, g>> \in Port!Afloat THEN f[<<s, g>>] ELSE Fate[s][g]]]
  <2>1. Fate' = [s \in Subjects |-> [g \in Generations |-> Fate'[s][g]]]
    BY FateFunction
  <2> QED
    BY <1>5, <2>1
<1> QED
  BY <1>3, <1>4, <1>6 DEF Port!FateStep, Port!Generations, Generations

\* A worker that answers truthfully answers as the port may.
LEMMA RespondsIsRespond ==
    ASSUME GInv, GInv', FateMoves, NEW w \in Workers, Responds(w)
    PROVE  \E o \in Port!Answers : Port!Respond(w, o)
<1>1. Port!FateStep
  BY FateMovesIsFateStep
<1>2. Answers = Port!Answers /\ \A v, o : Answer(v, o) <=> Port!Answer(v, o)
  BY DEF Answers, Port!Answers, WrittenAnswers, NotWrittenAnswers, Port!WrittenAnswers,
               Port!NotWrittenAnswers, Answer, Port!Answer, Done, Port!Done
<1> QED
  BY <1>1, <1>2 DEF Responds, Port!Respond

\* Every step that is not a caller's is a step of the port.
LEMMA GatewayStep ==
    ASSUME GInv,
           \/ CallStep
           \/ SessionStep
           \/ \E s \in Subjects, g \in Generations : TransportAck(s, g)
           \/ \E c \in Commands, g \in Generations : ReceiptRecorded(c, g)
           \/ \E c \in Commands : ExpiryPasses(c)
           \/ Restart
    PROVE  /\ GInv' /\ WindowsMove
           /\ \/ \E w \in Workers, o \in Port!Answers : Port!Respond(w, o)
              \/ Port!Progress
              \/ Port!Crash
<1>1. /\ GInv' /\ FateMoves /\ WindowsMove
      /\ (\E w \in Workers : Responds(w)) \/ UNCHANGED callVars \/ DropCalls
  <2>1. CASE CallStep
    BY <2>1, PrepareStep, ClaimOutboxStep, HandOverStep, FinishWriteStep, CallFailsStep,
       TransmitStep DEF CallStep
  <2>2. CASE SessionStep
    BY <2>2, BeginActivationStep, ReplaceSessionStep, PublishStep, AbandonActivationStep,
       BeginCloseStep, FinishCloseStep, CloseFailsStep, HeartbeatStep DEF SessionStep
  <2>3. CASE \E s \in Subjects, g \in Generations : TransportAck(s, g)
    BY <2>3, TransportAckStep
  <2>4. CASE \E c \in Commands, g \in Generations : ReceiptRecorded(c, g)
    BY <2>4, ReceiptRecordedStep
  <2>5. CASE \E c \in Commands : ExpiryPasses(c)
    BY <2>5, ExpiryPassesStep
  <2>6. CASE Restart
    BY <2>6, RestartStep
  <2> QED
    BY <2>1, <2>2, <2>3, <2>4, <2>5, <2>6
<1>2. Port!FateStep
  BY <1>1, FateMovesIsFateStep
<1>3. CASE \E w \in Workers : Responds(w)
  BY <1>1, <1>3, RespondsIsRespond
<1>4. CASE UNCHANGED callVars
  BY <1>1, <1>2, <1>4 DEF Port!Progress, Port!callVars, callVars
<1>5. CASE DropCalls
  BY <1>1, <1>2, <1>5 DEF Port!Crash, Port!DropCalls, DropCalls, Port!Idle, Idle
<1> QED
  BY <1>1, <1>3, <1>4, <1>5

-----------------------------------------------------------------------------
(* The theorems about the gateway.                                         *)

\* The invariant is inductive, and every step of the gateway is one of the port.
LEMMA GatewayInductive ==
    ASSUME GInv, [Next]_vars
    PROVE  GInv' /\ WindowsMove /\ [Port!PortNext]_(Port!portVars)
<1>1. CASE \E w \in Workers, s \in Subjects, g \in Generations : Submit(w, s, g) /\ Enter(w)
  <2>1. PICK w \in Workers, s \in Subjects, g \in Generations : Submit(w, s, g) /\ Enter(w)
    BY <1>1
  <2>2. GInv' /\ WindowsMove /\ UNCHANGED Fate
    BY <2>1, SubmitStep, FateUnchanged DEF Enter
  <2>3. Port!Submit(w, s, g)
    BY <2>1 DEF Submit, Port!Submit, Busy, Port!Busy, Idle, Port!Idle
  <2> QED
    BY <2>2, <2>3 DEF Port!PortNext, Port!Generations, Generations
<1>2. CASE \E w \in Workers : Return(w) /\ UNCHANGED gatewayVars
  <2>1. PICK w \in Workers : Return(w) /\ UNCHANGED gatewayVars
    BY <1>2
  <2>2. GInv' /\ WindowsMove /\ UNCHANGED Fate
    BY <2>1, ReturnStep, FateUnchanged DEF gatewayVars
  <2>3. Port!Return(w)
    BY <2>1 DEF Return, Port!Return, Idle, Port!Idle
  <2> QED
    BY <2>2, <2>3 DEF Port!PortNext
<1>3. CASE UNCHANGED vars
  <2>1. UNCHANGED callVars /\ UNCHANGED gatewayVars
    BY <1>3 DEF vars, callVars, gatewayVars
  <2>2. GInv' /\ WindowsMove /\ UNCHANGED Fate
    BY <2>1, Stutter, FateUnchanged DEF gatewayVars
  <2> QED
    BY <2>1, <2>2 DEF Port!portVars, callVars
<1>4. CASE /\ Next
           /\ ~(\E w \in Workers, s \in Subjects, g \in Generations : Submit(w, s, g) /\ Enter(w))
           /\ ~(\E w \in Workers : Return(w) /\ UNCHANGED gatewayVars)
  BY <1>4, GatewayStep DEF Next, Port!PortNext
<1> QED
  BY <1>1, <1>2, <1>3, <1>4

\* The gateway starts as the port does.
LEMMA InitIsPortInit ==
    ASSUME CallInit, GatewayInit
    PROVE  Port!PortInit
<1>1. Port!CallInit
  BY DEF CallInit, Port!CallInit, Idle, Port!Idle
<1>2. ASSUME NEW s \in Subjects, NEW g \in Generations
      PROVE  FateOf(delivery[s][g], sink[s][g]) = "open"
  <2>1. delivery[s][g] = NoDelivery /\ sink[s][g] = "none"
    BY DEF GatewayInit
  <2>2. NoDelivery \in Deliveries /\ "none" \in SinkStates /\ RowOK(NoDelivery, "none")
    BY DEF NoDelivery, Deliveries, OutboxStatuses, AttemptStatuses, SinkStates, RowOK
  <2> QED
    BY <2>1, <2>2, FateFacts, SMT DEF LeftTheProcess
<1>3. Fate = [s \in Subjects |-> [g \in Generations |-> "open"]]
  BY <1>2, FateFunction
<1> QED
  BY <1>1, <1>3 DEF Port!PortInit, Port!Generations, Generations

\* What the inductive invariant says of the gateway.
LEMMA GInvImplies ==
    ASSUME GInv
    PROVE  TypeOK /\ ReplayMatrixIsTotal /\ HandedOverOnce /\ OneSessionPerRoute
<1>1. ReplayMatrixIsTotal
  <2> SUFFICES ASSUME NEW s \in Subjects, NEW g \in Generations,
                      delivery[s][g].outbox # "none", ~Unwritten(delivery[s][g])
               PROVE  DurableOutcome(delivery[s][g]) # "Inconsistent"
    BY DEF ReplayMatrixIsTotal
  <2>1. /\ delivery[s][g] \in Deliveries /\ sink[s][g] \in SinkStates
        /\ RowOK(delivery[s][g], sink[s][g])
    BY DEF GInv, TypeOK, RowsFit
  <2> QED
    BY <2>1, ReplayIsTrue
<1>2. HandedOverOnce
  <2> SUFFICES ASSUME NEW w \in Workers, stage[w] = "claimed"
               PROVE  /\ sink[call[w].subject][call[w].generation] = "none"
                      /\ \A v \in Workers \ {w} :
                            stage[v] \in {"claimed", "sinking", "refused", "backpressure"} =>
                                <<call[v].subject, call[v].generation>>
                                    # <<call[w].subject, call[w].generation>>
    BY DEF HandedOverOnce
  <2>1. sink[call[w].subject][call[w].generation] = "none"
    BY DEF GInv, StagesFit, StageFits, FrameOf
  <2>2. \A v \in Workers \ {w} : stage[v] \in Writing => ~SameMessage(v, w)
    BY DEF GInv, OneWriter, Writing
  <2> QED
    BY <2>1, <2>2 DEF Writing, SameMessage
<1>3. OneSessionPerRoute
  BY DEF GInv, SessionsFit, OneSessionPerRoute, HandlesMatchSessions, InReplacement
<1> QED
  BY <1>1, <1>2, <1>3 DEF GInv

\* The invariant holds in every reachable state.
LEMMA GatewayInvariant == Spec => []GInv
<1>1. Init => GInv
  BY InitHolds DEF Init
<1>2. GInv /\ [Next]_vars => GInv'
  BY GatewayInductive
<1> QED
  BY <1>1, <1>2, PTL DEF Spec

\* The rows, the transport and the sessions keep their types, and a worker is at a
\* stage of the adapter exactly while its call is in progress.
THEOREM TypeCorrect == Spec => []TypeOK
BY GatewayInvariant, GInvImplies, PTL

\* For any number of workers, messages, sessions and crashes, durable_delivery_outcome
\* has an answer for every combination of outbox and attempt rows that can arise.
THEOREM ReplayIsTotal == Spec => []ReplayMatrixIsTotal
BY GatewayInvariant, GInvImplies, PTL

\* claim_outbox lets one worker of any number hand a frame to a transport, once.
THEOREM FramesAreHandedOverOnce == Spec => []HandedOverOnce
BY GatewayInvariant, GInvImplies, PTL

\* Whatever activations, failed replacements, closings and crashes do, a client identity
\* has at most one ACTIVE session, and outside the mutex handles and sessions agree.
THEOREM RoutesHaveOneSession == Spec => []OneSessionPerRoute
BY GatewayInvariant, GInvImplies, PTL

\* The adapter and everything behind it keep the promise of the delivery port: an answer
\* that bytes left, or never will, is true when it is given and stays true.
THEOREM GatewayImplementsPort == Spec => ImplementsPort
<1>1. Init => Port!PortInit
  BY InitIsPortInit DEF Init
<1>2. GInv /\ [Next]_vars => [Port!PortNext]_(Port!portVars)
  BY GatewayInductive
<1> QED
  BY <1>1, <1>2, GatewayInvariant, PTL DEF Spec, ImplementsPort, Port!PortSpec

-----------------------------------------------------------------------------
(* The whole outbound path.                                                *)

\* The workers behave alike over the gateway and over the abstract port.
LEMMA SameWork ==
    /\ \A w, s : Claim(w, s) <=> System!Claim(w, s)
    /\ \A w : Commit(w) <=> System!Commit(w)
    /\ \A w : RollBack(w) <=> System!RollBack(w)
    /\ \A w : StoreFails(w) <=> System!StoreFails(w)
    /\ \A s : LeaseExpires(s) <=> System!LeaseExpires(s)
    /\ \A r : ResumeRun(r) <=> System!ResumeRun(r)
    /\ \A s : Evidence(s) <=> System!Evidence(s)
<1> USE DEF Idle, System!Idle, Busy, System!Busy, Done, System!Done, Submit, System!Submit,
            Return, System!Return, Needed, System!Needed, workVars, System!workVars,
            Complete, System!Complete, Retry, System!Retry, ScheduleRetry, System!ScheduleRetry,
            StopDelivery, System!StopDelivery, Owns, System!Owns
<1>1. \A w, s : Claim(w, s) <=> System!Claim(w, s)
  BY DEF Claim, System!Claim, Claimable, System!Claimable
<1>2. \A w : RollBack(w) <=> System!RollBack(w)
  BY DEF RollBack, System!RollBack
<1>3. \A w : StoreFails(w) <=> System!StoreFails(w)
  BY DEF StoreFails, System!StoreFails
<1>4. \A s : LeaseExpires(s) <=> System!LeaseExpires(s)
  BY DEF LeaseExpires, System!LeaseExpires
<1>5. \A r : ResumeRun(r) <=> System!ResumeRun(r)
  BY DEF ResumeRun, System!ResumeRun, Requests, System!Requests
<1>6. \A s : Evidence(s) <=> System!Evidence(s)
  BY DEF Evidence, System!Evidence
<1>7. \A s, o : Finish(s, o) <=> System!Finish(s, o)
  <2> USE DEF AdvancesGeneration, System!AdvancesGeneration, RetryableAnswers,
              System!RetryableAnswers
  <2>1. \A s, o : FinishCommand(s, o) <=> System!FinishCommand(s, o)
    BY DEF FinishCommand, System!FinishCommand,
                 CommitCommandDelivery, System!CommitCommandDelivery,
                 AfterDelivery, System!AfterDelivery, ExpireCommand, System!ExpireCommand,
                 AfterExpiry, System!AfterExpiry
  <2>2. \A s, o : FinishReconciliation(s, o) <=> System!FinishReconciliation(s, o)
    BY DEF FinishReconciliation, System!FinishReconciliation
  <2> QED
    BY <2>1, <2>2 DEF Finish, System!Finish
<1>8. \A w : Commit(w) <=> System!Commit(w)
  BY <1>7 DEF Commit, System!Commit
<1> QED
  BY <1>1, <1>2, <1>3, <1>4, <1>5, <1>6, <1>8

\* So does the port.
LEMMA SamePort ==
    /\ \A w, o : Port!Respond(w, o) <=> System!Respond(w, o)
    /\ Port!Progress <=> System!Progress
    /\ Port!Crash <=> System!Crash
    /\ Port!Answers = System!Answers
<1> USE DEF Port!Idle, System!Idle, Port!Done, System!Done, Port!Answer, System!Answer,
            Port!FateStep, System!FateStep, Port!Afloat, System!Afloat, Port!Fates, System!Fates,
            Port!FateSuccessors, System!FateSuccessors, Port!AnswersFor, System!AnswersFor,
            Port!WrittenAnswers, System!WrittenAnswers, Port!NotWrittenAnswers,
            System!NotWrittenAnswers, Port!Generations, System!Generations
<1>1. \A w, o : Port!Respond(w, o) <=> System!Respond(w, o)
  BY DEF Port!Respond, System!Respond
<1>2. Port!Progress <=> System!Progress
  BY DEF Port!Progress, System!Progress, Port!callVars, System!callVars
<1>3. Port!Crash <=> System!Crash
  BY DEF Port!Crash, System!Crash, Port!DropCalls, System!DropCalls
<1>4. Port!Answers = System!Answers
  BY DEF Port!Answers, System!Answers
<1> QED
  BY <1>1, <1>2, <1>3, <1>4

\* The workers number their generations from one.
WorkRows == [status : {"None", "Pending", "Processing", "Delivered"}, generation : Nat \ {0},
             owner : SUBSET Workers, leased : BOOLEAN, outcome : Outcomes]

\* The whole path: the invariant of the gateway and the type of the work rows.
SInv == GInv /\ work \in [Subjects -> WorkRows]

\* Completing a work row keeps its type.
LEMMA RowCompleted ==
    ASSUME work \in [Subjects -> WorkRows], NEW s \in Subjects, NEW o \in Outcomes, Complete(s, o)
    PROVE  work' \in [Subjects -> WorkRows]
BY DEF Complete, WorkRows

\* So does rescheduling it.
LEMMA RowRetried ==
    ASSUME work \in [Subjects -> WorkRows], NEW s \in Subjects, NEW a, Retry(s, a)
    PROVE  work' \in [Subjects -> WorkRows]
<1>1. work[s] \in WorkRows /\ work[s].generation \in Nat \ {0}
  BY DEF WorkRows
<1> DEFINE n == IF a THEN work[s].generation + 1 ELSE work[s].generation
<1>2. n \in Nat \ {0}
  BY <1>1, SMT
<1>3. work' = [work EXCEPT ![s] = [@ EXCEPT !.status = "Pending", !.owner = {},
                                            !.leased = FALSE, !.generation = n]]
  BY DEF Retry
<1> HIDE DEF n
<1> QED
  BY <1>2, <1>3 DEF WorkRows

\* So does every end of a call.
LEMMA RowFinished ==
    ASSUME work \in [Subjects -> WorkRows], NEW s \in Subjects, NEW o, Finish(s, o)
    PROVE  work' \in [Subjects -> WorkRows]
<1>1. \/ \E x \in Outcomes : Complete(s, x)
      \/ \E a : Retry(s, a)
  <2> USE DEF StopDelivery, ScheduleRetry
  <2>1. CASE o = "Superseded" /\ StopDelivery(s, "Superseded")
    BY <2>1 DEF Outcomes
  <2>2. CASE FinishCommand(s, o)
    BY <2>2 DEF FinishCommand, CommitCommandDelivery, ExpireCommand, Outcomes
  <2>3. CASE FinishReconciliation(s, o)
    BY <2>3 DEF FinishReconciliation, Outcomes
  <2> QED
    BY <2>1, <2>2, <2>3 DEF Finish
<1> QED
  BY <1>1, RowCompleted, RowRetried

\* A receipt does not change the fate of bytes that left.
LEMMA ReceiptKeepsFates ==
    ASSUME GInv, NEW c \in Commands, NEW g \in Generations, ReceiptRecorded(c, g)
    PROVE  UNCHANGED Fate /\ Fate[c][g] = "written"
<1>1. c \in Subjects /\ GInv' /\ FateMoves
  BY ReceiptRecordedStep, CallAssumption
<1>2. Fate[c][g] = "written"
  <2>1. /\ delivery[c][g] \in Deliveries /\ sink[c][g] \in SinkStates
        /\ RowOK(delivery[c][g], sink[c][g]) /\ LeftTheProcess(sink[c][g])
    BY <1>1, SMT DEF GInv, TypeOK, RowsFit, ReceiptRecorded, Seen, LeftTheProcess
  <2> QED
    BY <1>1, <2>1, FateFacts, FateAt
<1>3. ASSUME NEW t \in Subjects, NEW i \in Generations
      PROVE  Fate'[t][i] = Fate[t][i]
  <2>1. CASE t = c /\ i = g
    BY <1>1, <1>2, <2>1, PortFacts DEF FateMoves
  <2>2. CASE ~(t = c /\ i = g)
    <3>1. delivery'[t][i] = delivery[t][i] /\ sink'[t][i] = sink[t][i]
      BY <1>1, <2>2 DEF GInv, TypeOK, ReceiptRecorded
    <3> QED
      BY <3>1, FateAt
  <2> QED
    BY <2>1, <2>2
<1>4. /\ Fate = [s \in Subjects |-> [i \in Generations |-> Fate[s][i]]]
      /\ Fate' = [s \in Subjects |-> [i \in Generations |-> Fate'[s][i]]]
  BY FateFunction
<1> QED
  BY <1>2, <1>3, <1>4

\* What was seen was written.
LEMMA SeenIsWritten ==
    ASSUME GInv, NEW s \in Subjects, NEW g \in Generations, Seen(s, g)
    PROVE  Fate[s][g] = "written"
<1>1. /\ delivery[s][g] \in Deliveries /\ sink[s][g] \in SinkStates
      /\ RowOK(delivery[s][g], sink[s][g]) /\ LeftTheProcess(sink[s][g])
  BY DEF GInv, TypeOK, RowsFit, Seen, LeftTheProcess
<1> QED
  BY <1>1, FateFacts, FateAt

\* Claiming a work row and entering the adapter keeps the invariant.
LEMMA ClaimAndCallStep ==
    ASSUME SInv, NEW w \in Workers, NEW s \in Subjects, ClaimAndCall(w, s)
    PROVE  SInv' /\ UNCHANGED Fate /\ WindowsMove
<1>1. work' \in [Subjects -> WorkRows]
  BY DEF SInv, ClaimAndCall, Claim, WorkRows
<1>2. work[s].generation \in Generations
  <2>1. work[s].generation \in Nat \ {0} /\ work[s].generation <= Bound[s]
    BY DEF SInv, WorkRows, ClaimAndCall, Claim
  <2>2. Bound[s] \in 0 .. MaxGeneration /\ MaxGeneration \in Nat
    BY SubjectAssumption, CallAssumption
  <2> QED
    BY <2>1, <2>2, SMT DEF Generations
<1>3. CASE Needed(s)
  <2>1. Submit(w, s, work[s].generation) /\ Enter(w)
    BY <1>3 DEF ClaimAndCall, Claim
  <2>2. GInv' /\ WindowsMove /\ UNCHANGED Fate
    BY <1>2, <2>1, SubmitStep, FateUnchanged DEF SInv, Enter
  <2> QED
    BY <1>1, <2>2 DEF SInv
<1>4. CASE ~Needed(s)
  <2> DEFINE c == Done(s, work[s].generation, "Superseded")
  <2>1. /\ call[w] = Idle /\ call' = [call EXCEPT ![w] = c] /\ submitted' = submitted
        /\ UNCHANGED gatewayVars
    BY <1>4 DEF ClaimAndCall, Claim
  <2>2. c \in Calls /\ c.pc = "done" /\ call[w].pc = "idle"
    BY <1>2, <2>1, SMT DEF Done, Calls, CallOutcomes, Idle
  <2>3. GInv' /\ WindowsMove /\ UNCHANGED Fate
    BY <2>1, <2>2, OutsideStep, FateUnchanged DEF SInv, gatewayVars
  <2> QED
    BY <1>1, <2>3 DEF SInv
<1> QED
  BY <1>3, <1>4

\* Every step of the path keeps the invariant and is a step of the workers over the port.
LEMMA SystemStep ==
    ASSUME SInv, [SystemNext]_systemVars
    PROVE  SInv' /\ WindowsMove /\ [System!Next]_(System!vars)
<1>0. GInv /\ work \in [Subjects -> WorkRows]
  BY DEF SInv
<1> USE DEF System!vars
<1>1. CASE \E w \in Workers, s \in Subjects : ClaimAndCall(w, s)
  <2>1. PICK w \in Workers, s \in Subjects : ClaimAndCall(w, s)
    BY <1>1
  <2>2. SInv' /\ WindowsMove /\ UNCHANGED Fate /\ System!Claim(w, s)
    BY <2>1, ClaimAndCallStep, SameWork DEF ClaimAndCall
  <2> QED
    BY <2>2 DEF System!Next
<1>2. CASE \E w \in Workers : Settle(w) \/ (StoreFails(w) /\ UNCHANGED gatewayVars)
  <2>1. PICK w \in Workers : Settle(w) \/ (StoreFails(w) /\ UNCHANGED gatewayVars)
    BY <1>2
  <2>2. Return(w) /\ UNCHANGED gatewayVars
    BY <2>1 DEF Settle, Commit, RollBack, StoreFails
  <2>3. GInv' /\ WindowsMove /\ UNCHANGED Fate
    BY <1>0, <2>2, ReturnStep, FateUnchanged DEF gatewayVars
  <2>4. work' \in [Subjects -> WorkRows]
    <3>1. call[w].subject \in Subjects
      <4>1. call[w] \in Calls /\ call[w].pc = "done"
        BY <1>0, <2>2 DEF GInv, TypeOK, Return
      <4> QED
        BY <4>1, SMT DEF Calls, Idle
    <3>2. CASE Commit(w)
      BY <1>0, <3>1, <3>2, RowFinished DEF Commit
    <3>3. CASE ~Commit(w)
      BY <1>0, <2>1, <3>3 DEF Settle, RollBack, StoreFails, workVars
    <3> QED
      BY <3>2, <3>3
  <2>5. System!Commit(w) \/ System!RollBack(w) \/ System!StoreFails(w)
    BY <2>1, SameWork DEF Settle
  <2> QED
    BY <2>3, <2>4, <2>5 DEF SInv, System!Next
<1>3. CASE \E s \in Subjects : LeaseExpires(s) /\ UNCHANGED gatewayVars
  <2>1. PICK s \in Subjects : LeaseExpires(s) /\ UNCHANGED gatewayVars
    BY <1>3
  <2>2. GInv' /\ WindowsMove /\ UNCHANGED Fate
    BY <1>0, <2>1, Stutter, FateUnchanged DEF gatewayVars, callVars, LeaseExpires
  <2>3. work' \in [Subjects -> WorkRows]
    BY <1>0, <2>1 DEF LeaseExpires, WorkRows
  <2>4. System!LeaseExpires(s)
    BY <2>1, SameWork
  <2> QED
    BY <2>2, <2>3, <2>4 DEF SInv, System!Next
<1>4. CASE \E r \in Requests : ResumeRun(r) /\ UNCHANGED gatewayVars
  <2>1. PICK r \in Requests : ResumeRun(r) /\ UNCHANGED gatewayVars
    BY <1>4
  <2>2. GInv' /\ WindowsMove /\ UNCHANGED Fate /\ work' = work
    BY <1>0, <2>1, Stutter, FateUnchanged DEF gatewayVars, callVars, ResumeRun
  <2>3. System!ResumeRun(r) /\ Requests = System!Requests
    BY <2>1, SameWork DEF Requests, System!Requests
  <2> QED
    BY <1>0, <2>2, <2>3 DEF SInv, System!Next
<1>5. CASE \E c \in Commands, g \in Generations : CommandReceived(c, g)
  <2>1. PICK c \in Commands, g \in Generations : CommandReceived(c, g)
    BY <1>5
  <2>2. /\ GInv' /\ WindowsMove /\ UNCHANGED Fate /\ Fate[c][g] = "written" /\ UNCHANGED callVars
    BY <1>0, <2>1, ReceiptRecordedStep, ReceiptKeepsFates DEF CommandReceived
  <2>3. CASE Evidence(c)
    <3>1. System!ClientAnswers(c) /\ work' = work /\ c \in Subjects
      BY <2>2, <2>3, SameWork, CallAssumption
         DEF System!ClientAnswers, Evidence, System!Generations, Generations
    <3> QED
      BY <1>0, <2>2, <3>1 DEF SInv, System!Next
  <2>4. CASE UNCHANGED workVars
    BY <1>0, <2>2, <2>4 DEF SInv, workVars, callVars
  <2> QED
    BY <2>1, <2>3, <2>4 DEF CommandReceived
<1>6. CASE \E s \in Subjects : /\ \E g \in Generations : Seen(s, g)
                               /\ Evidence(s) /\ UNCHANGED gatewayVars
  <2>1. PICK s \in Subjects, g \in Generations : Seen(s, g) /\ Evidence(s) /\ UNCHANGED gatewayVars
    BY <1>6
  <2>2. GInv' /\ WindowsMove /\ UNCHANGED Fate /\ work' = work
    BY <1>0, <2>1, Stutter, FateUnchanged DEF gatewayVars, callVars, Evidence
  <2>3. System!ClientAnswers(s)
    BY <1>0, <2>1, SeenIsWritten, SameWork DEF System!ClientAnswers, System!Generations, Generations
  <2> QED
    BY <1>0, <2>2, <2>3 DEF SInv, System!Next
<1>7. CASE /\ UNCHANGED workVars
           /\ \/ CallStep
              \/ SessionStep
              \/ \E s \in Subjects, g \in Generations : TransportAck(s, g)
              \/ \E c \in Commands : ExpiryPasses(c)
              \/ Restart
  <2>1. /\ GInv' /\ WindowsMove
        /\ \/ \E w \in Workers, o \in Port!Answers : Port!Respond(w, o)
           \/ Port!Progress
           \/ Port!Crash
    BY <1>0, <1>7, GatewayStep
  <2>2. UNCHANGED System!workVars /\ work' = work
    BY <1>7 DEF workVars, System!workVars
  <2> QED
    BY <1>0, <2>1, <2>2, SamePort DEF SInv, System!Next
<1>8. CASE UNCHANGED systemVars
  <2>1. UNCHANGED <<status, work>> /\ UNCHANGED callVars /\ UNCHANGED gatewayVars
    BY <1>8 DEF systemVars, callVars, gatewayVars
  <2>2. GInv' /\ WindowsMove /\ UNCHANGED Fate
    BY <1>0, <2>1, Stutter, FateUnchanged DEF gatewayVars
  <2> QED
    BY <1>0, <2>1, <2>2 DEF SInv, callVars
<1>9. CASE NormalStep
  <2>1. Commands \subseteq Subjects /\ Requests \subseteq Subjects
    BY CallAssumption DEF Requests
  <2> QED
    BY <1>9, <1>1, <1>2, <1>3, <1>4, <1>5, <1>6, <1>7, <2>1
       DEF NormalStep, AbandonedLeaseExpires, ExecutionEvent, ReconciliationResult,
           CallStep, SessionStep
<1>10. CASE FaultStep
  BY <1>10, <1>2, <1>3, <1>7 DEF FaultStep, CallStep, SessionStep
<1> QED
  BY <1>8, <1>9, <1>10 DEF SystemNext

\* The invariant of the path holds in every reachable state.
LEMMA SystemInvariant == SystemSpec => []SInv
<1>1. SystemInit => SInv
  <2> SUFFICES ASSUME SystemInit
               PROVE  SInv
    OBVIOUS
  <2>1. GInv
    BY InitHolds DEF SystemInit
  <2>2. work \in [Subjects -> WorkRows]
    BY SMT DEF SystemInit, WorkInit, NoRow, WorkRows, Outcomes
  <2> QED
    BY <2>1, <2>2 DEF SInv
<1>2. SInv /\ [SystemNext]_systemVars => SInv'
  BY SystemStep
<1> QED
  BY <1>1, <1>2, PTL DEF SystemSpec

\* The outbound workers over the gateway implement the workers over the abstract port,
\* step by step: whatever is proved of OutboundOverPort holds of the whole path.
THEOREM PathImplementsOutboundOverPort == SystemSpec => ImplementsOutboundOverPort
<1>1. SystemInit => System!Init
  <2> SUFFICES ASSUME SystemInit
               PROVE  System!Init
    OBVIOUS
  <2>1. Port!PortInit
    BY InitIsPortInit DEF SystemInit
  <2>2. System!PortInit
    BY <2>1 DEF Port!PortInit, System!PortInit, Port!CallInit, System!CallInit,
                Port!Idle, System!Idle, Port!Generations, System!Generations
  <2>3. System!WorkInit
    BY DEF SystemInit, WorkInit, System!WorkInit, NoRow, System!NoRow
  <2> QED
    BY <2>2, <2>3 DEF System!Init
<1>2. SInv /\ [SystemNext]_systemVars => [System!Next]_(System!vars)
  BY SystemStep
<1> QED
  BY <1>1, <1>2, SystemInvariant, PTL DEF SystemSpec, ImplementsOutboundOverPort, System!Spec

\* The invariants of the gateway hold on the whole path, whatever its callers do.
THEOREM PathKeepsGateway ==
    SystemSpec => [](ReplayMatrixIsTotal /\ HandedOverOnce /\ OneSessionPerRoute)
<1>1. SInv => ReplayMatrixIsTotal /\ HandedOverOnce /\ OneSessionPerRoute
  BY GInvImplies DEF SInv
<1> QED
  BY <1>1, SystemInvariant, PTL

\* What OutboundOverPortProofs proves, read off the rows and the transport.
Promise == INSTANCE OutboundOverPortProofs WITH fate <- Fate

\* The two instances of OutboundOverPort, with and without its theorems, are the same.
LEMMA SameSpec == System!Spec => Promise!Spec
<1>1. System!Init => Promise!Init
  BY DEF System!Init, Promise!Init, System!WorkInit, Promise!WorkInit, System!NoRow, Promise!NoRow,
               System!PortInit, Promise!PortInit, System!CallInit, Promise!CallInit,
               System!Idle, Promise!Idle, System!Generations, Promise!Generations
<1>2. [System!Next]_(System!vars) => [Promise!Next]_(Promise!vars)
  <2> USE DEF System!Idle, Promise!Idle, System!Busy, Promise!Busy, System!Done, Promise!Done,
            System!Submit, Promise!Submit, System!Return, Promise!Return, System!Needed,
            Promise!Needed, System!workVars, Promise!workVars, System!callVars, Promise!callVars,
            System!Complete, Promise!Complete, System!Retry, Promise!Retry, System!ScheduleRetry,
            Promise!ScheduleRetry, System!StopDelivery, Promise!StopDelivery, System!Owns,
            Promise!Owns, System!Claim, Promise!Claim, System!Claimable, Promise!Claimable,
            System!RollBack, Promise!RollBack, System!StoreFails, Promise!StoreFails,
            System!LeaseExpires, Promise!LeaseExpires, System!ResumeRun, Promise!ResumeRun,
            System!Requests, Promise!Requests, System!Evidence, Promise!Evidence, System!Finish,
            Promise!Finish, System!FinishCommand, Promise!FinishCommand,
            System!FinishReconciliation, Promise!FinishReconciliation,
            System!CommitCommandDelivery, Promise!CommitCommandDelivery, System!AfterDelivery,
            Promise!AfterDelivery, System!ExpireCommand, Promise!ExpireCommand,
            System!AfterExpiry, Promise!AfterExpiry, System!RetryableAnswers,
            Promise!RetryableAnswers, System!AdvancesGeneration, Promise!AdvancesGeneration,
            System!Commit, Promise!Commit, System!Answer, Promise!Answer, System!FateStep,
            Promise!FateStep, System!Afloat, Promise!Afloat, System!Fates, Promise!Fates,
            System!FateSuccessors, Promise!FateSuccessors, System!AnswersFor, Promise!AnswersFor,
            System!WrittenAnswers, Promise!WrittenAnswers, System!NotWrittenAnswers,
            Promise!NotWrittenAnswers, System!Answers, Promise!Answers, System!Generations,
            Promise!Generations, System!Respond, Promise!Respond, System!Progress,
            Promise!Progress, System!Crash, Promise!Crash, System!DropCalls, Promise!DropCalls,
            System!ClientAnswers, Promise!ClientAnswers
  <2>1. System!Next => Promise!Next
    BY DEF System!Next, Promise!Next
  <2> QED
    BY <2>1 DEF System!vars, Promise!vars
<1> QED
  BY <1>1, <1>2, PTL DEF System!Spec, Promise!Spec

\* The whole path keeps every safety promise of the workers over the abstract port: no
\* second generation after one that may have left, no expired command that left, no
\* dispatched command that did not, no command abandoned, and an unconfirmed one handed to
\* reconciliation - whatever retries, crashes, lost leases and replaced sessions do.
THEOREM PathKeepsPromise ==
    SystemSpec => [](/\ Promise!AtMostOneGenerationLeaves
                     /\ Promise!ExpiredNeverLeaves
                     /\ Promise!DispatchedMeansWritten
                     /\ Promise!NoCommandAbandoned
                     /\ Promise!UnconfirmedIsReconciled)
<1>1. /\ RequestOf \in [Commands -> Promise!Requests]
      /\ Bound \in [Subjects -> 0..MaxGeneration]
      /\ \A c, d \in Commands : RequestOf[c] = RequestOf[d] => c = d
  BY SubjectAssumption DEF Requests, Promise!Requests
<1>2. Commands \subseteq Subjects /\ MaxGeneration \in Nat \ {0}
  BY CallAssumption
<1>3. Promise!Spec => []Promise!AtMostOneGenerationLeaves
  BY <1>1, <1>2, Promise!NoDuplicateDelivery
<1>4. Promise!Spec => []Promise!ExpiredNeverLeaves
  BY <1>1, <1>2, Promise!ExpiredStaysHome
<1>5. Promise!Spec => []Promise!DispatchedMeansWritten
  BY <1>1, <1>2, Promise!DispatchedWasWritten
<1>6. Promise!Spec => []Promise!NoCommandAbandoned
  BY <1>1, <1>2, Promise!NothingIsAbandoned
<1>7. Promise!Spec => []Promise!UnconfirmedIsReconciled
  BY <1>1, <1>2, Promise!UnconfirmedHasItsRun
<1> QED
  BY <1>3, <1>4, <1>5, <1>6, <1>7, PathImplementsOutboundOverPort, SameSpec, PTL
     DEF ImplementsOutboundOverPort

\* What the client can tell: of all the frames ever built for a subject it sees at most one,
\* it never sees one of a command that Core expired, and it saw one of every command that
\* Core calls dispatched.
ClientView ==
    /\ \A s \in Subjects : \A g, h \in Generations : Seen(s, g) /\ Seen(s, h) => g = h
    /\ \A c \in Commands : \A g \in Generations : status[c] = "Expired" => ~Seen(c, g)
    /\ \A c \in Commands :
          status[c] \in {"Dispatched", "CommandReceived"} => \E g \in Generations : Seen(c, g)

\* The gateway, the workers and the handlers of the answers together give the client that view.
THEOREM ClientSeesOneFrame == SystemSpec => []ClientView
<1>1. SInv /\ Promise!AtMostOneGenerationLeaves /\ Promise!ExpiredNeverLeaves
           /\ Promise!DispatchedMeansWritten
        => ClientView
  <2> SUFFICES ASSUME SInv, Promise!AtMostOneGenerationLeaves, Promise!ExpiredNeverLeaves,
                      Promise!DispatchedMeansWritten
               PROVE  ClientView
    OBVIOUS
  <2>1. Generations = Promise!Generations
    BY DEF Generations, Promise!Generations
  <2>2. ASSUME NEW s \in Subjects, NEW g \in Generations
        PROVE  Fate[s][g] = "written" <=> Seen(s, g)
    <3>1. CASE Seen(s, g)
      BY <3>1, SeenIsWritten DEF SInv
    <3>2. CASE ~Seen(s, g)
      <4>1. FateOf(delivery[s][g], sink[s][g]) # "written"
        BY <3>2 DEF FateOf, Seen
      <4> QED
        BY <3>2, <4>1, FateAt
    <3> QED
      BY <3>1, <3>2
  <2>3. Commands \subseteq Subjects
    BY CallAssumption
  <2> QED
    BY <2>1, <2>2, <2>3, SMT
       DEF ClientView, Promise!AtMostOneGenerationLeaves, Promise!ExpiredNeverLeaves,
           Promise!DispatchedMeansWritten, Promise!MayHaveLeft
<1> QED
  BY <1>1, SystemInvariant, PathKeepsPromise, PTL
-----------------------------------------------------------------------------
(* The windows.                                                            *)

\* Finiteness and size, under names of their own: FiniteSetTheorems, which is
\* instanced at the end, speaks of its own copy of FiniteSets.
Finite(S) == IsFiniteSet(S)
Size(S) == Cardinality(S)

\* What the proofs about the windows use of them.
SizeFacts ==
    /\ Finite({}) /\ Size({}) = 0
    /\ \A S : Finite(S) => Size(S) \in Nat
    /\ \A S, x : Finite(S) => /\ Finite(S \cup {x})
                              /\ Size(S \cup {x}) \in {Size(S), Size(S) + 1}
    /\ \A S : \A R \in SUBSET S : Finite(S) => Finite(R) /\ Size(R) <= Size(S)

\* No session has more commands in flight than it may.
WindowsAreKept ==
    \A x \in Sessions : Finite(Inflight(x)) /\ Size(Inflight(x)) <= MaxInflight

\* A set within a window is no larger than the window may be.
LEMMA WithinLimit ==
    ASSUME SizeFacts, NEW S, NEW R \in SUBSET S, Finite(S), Size(S) <= MaxInflight
    PROVE  Finite(R) /\ Size(R) <= MaxInflight
<1>1. Finite(R) /\ Size(R) <= Size(S) /\ Size(R) \in Nat /\ Size(S) \in Nat
  BY DEF SizeFacts
<1> QED
  BY <1>1, GatewayAssumption, SMT

\* When no row starts to count, no window grows.
LEMMA WindowsShrink ==
    ASSUME SizeFacts, WindowsAreKept,
           \A s \in Subjects, g \in Generations : KeepsWindow(delivery[s][g], delivery'[s][g])
    PROVE  WindowsAreKept'
<1> SUFFICES ASSUME NEW x \in Sessions
             PROVE  Finite(Inflight(x)') /\ Size(Inflight(x)') <= MaxInflight
  BY DEF WindowsAreKept, Finite, Size
<1>1. Inflight(x)' \in SUBSET Inflight(x)
  BY CallAssumption, SMT DEF Inflight, KeepsWindow, Counts
<1> QED
  BY <1>1, WithinLimit DEF WindowsAreKept

\* A message bound to a session with room, or one that is no command, keeps every
\* window.
LEMMA BindKeepsWindows ==
    ASSUME SizeFacts, WindowsAreKept,
           NEW s \in Subjects, NEW g \in Generations, NEW x \in Sessions,
           ~(s \in Commands /\ WindowIsFull(x)),
           \A t \in Subjects, i \in Generations :
               ~(t = s /\ i = g) => delivery'[t][i] = delivery[t][i],
           delivery'[s][g].session = {x}
    PROVE  WindowsAreKept'
<1> SUFFICES ASSUME NEW y \in Sessions
             PROVE  Finite(Inflight(y)') /\ Size(Inflight(y)') <= MaxInflight
  BY DEF WindowsAreKept, Finite, Size
<1>0. Finite(Inflight(y)) /\ Size(Inflight(y)) <= MaxInflight /\ Size(Inflight(y)) \in Nat
  BY DEF WindowsAreKept, SizeFacts
<1>1. CASE s \in Commands /\ y = x
  <2>1. Inflight(y)' \in SUBSET (Inflight(y) \cup {<<s, g>>})
    <3> SUFFICES ASSUME NEW m \in Inflight(y)', m # <<s, g>>
                 PROVE  m \in Inflight(y)
      OBVIOUS
    <3>1. m \in Commands \X Generations /\ m[1] \in Subjects /\ m[2] \in Generations
      BY CallAssumption DEF Inflight
    <3>2. ~(m[1] = s /\ m[2] = g)
      BY <3>1, SMT
    <3>3. delivery'[m[1]][m[2]] = delivery[m[1]][m[2]]
      BY <3>1, <3>2
    <3> QED
      BY <3>1, <3>3 DEF Inflight
  <2>2. ~(Size(Inflight(y)) >= MaxInflight)
    BY <1>1 DEF WindowIsFull, Size
  <2>3. /\ Finite(Inflight(y) \cup {<<s, g>>})
        /\ Size(Inflight(y) \cup {<<s, g>>}) \in {Size(Inflight(y)), Size(Inflight(y)) + 1}
    BY <1>0 DEF SizeFacts
  <2>4. Size(Inflight(y) \cup {<<s, g>>}) <= MaxInflight
    BY <1>0, <2>2, <2>3, GatewayAssumption, SMT
  <2> QED
    BY <2>1, <2>3, <2>4, WithinLimit
<1>2. CASE ~(s \in Commands /\ y = x)
  <2>1. Inflight(y)' \in SUBSET Inflight(y)
    BY <1>2, CallAssumption, SMT DEF Inflight
  <2> QED
    BY <1>0, <2>1, WithinLimit
<1> QED
  BY <1>1, <1>2

\* Every step keeps the windows, which are empty at the start.
LEMMA WindowsFollow ==
    /\ SizeFacts /\ GatewayInit => WindowsAreKept
    /\ SizeFacts /\ WindowsAreKept /\ WindowsMove => WindowsAreKept'
    /\ WindowsAreKept => InflightIsBounded
<1>1. ASSUME SizeFacts, GatewayInit
      PROVE  WindowsAreKept
  <2>1. ASSUME NEW x \in Sessions
        PROVE  Inflight(x) = {}
    <3>1. NoDelivery.attempt = "none"
      BY DEF NoDelivery
    <3> QED
      BY <1>1, <3>1, CallAssumption, SMT DEF Inflight, GatewayInit
  <2>2. 0 <= MaxInflight
    BY GatewayAssumption, SMT
  <2> QED
    BY <1>1, <2>1, <2>2 DEF WindowsAreKept, SizeFacts
<1>2. ASSUME SizeFacts, WindowsAreKept, WindowsMove
      PROVE  WindowsAreKept'
  BY <1>2, WindowsShrink, BindKeepsWindows DEF WindowsMove
<1>3. WindowsAreKept => InflightIsBounded
  BY DEF WindowsAreKept, InflightIsBounded, Size
<1> QED
  BY <1>1, <1>2, <1>3

\* The definitions of FiniteSets, spelt out ...
LEMMA FiniteMeans ==
    \A S : Finite(S) <=> \E seq \in Seq(S) : \A s \in S : \E n \in 1..Len(seq) : seq[n] = s
BY DEF Finite, IsFiniteSet

LEMMA SizeMeans ==
    \A S : Size(S) = LET CS[R \in SUBSET S] == IF R = {} THEN 0
                                               ELSE 1 + CS[R \ {CHOOSE x : x \in R}]
                     IN  CS[S]
BY DEF Size, Cardinality

\* ... and the library's facts about its own copy.
LOCAL INSTANCE FiniteSetTheorems

\* The facts hold.
LEMMA SizesAreSizes == SizeFacts
<1>1. \A S : Finite(S) <=> IsFiniteSet(S)
  BY FiniteMeans DEF IsFiniteSet
<1>2. \A S : Size(S) = Cardinality(S)
  BY SizeMeans DEF Cardinality
<1>3. Finite({}) /\ Size({}) = 0
  BY <1>1, <1>2, FS_EmptySet
<1>4. ASSUME NEW S, Finite(S)
      PROVE  Size(S) \in Nat
  BY <1>1, <1>2, <1>4, FS_CardinalityType
<1>5. ASSUME NEW S, NEW x, Finite(S)
      PROVE  Finite(S \cup {x}) /\ Size(S \cup {x}) \in {Size(S), Size(S) + 1}
  BY <1>1, <1>2, <1>5, FS_AddElement
<1>6. ASSUME NEW S, NEW R \in SUBSET S, Finite(S)
      PROVE  Finite(R) /\ Size(R) <= Size(S)
  BY <1>1, <1>2, <1>6, FS_Subset
<1> QED
  BY <1>3, <1>4, <1>5, <1>6 DEF SizeFacts

\* No session ever has more commands in flight than max_inflight_commands.
THEOREM WindowsAreBounded == Spec => []InflightIsBounded
<1>1. Init => WindowsAreKept
  BY SizesAreSizes, WindowsFollow DEF Init
<1>2. GInv /\ WindowsAreKept /\ [Next]_vars => WindowsAreKept'
  BY GatewayInductive, SizesAreSizes, WindowsFollow
<1> QED
  BY <1>1, <1>2, WindowsFollow, GatewayInvariant, PTL DEF Spec

\* Nor on the whole path, whatever the workers submit, retry and give up.
THEOREM PathKeepsWindows == SystemSpec => []InflightIsBounded
<1>1. SystemInit => WindowsAreKept
  BY SizesAreSizes, WindowsFollow DEF SystemInit
<1>2. SInv /\ WindowsAreKept /\ [SystemNext]_systemVars => WindowsAreKept'
  BY SystemStep, SizesAreSizes, WindowsFollow
<1> QED
  BY <1>1, <1>2, WindowsFollow, SystemInvariant, PTL DEF SystemSpec
=============================================================================
