-------------------------- MODULE InboundAdmission --------------------------
(***************************************************************************)
(* Durable admission of what an execution client sends: the connection     *)
(* (crates/gateway/src/connection.rs) checks a message, has it admitted    *)
(* in one write transaction (crates/store/src/inbound_durability.rs) and   *)
(* only then answers with a transport.ack; a hello that resumes a session  *)
(* has its cursor admitted before the session is accepted.                 *)
(*                                                                         *)
(* Every connection has a session of its own.  A client may send anything  *)
(* again, on the same connection or on a later one; the sequence numbers   *)
(* are its choice.  The ids are numbers, ordered as the database orders    *)
(* them.  Schema, direction and identity checks that end a connection      *)
(* before anything is stored are part of Drop.                             *)
(***************************************************************************)
EXTENDS Naturals, FiniteSets

CONSTANTS
    Messages,       \* ids of the messages that are admitted
    Silent,         \* those that are a transport.ack, which is not answered
    Hellos,         \* ids of the hellos that carry a resume cursor
    Sessions,
    MaxSequence,    \* bound: the last sequence number a client uses
    MaxStamp        \* bound: the last reading of the server clock

Items == Messages \cup Hellos

\* The number 0 is the id of nothing.
ASSUME AdmissionAssumption ==
    /\ Items \subseteq Nat \ {0} /\ Sessions \subseteq Nat \ {0}
    /\ Messages \cap Hellos = {}
    /\ Silent \subseteq Messages
    /\ MaxSequence \in Nat /\ MaxStamp \in Nat

VARIABLES
    row,            \* item -> its row of inbound_admissions or session_resume_admissions
    rejections,     \* the rows of inbound_rejections
    conn,           \* session -> its connection
    answers,        \* the transport.acks that reached the client
    stamp           \* the server clock, as far as received_at tells

admissionVars == <<row, rejections, conn, answers, stamp>>

\* A row; `leased' tells whether the lease of its owner is still running.
Rows == [status : {"ABSENT", "PENDING", "PROCESSING", "HANDLED", "FAILED"},
         revision : Nat, owner : Nat, leased : BOOLEAN,
         session : Sessions \cup {0}, sequence : Nat, at : Nat,
         error : {"none", "handler", "timeout"}]

NoRow == [status |-> "ABSENT", revision |-> 0, owner |-> 0, leased |-> FALSE,
          session |-> 0, sequence |-> 0, at |-> 0, error |-> "none"]

\* A message as one connection carried it, and the answer to it.
Sendings == [message : Messages, session : Sessions, sequence : Nat]
Answers == [message : Messages, session : Sessions, sequence : Nat,
            status : {"ACCEPTED", "DUPLICATE", "REJECTED"}]

\* last: last_inbound_sequence; the rest belongs to the message at hand.
Connections == [phase : {"unused", "open", "admitting", "answering", "closed"},
                last : Nat, message : Messages \cup {0}, at : Nat,
                answer : {"none", "ACCEPTED", "DUPLICATE", "REJECTED"}]

Unused == [phase |-> "unused", last |-> 0, message |-> 0, at |-> 0, answer |-> "none"]
Open(q) == [Unused EXCEPT !.phase = "open", !.last = q]
Closed(c) == [Unused EXCEPT !.phase = "closed", !.last = c.last]

AdmissionInit ==
    /\ row = [i \in Items |-> NoRow]
    /\ rejections = {}
    /\ conn = [s \in Sessions |-> Unused]
    /\ answers = {}
    /\ stamp = 0

Stored(i) == row[i].status # "ABSENT"

\* insert_inbound, insert_resume
Insert(i, s, q, at) ==
    row' = [row EXCEPT ![i] = [NoRow EXCEPT !.status = "PENDING", !.session = s,
                                            !.sequence = q, !.at = at]]

-----------------------------------------------------------------------------
(* The handshake.                                                          *)

\* A hello without a cursor.
Connect(s) ==
    /\ conn[s] = Unused
    /\ conn' = [conn EXCEPT ![s] = Open(0)]
    /\ UNCHANGED <<row, rejections, answers, stamp>>

\* fetch_resume_conflicts
ResumeConflicts(h, s) == {g \in Hellos : Stored(g) /\ (g = h \/ row[g].session = s)}

\* The cursor of the hello is admitted, then the session is accepted.
ConnectWithResume(s, h) ==
    /\ conn[s] = Unused
    /\ ResumeConflicts(h, s) = {}
    /\ Insert(h, s, 0, stamp)
    /\ conn' = [conn EXCEPT ![s] = Open(0)]
    /\ UNCHANGED <<rejections, answers, stamp>>

\* The cursor is a conflict, or its admission fails or is timed out, before or
\* after the commit: the session is rejected.
RefuseResume(s, h) ==
    /\ conn[s] = Unused
    /\ conn' = [conn EXCEPT ![s] = Closed(Unused)]
    /\ \/ UNCHANGED row
       \/ ResumeConflicts(h, s) = {} /\ Insert(h, s, 0, stamp)
    /\ UNCHANGED <<rejections, answers, stamp>>

-----------------------------------------------------------------------------
(* A message on an open connection.                                        *)

\* Variant: a sequence number may be used twice in a row.
RepeatsSequence(s, q) == IF conn[s].last = 0 THEN q = 1 ELSE q >= conn[s].last

InSequence(s, q) == IF conn[s].last = 0 THEN q = 1 ELSE q > conn[s].last

\* handle_message up to the call of the admission port.
Receive(s, m, q) ==
    /\ conn[s].phase = "open"
    /\ InSequence(s, q)
    /\ conn' = [conn EXCEPT ![s] = [Open(q) EXCEPT !.phase = "admitting",
                                                   !.message = m, !.at = stamp]]
    /\ UNCHANGED <<row, rejections, answers, stamp>>

\* time.sync.request and heartbeat are answered without being stored.
ReceiveControl(s, q) ==
    /\ conn[s].phase = "open"
    /\ InSequence(s, q)
    /\ conn' = [conn EXCEPT ![s] = Open(q)]
    /\ UNCHANGED <<row, rejections, answers, stamp>>

\* fetch_inbound_conflicts
InboundConflicts(m, s, q) ==
    {n \in Messages : /\ Stored(n)
                      /\ n = m \/ (row[n].session = s /\ row[n].sequence = q)}

\* same_inbound_identity: the envelope holds the session and the sequence.
SameInboundIdentity(n, m, s, q) == n = m /\ row[n].session = s /\ row[n].sequence = q

Outcome(m, s, q) ==
    IF InboundConflicts(m, s, q) = {} THEN "ACCEPTED"
    ELSE IF \E n \in Messages : /\ InboundConflicts(m, s, q) = {n}
                                /\ SameInboundIdentity(n, m, s, q)
         THEN "DUPLICATE"
         ELSE "REJECTED"

\* The transaction of admit_inbound for the message at hand.
AdmitInbound(s) ==
    LET m == conn[s].message
        q == conn[s].last
    IN  /\ IF Outcome(m, s, q) = "ACCEPTED" THEN Insert(m, s, q, conn[s].at)
                                            ELSE UNCHANGED row
        /\ rejections' = rejections \cup
               IF Outcome(m, s, q) = "REJECTED"
               THEN {[message |-> m, session |-> s, sequence |-> q]} ELSE {}

\* The message is admitted; the answer to it is next, if it gets one.
Admit(s) ==
    /\ conn[s].phase = "admitting"
    /\ AdmitInbound(s)
    /\ conn' = [conn EXCEPT ![s] =
           IF conn[s].message \in Silent THEN Open(conn[s].last)
           ELSE [conn[s] EXCEPT !.phase = "answering",
                                !.answer = Outcome(conn[s].message, s, conn[s].last)]]
    /\ UNCHANGED <<answers, stamp>>

\* The admission is timed out, or the task dropped, after the commit.
AdmitUnanswered(s) ==
    /\ conn[s].phase = "admitting"
    /\ AdmitInbound(s)
    /\ conn' = [conn EXCEPT ![s] = Closed(conn[s])]
    /\ UNCHANGED <<answers, stamp>>

\* send_transport_ack
Answer(s) ==
    /\ conn[s].phase = "answering"
    /\ answers' = answers \cup {[message |-> conn[s].message, session |-> s,
                                 sequence |-> conn[s].last, status |-> conn[s].answer]}
    /\ conn' = [conn EXCEPT ![s] = Open(conn[s].last)]
    /\ UNCHANGED <<row, rejections, stamp>>

\* The connection ends: a refused message, an error, a timeout, a lost peer.
Drop(s) ==
    /\ conn[s].phase \in {"open", "admitting", "answering"}
    /\ conn' = [conn EXCEPT ![s] = Closed(conn[s])]
    /\ UNCHANGED <<row, rejections, answers, stamp>>

Tick ==
    /\ stamp < MaxStamp
    /\ stamp' = stamp + 1
    /\ UNCHANGED <<row, rejections, conn, answers>>

AdmissionNext ==
    \/ Tick
    \/ \E s \in Sessions :
           \/ Connect(s) \/ Admit(s) \/ AdmitUnanswered(s) \/ Answer(s) \/ Drop(s)
           \/ \E h \in Hellos : ConnectWithResume(s, h) \/ RefuseResume(s, h)
           \/ \E q \in 1 .. MaxSequence :
                  ReceiveControl(s, q) \/ \E m \in Messages : Receive(s, m, q)
=============================================================================
