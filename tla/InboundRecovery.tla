-------------------------- MODULE InboundRecovery --------------------------
(***************************************************************************)
(* The dispatcher of what was durably admitted                             *)
(* (crates/gateway/src/durable_inbound.rs, DurableRecoveryDispatcher): it  *)
(* claims a row under a lease, runs the handler in a write transaction     *)
(* that also finishes the row, and fails the row in a transaction of its   *)
(* own when the handler rejects the item or runs out of time.              *)
(*                                                                         *)
(* Of a handler (crates/core/src/inbound_processor.rs) only its outcome is *)
(* modelled: `facts' counts how often what it wrote was committed.  A      *)
(* lease is running or has run out.  A worker is a dispatcher; the ids of  *)
(* two workers may be equal (the id is made of the id of the process).     *)
(***************************************************************************)
EXTENDS InboundAdmission

CONSTANTS
    Workers,
    WorkerId,       \* worker -> the id it writes into a row
    BatchSize,      \* max_items_per_batch
    MaxFaults       \* bound: crashes, failed transactions and leases outlived

ASSUME RecoveryAssumption ==
    /\ WorkerId \in [Workers -> Nat \ {0}]
    /\ BatchSize \in Nat \ {0}
    /\ MaxFaults \in Nat

VARIABLES
    facts,          \* item -> how often the facts of its handler were committed
    deadletters,    \* the messages with a row in deadletter_events
    worker,         \* worker -> what it is about
    faults          \* how many faults may still happen

recoveryVars == <<facts, deadletters, worker, faults>>
vars == <<admissionVars, recoveryVars>>

\* index: the item of the batch; step: the query that looks for it; revision:
\* the one claimed; fresh: the lease was running when the time was read.
WorkerStates == [phase : {"scanning", "handling", "failing", "timing out"},
                 index : 0 .. BatchSize - 1, step : 1 .. 4,
                 item : Items \cup {0}, revision : Nat, fresh : BOOLEAN]

Scanning(n) == [phase |-> "scanning", index |-> n, step |-> 1,
                item |-> 0, revision |-> 0, fresh |-> FALSE]

Init ==
    /\ AdmissionInit
    /\ facts = [i \in Items |-> 0]
    /\ deadletters = {}
    /\ worker = [w \in Workers |-> Scanning(0)]
    /\ faults = MaxFaults

Holding(w) == worker[w].phase # "scanning"

\* The item is done with: the next one of the batch, or the next batch.
NextItem(w) == worker' = [worker EXCEPT ![w] = Scanning((worker[w].index + 1) % BatchSize)]

\* The batch ends: nothing to claim, or an error.
EndBatch(w) == worker' = [worker EXCEPT ![w] = Scanning(0)]

-----------------------------------------------------------------------------
(* Claiming: an expired lease before a pending row, and messages before    *)
(* cursors for every other item.                                           *)

Kind(w) ==
    IF (worker[w].index + (worker[w].step - 1) \div 2) % 2 = 0 THEN Messages ELSE Hellos

\* Variant: a lease is never taken over.
NothingExpires(K) == {}

\* fetch_next_expired_inbound, fetch_next_expired_resume
Expired(K) == {i \in K : row[i].status = "PROCESSING" /\ ~row[i].leased}

Pending(K) == {i \in K : row[i].status = "PENDING"}

\* Variant: rows are claimed by id alone.
LowestPending(K) == {i \in Pending(K) : \A j \in Pending(K) : i <= j}

\* fetch_next_inbound_pending, fetch_next_resume_pending
NextPending(K) ==
    {i \in Pending(K) : \A j \in Pending(K) :
        row[i].at < row[j].at \/ (row[i].at = row[j].at /\ i <= j)}

Claimed(r, id) == [r EXCEPT !.status = "PROCESSING", !.owner = id, !.leased = TRUE,
                            !.revision = r.revision + 1]

\* claim_inbound_on, claim_resume_on
ClaimOn(w, i) ==
    /\ row' = [row EXCEPT ![i] = Claimed(row[i], WorkerId[w])]
    /\ worker' = [worker EXCEPT ![w] =
           [worker[w] EXCEPT !.phase = "handling", !.item = i,
                             !.revision = row[i].revision + 1]]

NextStep(w) ==
    worker' = [worker EXCEPT ![w] = [worker[w] EXCEPT !.step = worker[w].step + 1]]

\* One query of claim_inbound or claim_resume.
Claim(w) ==
    LET found == IF worker[w].step % 2 = 1 THEN Expired(Kind(w)) ELSE NextPending(Kind(w))
    IN  /\ ~Holding(w)
        /\ \/ \E i \in found : ClaimOn(w, i)
           \/ /\ found = {}
              /\ IF worker[w].step < 4 THEN NextStep(w)
                                       ELSE EndBatch(w)
              /\ UNCHANGED row
        /\ UNCHANGED <<rejections, conn, answers, stamp, facts, deadletters, faults>>

-----------------------------------------------------------------------------
(* Handling.                                                               *)

\* The row is still the one that was claimed.
Owned(w) ==
    LET r == row[worker[w].item]
    IN  /\ r.status = "PROCESSING" /\ r.owner = WorkerId[w]
        /\ r.revision = worker[w].revision

Finished(r, status, error) ==
    [r EXCEPT !.status = status, !.error = error, !.owner = 0, !.leased = FALSE,
              !.revision = r.revision + 1]

\* finish_inbound_on, finish_resume_on
Finish(w, status, error) ==
    row' = [row EXCEPT ![worker[w].item] = Finished(row[worker[w].item], status, error)]

\* Variant: the handler commits by itself, before the row is finished.
CommitApart(w) ==
    LET i == worker[w].item
    IN  /\ worker[w].phase = "handling"
        /\ IF Owned(w) /\ row[i].leased
           THEN Finish(w, "HANDLED", "none") /\ NextItem(w)
           ELSE EndBatch(w) /\ UNCHANGED row
        /\ facts' = [facts EXCEPT ![i] = @ + 1]
        /\ UNCHANGED <<rejections, conn, answers, stamp, deadletters, faults>>

\* The handler succeeds; what it wrote is committed with the row, or rolled
\* back when the row is no longer held.
Complete(w) ==
    LET i == worker[w].item
    IN  /\ worker[w].phase = "handling"
        /\ IF Owned(w) /\ row[i].leased
           THEN /\ Finish(w, "HANDLED", "none")
                /\ facts' = [facts EXCEPT ![i] = @ + 1]
                /\ NextItem(w)
           ELSE EndBatch(w) /\ UNCHANGED <<row, facts>>
        /\ UNCHANGED <<rejections, conn, answers, stamp, deadletters, faults>>

\* The handler rejects the item or is timed out: it is rolled back, and the
\* time of the failure is read.
GiveUp(w, phase) ==
    /\ worker[w].phase = "handling"
    /\ worker' = [worker EXCEPT ![w] =
           [worker[w] EXCEPT !.phase = phase, !.fresh = row[worker[w].item].leased]]
    /\ UNCHANGED <<admissionVars, facts, deadletters, faults>>

\* Variant: the deadletter is committed even if the row is no longer held.
AlwaysDeadletter(w) ==
    IF worker[w].phase = "failing" THEN {worker[w].item} \cap Messages ELSE {}

\* append_deadletter_event of fail_terminal_inbound, with the row
Deadletter(w) ==
    IF worker[w].phase = "failing" /\ Owned(w) /\ worker[w].fresh
    THEN {worker[w].item} \cap Messages ELSE {}

\* fail_terminal_inbound, fail_inbound, fail_session_resume
Fail(w) ==
    /\ worker[w].phase \in {"failing", "timing out"}
    /\ IF Owned(w) /\ worker[w].fresh
       THEN /\ Finish(w, "FAILED", IF worker[w].phase = "failing" THEN "handler"
                                                                   ELSE "timeout")
            /\ NextItem(w)
       ELSE EndBatch(w) /\ UNCHANGED row
    /\ deadletters' = deadletters \cup Deadletter(w)
    /\ UNCHANGED <<rejections, conn, answers, stamp, facts, faults>>

-----------------------------------------------------------------------------
(* Faults.                                                                 *)

\* The handler reports an infrastructure failure, or a transaction fails.
Abort(w) ==
    /\ Holding(w)
    /\ faults > 0
    /\ faults' = faults - 1
    /\ EndBatch(w)
    /\ UNCHANGED <<admissionVars, facts, deadletters>>

\* The lease of a row runs out: of one that nobody works on any more, or of one
\* whose worker is late.
LeaseRunsOut(i) ==
    LET late == \E w \in Workers : /\ Holding(w) /\ worker[w].item = i
                                   /\ worker[w].revision = row[i].revision
    IN  /\ row[i].status = "PROCESSING" /\ row[i].leased
        /\ IF late THEN faults > 0 /\ faults' = faults - 1 ELSE UNCHANGED faults
        /\ row' = [row EXCEPT ![i] = [row[i] EXCEPT !.leased = FALSE]]
        /\ UNCHANGED <<rejections, conn, answers, stamp, facts, deadletters, worker>>

\* The process dies with its connections and its worker.
Crash ==
    /\ faults > 0
    /\ faults' = faults - 1
    /\ worker' = [w \in Workers |-> Scanning(0)]
    /\ conn' = [s \in Sessions |-> IF conn[s] = Unused THEN Unused ELSE Closed(conn[s])]
    /\ UNCHANGED <<row, rejections, answers, stamp, facts, deadletters>>

Work(w) == Claim(w) \/ Complete(w) \/ GiveUp(w, "failing") \/ GiveUp(w, "timing out") \/ Fail(w)

Next ==
    \/ AdmissionNext /\ UNCHANGED recoveryVars
    \/ \E w \in Workers : Work(w) \/ Abort(w)
    \/ \E i \in Items : LeaseRunsOut(i)
    \/ Crash

Spec == Init /\ [][Next]_vars

\* Time passes, and the dispatcher is polled for as long as the process runs;
\* a handler ends, by itself or by its timeout.
Fairness ==
    /\ \A w \in Workers : WF_vars(Work(w))
    /\ \A i \in Items : WF_vars(LeaseRunsOut(i))

FairSpec == Spec /\ Fairness

-----------------------------------------------------------------------------
(* Properties.                                                             *)

TypeOK ==
    /\ row \in [Items -> Rows]
    /\ rejections \subseteq Sendings
    /\ conn \in [Sessions -> Connections]
    /\ answers \subseteq Answers
    /\ stamp \in 0 .. MaxStamp
    /\ facts \in [Items -> Nat]
    /\ deadletters \subseteq Messages
    /\ worker \in [Workers -> WorkerStates]
    /\ faults \in 0 .. MaxFaults

\* The sending that a row was made of.
Origin(m, a) == row[m].session = a.session /\ row[m].sequence = a.sequence

\* A client that has an answer to a message may forget the message, whatever the
\* answer and however often it was sent: the message is stored.  It was accepted
\* if this very sending is the stored one, and only then; otherwise the refusal
\* of this sending is stored as well (send_transport_ack after admit_inbound).
AnswersAreDurable ==
    \A a \in answers :
        /\ Stored(a.message)
        /\ a.status = "ACCEPTED" <=> Origin(a.message, a)
        /\ a.status = "REJECTED" =>
               [message |-> a.message, session |-> a.session, sequence |-> a.sequence]
                   \in rejections

\* A message is in the deadletter table exactly when its handler rejected it and
\* the row says so: the two are one transaction (fail_terminal_inbound), whoever
\* took the row over in the meantime.
DeadlettersExplainFailures ==
    \A m \in Messages :
        m \in deadletters <=> row[m].status = "FAILED" /\ row[m].error = "handler"

\* With one dispatcher and no fault, the messages of a session are finished in
\* the order in which they were received, a tie of the clock aside
\* (fetch_next_inbound_pending).
SessionOrder ==
    faults = MaxFaults =>
        \A m, n \in Messages :
            /\ Stored(m) /\ Stored(n)
            /\ row[m].session = row[n].session /\ row[m].at < row[n].at
            /\ row[n].status \in {"HANDLED", "FAILED"}
            => row[m].status \in {"HANDLED", "FAILED"}

\* What the inbox sees of a row.
InboxOf(r) ==
    CASE r.status = "ABSENT" -> "absent"
      [] r.status \in {"PENDING", "PROCESSING"} -> "waiting"
      [] r.status = "HANDLED" -> "handled"
      [] r.status = "FAILED" -> "failed"

inboxState == [i \in Items |-> InboxOf(row[i])]

I == INSTANCE Inbox WITH state <- inboxState

\* Admission and dispatch keep the promise of the inbox: the facts of an item
\* are committed once and only with its row, and a finished item stays finished
\* (complete_inbound and fail_inbound against reclaim_expired_inbound).
InboxSpec == I!Spec

\* Whatever is stored is finished in the end: no crash, no failed transaction
\* and no lost lease leaves a row behind (dispatch_batch).
StoredIsFinished ==
    \A i \in Items : Stored(i) ~> row[i].status \in {"HANDLED", "FAILED"}
=============================================================================
