--------------------------- MODULE DeliveryCalls ---------------------------
(***************************************************************************)
(* The interface between the outbound workers and the outbound delivery    *)
(* port (crates/execution/src/delivery.rs): who has called the port about  *)
(* which message, and what it answered.  A message is one generation of    *)
(* one subject, an execution command or a reconciliation request.          *)
(***************************************************************************)
EXTENDS Naturals

CONSTANTS
    Workers,        \* callers of the port
    Subjects,       \* what is delivered: execution commands, reconciliation requests
    Commands,       \* the subjects that are execution commands
    MaxGeneration   \* bound: a generation above it is never submitted

ASSUME CallAssumption == Commands \subseteq Subjects /\ MaxGeneration \in Nat \ {0}

Generations == 1 .. MaxGeneration

VARIABLES
    call,           \* worker -> its call in progress
    submitted       \* subject -> generations handed to the port so far (history)

callVars == <<call, submitted>>

\* DeliveryOutcome and its rejection reasons.  The five retryable rejections
\* are one answer (the caller treats them alike); "SentBadEvidence" is a Sent
\* receipt whose sent_at lies outside the bounds validate_delivery_evidence
\* accepts; "InfrastructureError" is the Err of the port.
WrittenAnswers    == {"Sent", "SentBadEvidence", "TransportRejected"}
NotWrittenAnswers == {"NotWritten", "RejectedRetryable", "RejectedExpired",
                      "RejectedIdentity"}
Answers == WrittenAnswers \cup NotWrittenAnswers
           \cup {"Unconfirmed", "InfrastructureError"}

\* "Superseded" is no answer of the port: the caller found that the subject
\* needs no delivery any more and skipped the call.
CallOutcomes == Answers \cup {"none", "Superseded"}

Idle          == [pc |-> "idle", outcome |-> "none"]
Busy(s, g)    == [pc |-> "busy", subject |-> s, generation |-> g, outcome |-> "none"]
Done(s, g, o) == [pc |-> "done", subject |-> s, generation |-> g, outcome |-> o]

Calls == {Idle} \cup [pc : {"busy", "done"}, subject : Subjects,
                      generation : Generations, outcome : CallOutcomes]

CallInit ==
    /\ call = [w \in Workers |-> Idle]
    /\ submitted = [s \in Subjects |-> {}]

\* deliver_execution_command or deliver_reconciliation_request is called.
Submit(w, s, g) ==
    /\ call[w] = Idle
    /\ call' = [call EXCEPT ![w] = Busy(s, g)]
    /\ submitted' = [submitted EXCEPT ![s] = @ \cup {g}]

Answer(w, o) ==
    /\ call[w].pc = "busy"
    /\ call' = [call EXCEPT ![w] = Done(call[w].subject, call[w].generation, o)]
    /\ UNCHANGED submitted

\* The caller takes the answer.
Return(w) ==
    /\ call[w].pc = "done"
    /\ call' = [call EXCEPT ![w] = Idle]
    /\ UNCHANGED submitted

\* The process dies with every call in progress.
DropCalls ==
    /\ call' = [w \in Workers |-> Idle]
    /\ UNCHANGED submitted
=============================================================================
