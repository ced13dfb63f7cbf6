---------------------------- MODULE DeliveryPort ----------------------------
(***************************************************************************)
(* What the outbound delivery port promises its callers: an answer about a *)
(* message is never contradicted by what has happened, or will happen, to  *)
(* the message's bytes.  `fate' says what became of them:                  *)
(*   open         nobody has started to write them;                        *)
(*   started      a write was claimed: they may leave;                     *)
(*   written      they may have left the process;                          *)
(*   not_written  they never left and never will.                          *)
(* The processor of crates/core/src/outbound_processor.rs relies on no     *)
(* more than this, and GatewayDelivery implements it.                      *)
(***************************************************************************)
EXTENDS DeliveryCalls

VARIABLE fate       \* subject -> generation -> fate of the bytes

portVars == <<call, submitted, fate>>

Fates == {"open", "started", "written", "not_written"}

AnswersFor(f) ==
    {"InfrastructureError"} \cup
    CASE f = "written"     -> WrittenAnswers \cup {"Unconfirmed"}
      [] f = "started"     -> {"Unconfirmed"}
      [] f = "not_written" -> NotWrittenAnswers
      [] OTHER             -> {}

FateSuccessors(f) ==
    CASE f = "open"    -> Fates
      [] f = "started" -> {"started", "written", "not_written"}
      [] OTHER         -> {f}

\* The messages whose bytes may still move: submitted ones, of an open fate.
Afloat == {m \in Subjects \X Generations :
               m[2] \in submitted[m[1]] /\ fate[m[1]][m[2]] \in {"open", "started"}}

\* Bytes move on their own: a queued frame is flushed, a closing session takes
\* its prepared frames with it.
FateStep ==
    \E f \in [Afloat -> Fates] :
        /\ \A m \in Afloat : f[m] \in FateSuccessors(fate[m[1]][m[2]])
        /\ fate' = [s \in Subjects |-> [g \in Generations |->
                       IF <<s, g>> \in Afloat THEN f[<<s, g>>] ELSE fate[s][g]]]

PortInit ==
    /\ CallInit
    /\ fate = [s \in Subjects |-> [g \in Generations |-> "open"]]

\* The call returns.
Respond(w, o) ==
    /\ Answer(w, o)
    /\ FateStep
    /\ o \in AnswersFor(fate'[call[w].subject][call[w].generation])

Progress == FateStep /\ UNCHANGED callVars

Crash == FateStep /\ DropCalls

PortNext ==
    \/ \E w \in Workers, s \in Subjects, g \in Generations :
          Submit(w, s, g) /\ UNCHANGED fate
    \/ \E w \in Workers, o \in Answers : Respond(w, o)
    \/ \E w \in Workers : Return(w) /\ UNCHANGED fate
    \/ Progress
    \/ Crash

PortSpec == PortInit /\ [][PortNext]_portVars
=============================================================================
