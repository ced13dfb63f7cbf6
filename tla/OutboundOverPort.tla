-------------------------- MODULE OutboundOverPort --------------------------
(***************************************************************************)
(* The outbound workers of OutboundWork over any delivery port that keeps  *)
(* the promise of DeliveryPort, with leases that run out under a live      *)
(* owner, transactions that fail, and a process that crashes and restarts. *)
(* What holds here holds whatever the gateway does behind the port.        *)
(***************************************************************************)
EXTENDS OutboundWork, DeliveryPort

vars == <<status, work, call, submitted, fate>>

Init == WorkInit /\ PortInit

\* The client can only answer a message that reached it.
ClientAnswers(s) ==
    /\ \E g \in Generations : fate[s][g] = "written"
    /\ Evidence(s)

Next ==
    \/ \E w \in Workers, s \in Subjects : Claim(w, s) /\ UNCHANGED fate
    \/ \E w \in Workers : Commit(w) /\ UNCHANGED fate
    \/ \E w \in Workers : RollBack(w) /\ UNCHANGED fate
    \/ \E w \in Workers : StoreFails(w) /\ UNCHANGED fate
    \/ \E s \in Subjects : LeaseExpires(s) /\ UNCHANGED fate
    \/ \E r \in Requests : ResumeRun(r) /\ UNCHANGED fate
    \/ \E s \in Subjects : ClientAnswers(s) /\ UNCHANGED fate
    \/ \E w \in Workers, o \in Answers :
          Respond(w, o) /\ UNCHANGED workVars
    \/ Progress /\ UNCHANGED workVars
    \/ Crash /\ UNCHANGED workVars

Spec == Init /\ [][Next]_vars

-----------------------------------------------------------------------------
(* Properties.                                                             *)

\* The type of the durable rows, the calls and the history.
TypeOK ==
    /\ status \in [Subjects -> Statuses]
    /\ \A s \in Subjects : s \in Commands <=> status[s] \notin {"None", "Requested", "Settled"}
    /\ work \in [Subjects -> Rows]
    /\ call \in [Workers -> Calls]
    /\ submitted \in [Subjects -> SUBSET Generations]
    /\ fate \in [Subjects -> [Generations -> Fates]]

MayHaveLeft(s, g) == fate[s][g] \in {"started", "written"}

\* No duplicate trade: of all the messages that retries ever create for one
\* command (or one request), at most one may have left the process.  The
\* worker opens a new generation only on evidence that the old one never will
\* (RetryOutboundDeliveryWork.advance_generation), and no worker that lost its
\* lease can open one on evidence about an older generation.
AtMostOneGenerationLeaves ==
    \A s \in Subjects : \A g, h \in Generations :
        MayHaveLeft(s, g) /\ MayHaveLeft(s, h) => g = h

\* The generation of a work row is the only one that can still move: every
\* earlier one is known never to leave, every later one is untouched.
GenerationsAreSettledInOrder ==
    \A s \in Subjects, g \in Generations :
        /\ g < work[s].generation => fate[s][g] = "not_written"
        /\ g > work[s].generation => fate[s][g] = "open"

\* A command is dispatched only on evidence that its bytes left.
DispatchedMeansWritten ==
    \A c \in Commands :
        status[c] \in {"Dispatched", "CommandReceived"} =>
            \E g \in Generations : fate[c][g] = "written"

\* A command that Core expired (expire_command) was never, and will never be,
\* seen by the client.
ExpiredNeverLeaves ==
    \A c \in Commands :
        status[c] = "Expired" => \A g \in Generations : ~MayHaveLeft(c, g)

\* A finished work row leaves no command behind: the only way to end the work of
\* a command that is still CREATED is a permanent rejection.
NoCommandAbandoned ==
    \A c \in Commands :
        work[c].status = "Delivered" /\ status[c] = "Created" =>
            work[c].outcome = "PermanentRejection"

\* DELIVERY_UNCONFIRMED and the reconciliation run that must resolve it are
\* committed together, and its work row is closed: no blind resend.
UnconfirmedIsReconciled ==
    \A c \in Commands :
        status[c] = "DeliveryUnconfirmed" =>
            /\ status[RequestOf[c]] # "None"
            /\ work[c].status = "Delivered"
=============================================================================
