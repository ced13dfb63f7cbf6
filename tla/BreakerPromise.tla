--------------------------- MODULE BreakerPromise ---------------------------
(***************************************************************************)
(* What the stored circuit breaker promises, as the history of its status  *)
(* and of the epoch that identifies an incident: it opens under the next   *)
(* epoch, and an incident ends only by being half open first, under the    *)
(* epoch it was opened with.                                               *)
(***************************************************************************)
EXTENDS Naturals

VARIABLES status, epoch

vars == <<status, epoch>>

Init == status = "MISSING" /\ epoch = 0

Trip == status' = "OPEN" /\ epoch' = epoch + 1

Probe == status = "OPEN" /\ status' = "HALF_OPEN" /\ epoch' = epoch

Resume == status = "HALF_OPEN" /\ status' = "CLOSED" /\ epoch' = epoch

Next == Trip \/ Probe \/ Resume

Spec == Init /\ [][Next]_vars
=============================================================================
