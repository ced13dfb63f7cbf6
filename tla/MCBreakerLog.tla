---------------------------- MODULE MCBreakerLog ----------------------------
(* A loss limit of 2, an observation period of 1, and a policy that was    *)
(* never filled in; inputs that differ in what the checks tell apart.      *)
EXTENDS BreakerLog, TLC

MCPolicy == [maxLoss |-> 2, maxDrawdown |-> 2, maxRejections |-> 1, maxFailures |-> 1,
             maxUnsynced |-> 0, maxStaleSnapshots |-> 0, maxStaleMetadata |-> 0,
             observation |-> 1, autoReset |-> TRUE]

MCHealthy == [loss |-> 0, drawdown |-> 0, rejections |-> 0, failures |-> 0, manualRuns |-> 0,
              recoveryPending |-> FALSE, unsyncedSince |-> None, staleSnapshots |-> 0,
              staleMetadata |-> 0, trigger |-> None]

MCLoss(l) == [MCHealthy EXCEPT !.loss = l]
MCUnsynced == [MCHealthy EXCEPT !.unsyncedSince = 1]
MCTrigger == [MCHealthy EXCEPT !.trigger = [operator |-> "op", reason |-> "why"]]

MCReady(e, t) == [epoch |-> e, stamps |-> <<1, 1, 0, 1, t>>]

MCClose(input, hardRisk, automatic) ==
    [kind |-> "Close",
     by |-> [automatic |-> automatic, operator |-> "op", evidenced |-> TRUE],
     health |-> [clock |-> TRUE, store |-> TRUE, hardRisk |-> hardRisk, input |-> input]]

MCRequests ==
    {[kind |-> "Observe", input |-> i] : i \in {MCHealthy, MCLoss(2), MCUnsynced, MCTrigger}}
    \cup {[kind |-> "EnterHalfOpen", readiness |-> MCReady(e, 1), input |-> i] :
              e \in 1 .. MaxStoredEpoch, i \in {MCHealthy, MCLoss(2)}}
    \cup {[kind |-> "EnterHalfOpen", readiness |-> MCReady(1, None), input |-> MCHealthy]}
    \cup {MCClose(MCHealthy, FALSE, FALSE), MCClose(MCHealthy, TRUE, TRUE),
          MCClose(MCLoss(1), FALSE, TRUE)}
    \cup {[kind |-> "RecordBlocked", total |-> 1]}

MCCalls ==
    {[policy |-> MCPolicy, request |-> r] : r \in MCRequests}
    \cup {[policy |-> [MCPolicy EXCEPT !.observation = 0],
           request |-> [kind |-> "RecordBlocked", total |-> 1]]}

MCSymmetry == Permutations(Processes)
=============================================================================
