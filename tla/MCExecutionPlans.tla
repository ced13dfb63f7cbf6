-------------------------- MODULE MCExecutionPlans --------------------------
EXTENDS ExecutionPlans, TLC

CONSTANTS l1, l2

LegSymmetry == Permutations(Legs)

=============================================================================
