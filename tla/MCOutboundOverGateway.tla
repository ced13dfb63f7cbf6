----------------------- MODULE MCOutboundOverGateway -----------------------
(***************************************************************************)
(* OutboundOverGateway on small instances: one command and the request of  *)
(* its run, or one request of a resumed session alone.                     *)
(***************************************************************************)
EXTENDS OutboundOverGateway

CONSTANTS c1, r1, k1

MCRequestOf == [c \in {c1} |-> r1]
MCNoRequests == [c \in {} |-> r1]
MCClientOf == [x \in Sessions |-> k1]

\* Both are delivered, or the run of the command is only opened.
MCBound == [s \in Subjects |-> MaxGeneration]
MCCommandsBound == [s \in Subjects |-> IF s \in Commands THEN MaxGeneration ELSE 0]
=============================================================================
