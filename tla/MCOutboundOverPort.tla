------------------------- MODULE MCOutboundOverPort -------------------------
(* One command with the request of its run, and the run of a resumed        *)
(* session, which is opened and not delivered.                              *)
EXTENDS OutboundOverPort

CONSTANTS c1, r1, r2

MCRequestOf == [c \in {c1} |-> r1]
MCBound == [s \in Subjects |-> IF s = r2 THEN 0 ELSE MaxGeneration]
=============================================================================
