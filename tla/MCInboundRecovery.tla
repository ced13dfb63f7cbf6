-------------------------- MODULE MCInboundRecovery --------------------------
(* The workers all have one id, as two processes with the same configuration *)
(* have.                                                                     *)
EXTENDS InboundRecovery

MCSameId == [w \in Workers |-> 1]
=============================================================================
