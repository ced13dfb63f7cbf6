------------------------- MODULE MCGatewayDelivery -------------------------
(***************************************************************************)
(* GatewayDelivery on small instances.                                     *)
(***************************************************************************)
EXTENDS GatewayDelivery, TLC

CONSTANTS k1

\* The sessions of one client, one after the other.
MCOneClient == [x \in Sessions |-> k1]

\* Workers, commands and the sessions of one client are interchangeable.
MCSymmetry == Permutations(Workers) \cup Permutations(Sessions) \cup Permutations(Commands)
=============================================================================
