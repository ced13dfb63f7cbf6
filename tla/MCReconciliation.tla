--------------------------- MODULE MCReconciliation ---------------------------
(***************************************************************************)
(* Instances of ProjectionRebuild for TLC: one account key, one symbol, one *)
(* position, one order, two payloads, two moments.                          *)
(***************************************************************************)
EXTENDS ProjectionRebuild, TLC

CONSTANTS a, s, p, o, b, x, y, c1

Snapshot(id, k, at, received, v) ==
    [id |-> id, received |-> received, at |-> at, rows |-> k :> v, req |-> 0]

MCFacts ==
    {Snapshot(1, a, 1, 1, x), Snapshot(2, a, 1, 1, y), Snapshot(3, a, 2, 2, x),
     Snapshot(4, p, 1, 1, x), Snapshot(5, p, 1, 2, y), Snapshot(6, p, 2, 2, x),
     Snapshot(7, o, 2, 2, x), Snapshot(8, b, 1, 1, x), Snapshot(9, b, 1, 1, y)}

MCTicks == {[at |-> 1, v |-> x]}

Answer(id, r, at, received, rows, unresolved, symbols) ==
    [event |-> [id |-> id, received |-> received, at |-> at, rows |-> rows, req |-> r],
     unresolved |-> unresolved, symbols |-> symbols]

MCAnswers ==
    {Answer(10, 1, 1, 1, p :> x, {}, TRUE), Answer(11, 1, 2, 2, <<>>, {}, FALSE),
     Answer(12, 1, 2, 2, a :> y @@ s :> x, {c1}, FALSE),
     Answer(13, 2, 1, 2, <<>>, {}, FALSE), Answer(14, 2, 2, 2, p :> y @@ o :> x, {}, FALSE),
     Answer(15, 3, 2, 2, p :> x, {}, FALSE)}

MCEscalations == {[at |-> 2, updated |-> 2]}

MCTarget(r) == IF r = 2 THEN {c1} ELSE {}
MCCommandOf(k) == {c1}
MCOpenedAt(r) == 1
=============================================================================
