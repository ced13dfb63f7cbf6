---------------------------- MODULE MCRiskWorkflow ----------------------------
(***************************************************************************)
(* Three intents on two symbols: 1 buys x, 2 sells y and buys x, 3 holds.   *)
(***************************************************************************)
EXTENDS RiskWorkflow

MCIntents == 1 .. 3
MCSymbols == {"x", "y"}
MCRoutes == MCSymbols
MCAction(i) == CASE i = 1 -> "BUY" [] i = 2 -> "SELL" [] OTHER -> "HOLD"

Buy(id, s) == [id |-> id, symbol |-> s, action |-> "BUY", ratio |-> 1, stop |-> 6]
Sell(id, s) == [id |-> id, symbol |-> s, action |-> "SELL", ratio |-> 1, stop |-> 24]
MCLegsOf(i) ==
    CASE i = 1 -> {Buy("a", "x")}
      [] i = 2 -> {Sell("b", "y"), Buy("c", "x")}
      [] OTHER -> {}
MCSymbolsNamed(i) == IF i = 2 THEN {"x", "y"} ELSE {"x"}
MCRequestedAt(i) == IF i = 2 THEN 1 ELSE 0
MCSignalExpiresAt(i) == 5

MCMetadata(s) ==
    [bid |-> IF s = "x" THEN 10 ELSE 20, ask |-> IF s = "x" THEN 10 ELSE 20, deviation |-> 0, tick |-> 2, value |-> 1, cost |-> 0,
     stops |-> 2, margin |-> 1, min |-> 1, max |-> 3, step |-> 1, mode |-> "FULL"]

MCPolicy ==
    [intentSkew |-> 1, intentAge |-> 4,
     snapshotAge |-> 4, orderAge |-> 4, marketAge |-> 4, metadataAge |-> 4, capacityAge |-> 4,
     approvalTtl |-> 3, commandTtl |-> 3,
     maxPositions |-> 4, maxLegs |-> 3, accountRisk |-> 8, riskPerTrade |-> 6,
     symbolExposure |-> 15, totalExposure |-> 20, marginUsage |-> 4, equity |-> 5]

MCSchedule ==
    [intents |-> {<<1, 1>>, <<0, 2>>, <<4, 3>>}, members |-> {1}, account |-> {2},
     ticks |-> {<<0, "x">>}, breaker |-> {<<0, "CLOSED">>, <<0, "OPEN">>},
     capacity |-> {<<1, TRUE>>, <<2, FALSE>>},
     reports |-> {<<1, TRUE>>, <<2, TRUE>>, <<2, FALSE>>}, moves |-> {<<1, "a">>},
     answers |-> {<<2, "a", "ORDER">>, <<2, "a", "OPEN">>,
                  <<2, "a", "GONE">>, <<3, "a", "CLOSED">>,
                  <<2, "b", "OPEN">>, <<2, "c", "OPEN">>, <<2, "c", "GONE">>}]
=============================================================================
