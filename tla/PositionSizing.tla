---------------------------- MODULE PositionSizing ----------------------------
(***************************************************************************)
(* Sizing of the legs of an approved intent (risk/src/evaluator.rs): one    *)
(* scale is found for the whole intent, every leg gets the scale times its  *)
(* ratio, rounded down to the broker's volume step.  Amounts of money and   *)
(* lots are integers in their smallest unit.  The code divides decimals; a   *)
(* scale is here the exact fraction [n |-> _, d |-> _], so the rounding of   *)
(* the 28th digit, which the code's final re-check covers, is left out.      *)
(***************************************************************************)
EXTENDS Integers, FiniteSets, FiniteSetsExt

Ceil(a, b) == (a + b - 1) \div b

Abs(a) == IF a < 0 THEN -a ELSE a

-----------------------------------------------------------------------------
\* What one lot of a symbol costs.  m is the symbol's metadata and prices:
\* bid, ask, tick, value (of a tick), stops (least stop distance), margin,
\* min, max, step (of the volume) and the trade mode.

\* The price a market order may at worst be filled at, deviation included.
WorstEntry(m, action) ==
    IF action = "BUY" THEN m.ask + m.deviation ELSE m.bid - m.deviation

\* The stop lies on the losing side of an entry that is no better than the
\* market, and not too close to it.
StopIsValid(m, leg) ==
    LET entry == WorstEntry(m, leg.action)
    IN  /\ leg.action = "BUY" => leg.stop < entry /\ entry >= m.ask
        /\ leg.action = "SELL" => leg.stop > entry /\ entry <= m.bid
        /\ Abs(entry - leg.stop) >= m.stops

TradeModeAllows(m, action) ==
    \/ m.mode = "FULL"
    \/ m.mode = "LONG_ONLY" /\ action = "BUY"
    \/ m.mode = "SHORT_ONLY" /\ action = "SELL"

LossPerLot(m, leg) ==
    Ceil(Abs(WorstEntry(m, leg.action) - leg.stop), m.tick) * m.value + m.cost

NotionalPerLot(m, price) == Ceil(Max({m.bid, m.ask, price}), m.tick) * m.value

\* prepare_legs: what sizing needs of a leg.
Prepared(m, leg) ==
    [id |-> leg.id, symbol |-> leg.symbol, ratio |-> leg.ratio,
     loss |-> LossPerLot(m, leg),
     notional |-> NotionalPerLot(m, WorstEntry(m, leg.action)),
     margin |-> m.margin, min |-> m.min, max |-> m.max, step |-> m.step]

-----------------------------------------------------------------------------
\* The scale.  in is what the account has left: budget (of loss), exposure (by
\* symbol), total (exposure) and margin; legs is a set of prepared legs.

SymbolsOf(legs) == {l.symbol : l \in legs}

\* Every cap divides what is left by what the legs take of it per unit of scale.
BudgetCap(in, legs) ==
    [n |-> in.budget, d |-> MapThenSumSet(LAMBDA l : l.ratio * l.loss, legs)]
VolumeCaps(legs) == {[n |-> l.max, d |-> l.ratio] : l \in legs}
SymbolCaps(in, legs) ==
    {[n |-> in.exposure[s],
      d |-> MapThenSumSet(LAMBDA l : l.ratio * l.notional, {l \in legs : l.symbol = s})]
        : s \in SymbolsOf(legs)}
TotalCap(in, legs) ==
    [n |-> in.total, d |-> MapThenSumSet(LAMBDA l : l.ratio * l.notional, legs)]
MarginCap(in, legs) ==
    [n |-> in.margin, d |-> MapThenSumSet(LAMBDA l : l.ratio * l.margin, legs)]

\* Variant: the margin is not one of the caps.
CapsButMargin(in, legs) ==
    {BudgetCap(in, legs), TotalCap(in, legs)} \cup VolumeCaps(legs) \cup SymbolCaps(in, legs)

Caps(in, legs) ==
    {BudgetCap(in, legs), TotalCap(in, legs), MarginCap(in, legs)}
        \cup VolumeCaps(legs) \cup SymbolCaps(in, legs)

\* Something must be left of everything before a scale is computed at all.
Available(in, legs) ==
    /\ in.budget > 0 /\ in.total > 0 /\ in.margin > 0
    /\ \A s \in SymbolsOf(legs) : in.exposure[s] > 0

\* cap_scale keeps the smallest.
Scale(caps) == CHOOSE c \in caps : \A o \in caps : c.n * o.d <= o.n * c.d

\* floor_to_step
FloorToStep(n, d, step) == (n \div (d * step)) * step

Lots(in, legs, l) ==
    LET scale == Scale(Caps(in, legs))
    IN  FloorToStep(scale.n * l.ratio, scale.d, l.step)

\* Sized legs are given out or refused together: every one of them reaches the
\* broker's least volume, or none is traded.  The exposure of a symbol the intent
\* does not touch counts as well: an account above a cap opens nothing.
Sizable(in, legs) ==
    /\ Available(in, legs)
    /\ \A s \in DOMAIN in.exposure : in.exposure[s] >= 0
    /\ \A l \in legs : Lots(in, legs, l) > 0 /\ Lots(in, legs, l) >= l.min

-----------------------------------------------------------------------------
\* The reference for a single leg: the largest volume that keeps every limit.
Affordable(in, l, lots) ==
    /\ lots % l.step = 0 /\ lots >= l.min /\ lots <= l.max
    /\ lots * l.loss <= in.budget
    /\ lots * l.notional <= in.exposure[l.symbol]
    /\ lots * l.notional <= in.total
    /\ lots * l.margin <= in.margin

LargestAffordable(in, l) ==
    Max({0} \cup {lots \in 1 .. l.max : Affordable(in, l, lots)})
=============================================================================
