------------------------------ MODULE Ranking ------------------------------
(***************************************************************************)
(* How good a token is (domain/scanner/opportunity.ts), whether the switch *)
(* is on (momentum.ts and the component floors) and the one order tokens   *)
(* are served in (ranking.ts), with the shelf a watch pass ranks again     *)
(* (application/recall.ts).                                                *)
(*                                                                         *)
(* Components are in thousandths, the score in tenths of a point, spreads  *)
(* and slippages in basis points.                                          *)
(***************************************************************************)
EXTENDS Gates

Unit == 1000
Clamp01(x) == IF x < 0 THEN 0 ELSE IF x > Unit THEN Unit ELSE x
On(condition) == IF condition THEN Unit ELSE 0
Magnitude(x) == IF ~Known(x) THEN 0 ELSE IF x < 0 THEN -x ELSE x

-----------------------------------------------------------------------------
(* The components.                                                         *)

FullExpansionRatio == 3
FullVolatilityPct  == 20
MinRisePct         == 1
HeadroomMaxFallPct == 3
WorstRoundTrip     == 400

\* The hour's volume against the day's average hour.
VolumeExpansion(s) ==
  IF s.volume = 0 THEN 0
  ELSE Clamp01((Unit * 24 * s.hourVolume) \div (FullExpansionRatio * s.volume))

BuyPressure(s) ==
  IF s.buys + s.sells = 0 THEN 0 ELSE Clamp01((Unit * (s.buys - s.sells)) \div (s.buys + s.sells))

\* The hour's change when the provider reports one; else against the last scan.
LiquidityGrowth(s, previous) ==
  IF Known(s.liquidityChange) THEN On(s.liquidityChange > 0)
  ELSE IF previous = Null \/ previous = 0 THEN Unit \div 2
  ELSE Clamp01((Unit * s.liquidity) \div previous - Unit \div 2)

Volatility(s) == Clamp01((Unit * (2 * Magnitude(s.h1) + Magnitude(s.h6))) \div (2 * FullVolatilityPct))

Rose(pct) == Known(pct) /\ pct >= MinRisePct
Momentum(s) == On(Rose(s.h24) \/ Rose(s.h1))

\* What is left of the hour: neutral when nobody reported one.
Headroom(s) ==
  IF ~Known(s.h1) THEN Unit \div 2 ELSE On(s.h1 >= -HeadroomMaxFallPct)

\* The toll of going in and out: neutral when nobody measured it.
CostEfficiency(quality) ==
  IF quality = Null THEN Unit \div 2
  ELSE Clamp01(Unit - (2 * Unit * (quality.spread + quality.slippage)) \div WorstRoundTrip)

\* risingInTheHour: by anything at all; an hour nobody reported does not rise.
RisingHour(s) == On(Over(s.h1, 0))

\* The activity of the hour is a logarithm of its trades, read off the look.
Components(s, previous, quality) ==
  [volumeExpansion |-> VolumeExpansion(s), buyPressure |-> BuyPressure(s),
   liquidityGrowth |-> LiquidityGrowth(s, previous), activity |-> s.activity,
   volatility |-> Volatility(s), momentum |-> Momentum(s), headroom |-> Headroom(s),
   costEfficiency |-> CostEfficiency(quality), risingHour |-> RisingHour(s)]

\* The weights in force: trend 5, the hour 3, the toll 3; the rest weigh 0.
Score(c) == (5 * c.momentum + 3 * c.headroom + 3 * c.costEfficiency) \div 11

-----------------------------------------------------------------------------
(* The switch.                                                             *)

\* A floor is [level, strict].  A component that is not there clears none.
ClearsFloor(c, name, floor) ==
  name \in DOMAIN c /\ (IF floor.strict THEN c[name] > floor.level ELSE c[name] >= floor.level)

FailedMinimums(c, floors) == {name \in DOMAIN floors : ~ClearsFloor(c, name, floors[name])}
MeetsMinimums(c, floors) == FailedMinimums(c, floors) = {}

\* No door at all lets everyone in.
MeetsAnyDoor(c, doors) == doors = << >> \/ \E i \in DOMAIN doors : MeetsMinimums(c, doors[i])

\* risingAcrossWindows: a full percent in five minutes.
RisingAcrossWindows(s) == Known(s.m5) /\ s.m5 >= 1

-----------------------------------------------------------------------------
(* The order.                                                              *)

\* volatilityRank: what nobody measured comes after everything measured.
VolatilityRank(s) == IF Known(s.volatility) THEN s.volatility ELSE -1

\* An unknown capitalisation is a small one.
Big(s, p) == Known(p.smallCap) /\ Over(s.fdv, p.smallCap)

\* candidateComparator: a ranked token is [s, score, cost, forgiven], and its
\* address breaks the last tie.
Before(p, a, b) ==
  LET first == CASE p.order = "volatility" -> VolatilityRank(a.s) - VolatilityRank(b.s)
                 [] p.order = "costEfficiency" -> a.cost - b.cost
                 [] p.order = "size" -> (IF Big(b.s, p) THEN 1 ELSE 0) - (IF Big(a.s, p) THEN 1 ELSE 0)
  IN \/ first > 0
     \/ first = 0 /\ a.score > b.score
     \/ first = 0 /\ a.score = b.score /\ a.s.address < b.s.address

\* The reserve is served behind whatever qualified.
Served(p, a, b) ==
  IF a.forgiven # b.forgiven THEN b.forgiven ELSE Before(p, a, b)

\* As a bug would have it: what is held takes a place in the cut.
CutToSlots(ranked, slots, held, p) ==
  {c \in ranked : c.s.address \in held \/ Cardinality({d \in ranked : Served(p, d, c)}) < slots}

\* cutToFreeSlots: the first `slots` tokens not held, and every one that is.
CutToFreeSlots(ranked, slots, held, p) ==
  {c \in ranked : c.s.address \in held
                  \/ Cardinality({d \in ranked : d.s.address \notin held /\ Served(p, d, c)}) < slots}

-----------------------------------------------------------------------------
(* rankUniverse: what each token of a universe is.                         *)

\* `previous` and `quality` are functions of the address, Null where nothing is
\* known.
Ranked(s, p, previous, quality) ==
  LET c == Components(s, previous[s.address], quality[s.address]) IN
  [s |-> s, score |-> Score(c), cost |-> c.costEfficiency, components |-> c,
   quality |-> quality[s.address], forgiven |-> EvaluateGates(s, p) # {}]

IsForgiven(s, p) == p.forgives /\ Forgiven(EvaluateGates(s, p))
Refused(s, p) == EvaluateGates(s, p) # {} /\ ~IsForgiven(s, p)

\* The switch is off: not rising where that is asked, or under a floor.
SwitchFails(r, p) ==
  (IF p.requireRising /\ ~RisingAcrossWindows(r.s) THEN {"rising"} ELSE {})
  \cup FailedMinimums(r.components, p.floors)

\* `places` is [slots, held]: the free slots the pass counted, and what it holds.
RankUniverse(universe, p, places, previous, quality) ==
  LET scored   == {Ranked(s, p, previous, quality) : s \in universe}
      rejected == {r \in scored : Refused(r.s, p)}
      worth    == {r \in scored \ rejected : r.score >= p.minScore}
      off      == {r \in worth : SwitchFails(r, p) # {}}
  IN [candidates |-> CutToFreeSlots(worth \ off, places.slots, places.held, p),
      rejected |-> rejected, switchedOff |-> off]

-----------------------------------------------------------------------------
(* The shelf.                                                              *)

\* The impact some quote measured, else the one the reported liquidity models;
\* in cents, from thousands of dollars.
ShelfQuality(s, p, measured) ==
  LET cents == 100000 * s.liquidity IN
  [spread |-> p.spread, reference |-> p.reference, liquidity |-> cents,
   slippage |-> IF measured[s.address] # Null THEN measured[s.address]
                ELSE IF cents > 0 THEN (20000 * p.reference) \div cents ELSE 10000]

\* The stored scan in today's market; a bad minute leaves it as it was.
LiveShelf(shelf, live) == {WithLiveMarket(s, live[s.address]) : s \in shelf}

ShelfQualities(now, p, live, measured) ==
  [a \in DOMAIN live |-> ShelfQuality(CHOOSE s \in now : s.address = a, p, measured)]

Nobody == [candidates |-> {}, rejected |-> {}, switchedOff |-> {}]

\* recallCandidates: the shelf ranked again.  When its oldest half is too old it
\* answers nothing, which the pass reads as nobody.
RecallCandidates(shelf, p, places, live, measured, age) ==
  LET now == LiveShelf(shelf, live) IN
  IF shelf = {} \/ age > p.maxShelfAge THEN Nobody
  ELSE RankUniverse(now, p, places, [a \in DOMAIN live |-> Null], ShelfQualities(now, p, live, measured))

=============================================================================
