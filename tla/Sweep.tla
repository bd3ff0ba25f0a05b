-------------------------------- MODULE Sweep --------------------------------
(***************************************************************************)
(* The stop sweep over one position (application/stop-sweep.ts): at each   *)
(* look at the live price, the exits in their order, what the row must     *)
(* remember between looks, and, if nothing sold, at most one buy of one of *)
(* the ladders.  What a look saves is on the row and survives a restart;   *)
(* the crash marks and the pressure readings are the process's and do not. *)
(*                                                                         *)
(* A holding is the buys since the position was last flat.  The candle     *)
(* tick may sell one and leave the row, and another begins in it.  How an  *)
(* order is settled, and what merges with what when a row is saved, are    *)
(* Settlement's and PositionMerge's; whether the dip-bounce fires is       *)
(* DipBounce's, and here an answer of the look.                            *)
(*                                                                         *)
(* Percentages are in basis points, the pressure in thousandths, scales in *)
(* hundredths, money in cents.                                             *)
(***************************************************************************)
EXTENDS Allocation

CONSTANTS
  SweepRules,   \* what the configuration switches on; Null is off
  MaxSweeps,    \* bound: looks at the market
  MaxRestarts,  \* bound: restarts of the process
  MaxFills      \* bound: fills on the tape

-----------------------------------------------------------------------------
(* What the sweep is handed: each rule with its settings, or Null.  The     *)
(* memories that come with a rule in the code are `memory` below.          *)

CrashStopFields  == {"drop", "window"}
PressureTpFields == {"arm", "drop"}
PressureFields   == {"threshold", "maxEntries", "usd"}
DropFields       == {"drops", "rungs", "fromPrevious", "maxEntries", "adaptive", "realtime", "brake", "recover"}
DeepFields       == {"fall", "rebound", "maxEntries", "usd"}
DipBounceFields  == {"schedule", "onSelection", "fromCapital"}
SizingFields     == {"gas", "costShare", "floor", "rewardRisk", "maxStop", "breakEven", "armPct", "breakEvenFloor", "stop"}

Deps ==
  [crash |-> CrashStopFields, pressureTp |-> PressureTpFields, pressure |-> PressureFields, drop |-> DropFields,
   deep |-> DeepFields, dip |-> DipBounceFields, sizing |-> SizingFields]

ASSUME SweepAssumption ==
  /\ MaxSweeps \in Nat /\ MaxRestarts \in Nat /\ MaxFills \in Nat
  /\ \A r \in SweepRules : \A d \in DOMAIN Deps : r[d] = Null \/ Deps[d] \subseteq DOMAIN r[d]

VARIABLES
  rule,      \* the configuration, for good
  row,       \* what the position remembers
  tape,      \* its fills, oldest first
  memory,    \* what only the process remembers
  clock,     \* the looks so far
  restarts,
  seen       \* history: what this holding has been through

sweepVars == <<rule, row, tape, memory, clock, restarts, seen>>

-----------------------------------------------------------------------------
(* The holding.                                                            *)

\* holdingBuys: every sale here is of everything.
HoldingBuys(fills) ==
  LET sells == {i \in DOMAIN fills : fills[i].side = "sell"}
  IN  SubSeq(fills, IF sells = {} THEN 1 ELSE Max(sells) + 1, Len(fills))

\* positionLedger: what is held, and its basis, the average cost times the
\* quantity.
Ledger(fills) ==
  LET buys == HoldingBuys(fills) IN
  [qty   |-> FoldSeq(LAMBDA f, sum : f.qty + sum, 0, buys),
   basis |-> FoldSeq(LAMBDA f, sum : f.qty * f.price + sum, 0, buys)]

Since(fills) == HoldingBuys(fills)[1].time
Held(fills) == HoldingBuys(fills) # << >>

\* The gain over the average cost, and whether it is at most so much.
Gain(price, l) == (Whole * price * l.qty) \div l.basis - Whole
GainAtMost(price, l, pct) == Whole * price * l.qty <= l.basis * (Whole + pct)

\* positionTollPct of the whole holding.
Toll(buys, l, price, z) ==
  PositionToll(z.gas * Len(buys), l.basis, l.qty * price, z.quality, z.gas)

-----------------------------------------------------------------------------
(* The lines an exit is at.                                                *)

\* exitLevelsFor: the stop follows the target only where no dollars decide and
\* some percentage does, and then asks for no number of buys.
ExitLevels(z) ==
  LET trip   == RoundTripCostForFill(z.capital, z.quality, z.gas)
      target == IF z.costShare = Null THEN Null ELSE MinProfitPctFor(trip, z.costShare, z.floor)
      ratio  == IF target = Null \/ z.rewardRisk = Null THEN 0 ELSE StopForRatio(target, trip, z.rewardRisk)
      capped == IF z.maxStop > 0 THEN Min({ratio, z.maxStop}) ELSE ratio
      derived == z.stop.maxLoss = 0 /\ (z.stop.min > 0 \/ z.stop.max > 0) /\ ratio > 0
      armAt  == IF z.armPct # Null THEN z.armPct ELSE target
      floor  == IF z.breakEvenFloor # Null THEN z.breakEvenFloor ELSE trip
  IN [stop |-> IF derived THEN [z.stop EXCEPT !.share = 0, !.min = capped, !.max = capped,
                                              !.minBuys = 0, !.historyCovers = FALSE]
               ELSE z.stop,
      armAt |-> IF z.breakEven THEN armAt ELSE Null,
      breakEven |-> IF armAt = Null THEN floor ELSE Min({floor, armAt})]

\* stopLossPctFor, and lossUsd.
StopLossPct(run, stop) ==
  IF stop.share <= 0 THEN stop.min
  ELSE Min({stop.max, Max({stop.min, Pct(IF run = Null THEN 0 ELSE run, stop.share)})})
Loss(price, l) == l.basis - price * l.qty

\* shouldStopOut: dollars decide where they are set.
ShouldStopOut(price, buys, l, stop, run) ==
  /\ buys # << >> /\ Len(buys) >= stop.minBuys
  /\ IF stop.maxLoss > 0 THEN Loss(price, l) > stop.maxLoss
     ELSE StopLossPct(run, stop) > 0 /\ GainAtMost(price, l, -StopLossPct(run, stop))

\* tokenNetUsd, of this row's own sales.
TokenNet(fills, z) ==
  FoldSeq(LAMBDA f, sum : (IF f.side = "sell" THEN f.made ELSE 0) - z.gas + sum, 0, fills)

\* gainLockFloorPct: the floor a gain has earned.
GainLockFloor(gain, p) ==
  IF gain < p.start THEN Null
  ELSE p.firstFloor + p.floorStep * (IF p.step > 0 THEN (gain - p.start) \div p.step ELSE 0)

\* stepCrashStop: the peak of the marks still in the window, and this one added.
RecentMarks(marks, at, p) == {m \in marks : at - m.at < p.window}
Crashed(marks, price, p) ==
  p.drop > 0 /\ \E m \in marks : Whole * price < m.price * (Whole - p.drop)

\* buyShare and pressureOf, of the last hour's trades.
BuyShare(c) == IF c.buys + c.sells > 0 THEN (1000 * c.buys) \div (c.buys + c.sells) ELSE Null
PressureOf(c) == IF BuyShare(c) = Null THEN Null ELSE Max({0, 2 * BuyShare(c) - 1000})

-----------------------------------------------------------------------------
(* What the ladders wait for.                                              *)

Factor(pct) == Whole - pct

\* deepRungArmed and nextDeepRung: the second buy and the last, off a low under
\* the line, bounced, and still under the average.
DeepArmed(first, low, p) == Whole * low < first * Factor(p.fall)
DeepRungFires(buys, low, price, l, p) ==
  /\ Len(buys) = 1 /\ p.maxEntries >= 2
  /\ low # Null /\ DeepArmed(buys[1].price, low, p)
  /\ Whole * price >= low * (Whole + p.rebound)
  /\ price * l.qty < l.basis

\* Mutant of OfHolding: whatever holding the row last wrote of.
OfAnyHolding(stored, since) == stored

\* What the row has of this holding and of no other.
OfHolding(stored, since) == IF stored # Null /\ stored.since = since THEN stored ELSE Null

\* nextPriceLow.
NextPriceLow(stored, price, since) ==
  LET current == OfHolding(stored, since) IN
  IF current # Null /\ price >= current.price THEN current ELSE [price |-> price, since |-> since]

\* priceLowWorthWriting: a low that is new, and under the line.
LowWorthWriting(stored, next, first, p) == DeepArmed(first, next.price, p) /\ next # stored

LiquidityBrakes(reading, pct) ==
  \E fell \in {reading.m5, reading.h1} : fell # Null /\ fell <= -pct

\* The pool before it changed so much.
BeforeChange(usd, pct) == IF pct # Null /\ pct > -Whole THEN (usd * Whole) \div (Whole + pct) ELSE usd

\* nextLiquidityWatch: braked by a fall under the peak, and released, with a
\* buy, by a recovery from the lowest it saw.
NextLiquidityWatch(stored, reading, p, since) ==
  LET current == OfHolding(stored, since)
      watch(peak, min, braked) == [peak |-> peak, min |-> min, braked |-> braked, since |-> since]
      usd  == reading.usd
      peak == IF current = Null THEN Max({usd, BeforeChange(usd, reading.h1), BeforeChange(usd, reading.m5)})
              ELSE Max({current.peak, usd})
      min  == Min({current.min, usd})
  IN IF reading = Null THEN [watch |-> current, buys |-> FALSE]
     ELSE IF current = Null \/ ~current.braked
     THEN [watch |-> watch(peak, usd, LiquidityBrakes(reading, p.brake) /\ Whole * (peak - usd) >= peak * p.brake),
           buys |-> FALSE]
     ELSE IF Whole * usd >= min * (Whole + p.recover)
     THEN [watch |-> watch(usd, usd, FALSE), buys |-> TRUE]
     ELSE [watch |-> watch(current.peak, min, TRUE), buys |-> FALSE]

\* liquidityWatchMoved: any change of kind, a peak 1% higher, a low 1% lower.
LiquidityMoved(stored, next) ==
  \/ stored = Null
  \/ stored.since # next.since \/ stored.braked # next.braked
  \/ 100 * next.peak >= 101 * stored.peak
  \/ next.braked /\ 100 * next.min <= 99 * stored.min

MaxDrop == 9000
ScaledDrop(drop, scale) == Min({MaxDrop, (drop * scale) \div 100})

\* nextDropRung at a scale: at the line under the first buy or the previous.
DropRungFires(buys, price, scale, p) ==
  LET n      == Len(buys)
      anchor == IF p.fromPrevious THEN buys[n].price ELSE buys[1].price
  IN /\ n \in 1..(p.maxEntries - 1) /\ n \in DOMAIN p.drops
     /\ Whole * price <= anchor * Factor(ScaledDrop(p.drops[n], scale))

\* usableScale: what nobody measured is the ladder as it is configured.
UsableScale(scale) == IF scale = Null THEN 100 ELSE scale

\* withDcaScale: a tick measures the scale at the buy once, when it can.
WithDcaScale(stored) == IF stored # Null THEN {stored} ELSE {Null} \cup rule.scales

\* spacingFor: the last hour's scale when it was read, or the one at the buy;
\* nothing is asked unless the shallowest of them would fire.
ShallowestScale == 50
Measures(buys, price, measured, atBuy, p) ==
  /\ p.adaptive /\ p.realtime /\ measured # Null
  /\ DropRungFires(buys, price, Min({ShallowestScale, UsableScale(atBuy)}), p)
Spacing(buys, price, measured, atBuy, p) ==
  IF ~p.adaptive THEN 100
  ELSE IF Measures(buys, price, measured, atBuy, p) THEN measured ELSE UsableScale(atBuy)

\* nextPressureRung, and buyersFellThrough.
CrossedUp(previous, now, threshold) == previous # Null /\ now # Null /\ previous <= threshold /\ now > threshold
FellThrough(previous, now, threshold) == previous # Null /\ now # Null /\ previous > threshold /\ now <= threshold

\* stepPressureTp, of a profit that runs: sold on a fall from the peak of the
\* share of the buyers.  A silent hour says nothing.
StepPressureTp(peak, share, p) ==
  [peak  |-> IF share = Null THEN peak ELSE IF peak = Null THEN share ELSE Max({peak, share}),
   sells |-> share # Null /\ peak # Null /\ Whole * share <= peak * Factor(p.drop)]

-----------------------------------------------------------------------------
(* One look.  A look has what each source said: `price`; `counts`, of the  *)
(* hour, perhaps Null, and whether they were `answered`; `pool`, Null or a *)
(* reading; `scale`, Null or the last hour's; `funded`, whether there is   *)
(* capital; `dips`, whether the dip-bounce fires; `drained`, whether its   *)
(* pool lost what it had at the entry.  The state of a sweep is what it    *)
(* has written so far, `read`, the fills it read first, with what they say *)
(* of the holding, the lines it lives between, and whether its buy is      *)
(* `spent`.                                                                *)

\* refusesToSellAtALoss: the stops may; nothing else, after what leaving costs.
MayLose == {"crash", "stop"}
RefusesToSell(price, fills, why) ==
  LET l == Ledger(fills) IN
  why \notin MayLose /\ price * l.qty * Factor(rule.sizing.exitCost) < l.basis * Whole

\* settle: a stamp is after the newest.
StampOf(fills, at) ==
  IF fills = << >> \/ at > Last(fills).time THEN at ELSE Last(fills).time + 1

\* The sale of everything, and the close of the row after it.
Sold(s, price, at, why) ==
  LET l == Ledger(s.tape) IN
  [s EXCEPT !.row.open = FALSE,
            !.tape = Append(@, [side |-> "sell", price |-> price, qty |-> l.qty, time |-> StampOf(@, at),
                                key |-> <<why, s.row.bar, 0>>, why |-> why, made |-> l.qty * price - l.basis])]

SellsIf(s, wants, price, at, why) ==
  IF s.row.open /\ wants /\ ~RefusesToSell(price, s.tape, why) THEN Sold(s, price, at, why) ELSE s

\* A buy of the n-th step, once per key, and while the venue holds one more.
Bought(s, usd, price, at, keyAt, why) ==
  LET n   == Len(s.buys)
      key == <<keyAt[1], keyAt[2], n>>
  IN IF \/ \E i \in DOMAIN s.tape : s.tape[i].key = key
        \/ Len(HoldingBuys(s.tape)) >= rule.holds \/ Len(s.tape) >= MaxFills THEN s
     ELSE [s EXCEPT !.tape = Append(@, [side |-> "buy", price |-> price, qty |-> usd \div price,
                                        time |-> StampOf(@, at), key |-> key, why |-> why, made |-> 0])]

BarKey(s) == <<"bar", s.row.bar>>

Healthy(s) == s.row.stage = "healthy"
Exits(s) == s.row.open /\ s.buys # << >>

\* The crash stop: the marks are kept by the row's id, whatever it holds.
CrashStop(s, look, at) ==
  IF rule.crash = Null \/ ~Exits(s) \/ s.row.stage = "dead" THEN s
  ELSE LET recent == RecentMarks(s.memory.marks, at, rule.crash)
           sold   == SellsIf(s, Crashed(recent, look.price, rule.crash), look.price, at, "crash")
       IN [sold EXCEPT !.memory.marks =
             IF sold.row.open THEN recent \cup {[at |-> at, price |-> look.price]} ELSE {}]

\* takeFixedProfit.
FixedTp(s, look, at) ==
  SellsIf(s, rule.fixedTp # Null /\ Exits(s) /\ Healthy(s)
               /\ Gain(look.price, s.l) >= rule.fixedTp, look.price, at, "fixedTp")

\* takePressureProfit: armed over a gain, disarmed once the trip would eat it.
PressureTp(s, look, at) ==
  LET p     == rule.pressureTp
      gain  == Gain(look.price, s.l)
      armed == /\ s.memory.armed \/ gain > p.arm
               /\ gain > Toll(s.buys, s.l, look.price, rule.sizing)
      step  == StepPressureTp(s.memory.peak, IF look.counts = Null THEN Null ELSE BuyShare(look.counts), p)
      watched == [s EXCEPT !.memory.armed = armed,
                           !.memory.peak = IF ~armed THEN Null ELSE IF ~look.answered THEN @ ELSE step.peak]
  IN IF p = Null \/ ~Exits(s) \/ ~Healthy(s) THEN s
     ELSE IF ~armed \/ ~look.answered THEN watched
     ELSE LET sold == SellsIf(watched, step.sells, look.price, at, "pressureTp") IN
          IF sold.row.open THEN sold ELSE [sold EXCEPT !.memory.armed = FALSE, !.memory.peak = Null]

\* readPools: nobody is asked where no pool brakes.
ReadsPools == rule.drop # Null /\ rule.drop.brake > 0

\* watchLiquidity and watchLow: what the row remembers, whatever sells later.
WatchLiquidity(s, look) ==
  IF ~Exits(s) \/ ~ReadsPools THEN s
  ELSE LET step == NextLiquidityWatch(s.row.pool, look.pool, rule.drop, s.buys[1].time) IN
       [s EXCEPT !.bounced = step.buys, !.braked = step.watch # Null /\ step.watch.braked,
                 !.row.pool = IF step.watch # Null /\ LiquidityMoved(@, step.watch) THEN step.watch ELSE @]

WatchLow(s, look) ==
  IF ~Exits(s) \/ rule.deep = Null THEN s
  ELSE LET low == NextPriceLow(s.row.low, look.price, s.buys[1].time) IN
       [s EXCEPT !.low = low,
                 !.row.low = IF LowWorthWriting(@, low, s.buys[1].price, rule.deep) THEN low ELSE @]

\* As a bug would have it: the floor of the gain the look finds.
FloorOfTheLook(stored, gain) == {f \in {GainLockFloor(gain, rule.lock)} : f # Null}

\* What a holding has earned so far, this look included.
Floors(stored, gain) ==
  {f \in {IF stored = Null THEN Null ELSE stored.pct, GainLockFloor(gain, rule.lock)} : f # Null}

\* lockGains: the floor is this holding's, only rises, and is saved before it
\* sells.
LockGains(s, look, at) ==
  IF rule.lock = Null \/ ~Exits(s) THEN s
  ELSE LET since  == s.buys[1].time
           floors == Floors(OfHolding(s.row.lock, since), Gain(look.price, s.l))
       IN IF floors = {} THEN s
          ELSE SellsIf([s EXCEPT !.row.lock = [pct |-> Max(floors), since |-> since]],
                       GainAtMost(look.price, s.l, Max(floors)), look.price, at, "lock")

\* The break-even: armed for as long as the row lives.
BreakEven(s, look, at) ==
  LET armed == s.row.armed \/ Gain(look.price, s.l) >= s.levels.armAt
  IN IF s.levels.armAt = Null \/ ~Exits(s) THEN s
     ELSE SellsIf([s EXCEPT !.row.armed = armed],
                  armed /\ GainAtMost(look.price, s.l, s.levels.breakEven), look.price, at, "breakEven")

\* The stop.  A break-even that was refused the sale is not asked twice.
StopLoss(s, look, at) ==
  LET refused == /\ s.levels.armAt # Null /\ s.row.armed
                 /\ GainAtMost(look.price, s.l, s.levels.breakEven)
      covers  == TokenNet(s.tape, rule.sizing) > Loss(look.price, s.l)
  IN SellsIf(s, /\ Exits(s) /\ ~refused
                /\ ShouldStopOut(look.price, s.buys, s.l, s.levels.stop, s.row.run)
                /\ s.levels.stop.historyCovers => covers, look.price, at, "stop")

\* actOnPressure: out with a gain when the buyers have gone, one more rung when
\* they come back.
ActOnPressure(s, look, at) ==
  IF rule.pressure = Null \/ ~Exits(s) \/ ~look.answered THEN s
  ELSE LET p    == rule.pressure
           now  == IF look.counts = Null THEN Null ELSE PressureOf(look.counts)
           prev == s.memory.previous
           gone == (s.memory.gone \/ FellThrough(prev, now, p.threshold))
                     /\ ~(now # Null /\ now > p.threshold)
           told == [s EXCEPT !.memory.previous = IF now = Null THEN @ ELSE now,
                             !.memory.gone = IF look.counts = Null THEN @ ELSE gone]
           n    == Len(s.buys)
           sold == SellsIf(told, Gain(look.price, s.l) > Toll(s.buys, s.l, look.price, rule.sizing),
                           look.price, at, "gone")
       IN IF look.counts = Null THEN told
          ELSE IF gone
          THEN IF sold.row.open THEN told
               ELSE [sold EXCEPT !.memory.previous = Null, !.memory.gone = FALSE]
          ELSE IF Healthy(s) /\ n < p.maxEntries /\ CrossedUp(prev, now, p.threshold) /\ look.funded
          THEN Bought(told, p.usd, look.price, at, BarKey(s), "pressure")
          ELSE told

-----------------------------------------------------------------------------
(* The one buy of a look: the dip-bounce, the deep rung, the drop ladder.  *)

\* poolRefuses: the pool has lost what it had when the position opened.
PoolRefuses(look) == look.drained

\* buyOnDipBounce and buyStep, keyed by the look; into no drained pool.  The
\* first step of a row that never traded asks for no dip where the
\* configuration says so (buyFirstStepOnSelection).
DipStep(s, look, at) ==
  LET n       == Len(s.buys)
      selects == rule.dip.onSelection /\ s.read = << >>
      usd     == IF n = 0 /\ rule.dip.fromCapital THEN rule.sizing.capital ELSE rule.dip.schedule[n + 1]
      taken   == Bought(s, usd, look.price, at, <<"look", at>>, "dip")
  IN IF rule.dip = Null \/ ~Healthy(s) \/ ~(selects \/ look.dips) \/ n >= Len(rule.dip.schedule) THEN s
     ELSE IF (PoolRefuses(look) /\ ~selects) \/ ~look.funded THEN [s EXCEPT !.spent = TRUE]
     ELSE [taken EXCEPT !.spent = Len(HoldingBuys(taken.tape)) # n]

\* buyOnDeepRung.
DeepRung(s, look, at) ==
  LET low   == OfHolding(s.low, s.buys[1].time)
      taken == Bought(s, rule.deep.usd, look.price, at, BarKey(s), "deep")
  IN IF s.spent \/ rule.deep = Null \/ ~Healthy(s) \/ s.buys = << >> THEN s
     ELSE IF ~DeepRungFires(s.buys, IF low = Null THEN Null ELSE low.price, look.price, s.l, rule.deep)
     THEN s
     ELSE IF ~look.funded THEN [s EXCEPT !.spent = TRUE]
     ELSE [taken EXCEPT !.spent = taken.tape # s.tape]

\* rememberReading: unless a fill has come in between.
RememberReading(s, scale, at) ==
  IF s.tape = s.read THEN [s EXCEPT !.row.scaleNow = [scale |-> scale, at |-> at]] ELSE s

\* buyOnBounce, which takes the look whether or not there was capital, and
\* buyOnDrop.
DropRung(s, look, at) ==
  LET p     == rule.drop
      n     == Len(s.buys)
      sized == n \in DOMAIN p.rungs
      rung(t, why) == IF sized /\ look.funded THEN Bought(t, p.rungs[n], look.price, at, BarKey(t), why) ELSE t
      bounces == s.bounced /\ look.price * s.l.qty < s.l.basis /\ n < p.maxEntries /\ sized
      scale == Spacing(s.buys, look.price, look.scale, s.row.dcaScale, p)
      told  == IF Measures(s.buys, look.price, look.scale, s.row.dcaScale, p)
               THEN RememberReading(s, look.scale, at) ELSE s
  IN IF s.spent \/ p = Null \/ ~Healthy(s) \/ s.buys = << >> THEN s
     ELSE IF bounces THEN rung(s, "bounce")
     ELSE IF s.braked THEN s
     ELSE IF DropRungFires(s.buys, look.price, scale, p) THEN rung(told, "drop") ELSE told

\* buyRungs, over the fills the sweep read first.  An empty row buys only a step.
BuyRungs(s, look, at) ==
  IF ~s.row.open THEN s ELSE DropRung(DeepRung(DipStep(s, look, at), look, at), look, at)

-----------------------------------------------------------------------------
(* The steps.                                                              *)

NothingRemembered == [marks |-> {}, previous |-> Null, gone |-> FALSE, armed |-> FALSE, peak |-> Null]

Unscathed(since) == [since |-> since, price |-> Null, gain |-> -Whole, low |-> Null, fell |-> FALSE]

\* What this holding has been through, this look included.
SeenNow(look) ==
  LET since == Since(tape)
      was   == IF seen.since = since THEN seen ELSE Unscathed(since)
  IN [was EXCEPT !.price = look.price,
                 !.gain = Max({@, Gain(look.price, Ledger(tape))}),
                 !.low  = IF @ = Null THEN look.price ELSE Min({@, look.price}),
                 !.fell = @ \/ (look.pool # Null /\ rule.drop # Null /\ LiquidityBrakes(look.pool, rule.drop.brake))]

FirstBuy(usd, price) ==
  [side |-> "buy", price |-> price, qty |-> usd \div price, time |-> 0, key |-> <<"bar", -1, 0>>, why |-> "tick", made |-> 0]

SweepInit ==
  /\ rule \in SweepRules
  /\ \E scale \in WithDcaScale(Null) :
       row = [open |-> TRUE, stage |-> "healthy", bar |-> 0, run |-> rule.run, armed |-> FALSE,
              lock |-> Null, low |-> Null, pool |-> Null, dcaScale |-> scale, scaleNow |-> Null]
  /\ tape = IF rule.cascade THEN <<FirstBuy(rule.tickUsd, rule.tickPrice)>> ELSE << >>
  /\ memory = NothingRemembered
  /\ clock = 0 /\ restarts = 0 /\ seen = Unscathed(Null)

\* One position of sweepStops: the exits in their order, then the buy.
Swept(look, at) ==
  LET s     == [row |-> row, tape |-> tape, memory |-> memory, read |-> tape,
                buys |-> HoldingBuys(tape), l |-> Ledger(tape), levels |-> ExitLevels(rule.sizing),
                low |-> Null, bounced |-> FALSE, braked |-> FALSE, spent |-> FALSE]
      early == PressureTp(FixedTp(CrashStop(s, look, at), look, at), look, at)
      kept  == LockGains(WatchLow(WatchLiquidity(early, look), look), look, at)
      late  == StopLoss(BreakEven(kept, look, at), look, at)
  IN  BuyRungs(ActOnPressure(late, look, at), look, at)

\* sweepStops, where the row has no order in flight and the live price agrees
\* with the last bar's: otherwise it is passed over.
Look(look) ==
  /\ row.open /\ clock < MaxSweeps
  /\ clock' = clock + 1
  /\ \E done \in {Swept(look, clock + 1)} :
       row' = done.row /\ tape' = done.tape /\ memory' = done.memory
  /\ seen' = IF Held(tape) THEN SeenNow(look) ELSE seen
  /\ UNCHANGED <<rule, restarts>>

\* The candle tick, as far as the sweep can tell: a bar, which may sell the
\* holding at a gain, or open one where the cascade's doors are left open, and
\* the stage its watch is left at, and the scale it measures.
Tick(price, stage) ==
  /\ row.open /\ row.bar < clock
  /\ \E scale \in WithDcaScale(row.dcaScale) :
       row' = [row EXCEPT !.bar = clock, !.stage = stage, !.dcaScale = scale]
  /\ \/ UNCHANGED tape
     \/ /\ Held(tape) /\ ~RefusesToSell(price, tape, "exit")
        /\ tape' = Sold([row |-> row, tape |-> tape], price, clock, "exit").tape
     \/ /\ ~Held(tape) /\ rule.cascade /\ stage = "healthy" /\ Len(tape) < MaxFills
        /\ tape' = Append(tape, [FirstBuy(rule.tickUsd, price) EXCEPT !.time = StampOf(tape, clock),
                                                                     !.key = <<"bar", clock, 0>>])
  /\ UNCHANGED <<rule, memory, clock, restarts, seen>>

\* The process dies: what it remembered goes, the row and the tape stay.
Restart ==
  /\ restarts < MaxRestarts /\ memory # NothingRemembered
  /\ restarts' = restarts + 1
  /\ memory' = NothingRemembered
  /\ UNCHANGED <<rule, row, tape, clock, seen>>

SweepNext ==
  \/ \E look \in rule.looks : Look(look)
  \/ \E price \in rule.prices, stage \in rule.stages : Tick(price, stage)
  \/ Restart

-----------------------------------------------------------------------------
(* Properties.                                                             *)

NewFills == {tape'[i] : i \in DOMAIN tape' \ DOMAIN tape}

\* What a rule does to a holding, it does for what that holding went through: a
\* locked gain was this holding's, a deep rung and a liquidity bounce answer a
\* fall since its first buy, and no row's memory of a holding sold before, nor a
\* restart, makes one of them act (gain-lock.ts, deep-rung.ts and
\* liquidity-brake.ts, the stamp each keeps of the holding).
SeenInThisHolding ==
  [][\A f \in NewFills :
       /\ f.why = "lock" => seen'.since = Since(tape) /\ seen'.gain >= rule.lock.start
       /\ f.why = "deep" => seen'.since = Since(tape) /\ DeepArmed(HoldingBuys(tape)[1].price, seen'.low, rule.deep)
       /\ f.why = "bounce" => seen'.since = Since(tape) /\ seen'.fell]_sweepVars

\* What was won is not given back: once this holding has been at a gain that
\* earned a floor, a look that finds it at or under the floor leaves it sold,
\* whatever was averaged, restarted or saved since; unless to sell there would
\* lose (stop-sweep.ts, lockGains).
FloorIsKept ==
  [][/\ rule.lock # Null /\ clock' > clock /\ Held(tape)
     /\ GainLockFloor(seen'.gain, rule.lock) # Null
     /\ GainAtMost(seen'.price, Ledger(tape), GainLockFloor(seen'.gain, rule.lock))
     /\ ~RefusesToSell(seen'.price, tape, "lock")
     => ~Held(tape')]_sweepVars

=============================================================================
