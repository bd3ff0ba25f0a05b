------------------------------ MODULE Production ------------------------------
(***************************************************************************)
(* What the settings make of the engine and of its screen.                 *)
(*                                                                         *)
(* An environment gives some settings a value.  The ladder and the doors   *)
(* are read by one module each (application/production-ladder.ts,          *)
(* production-doors.ts), which take what they cannot read for unset; the   *)
(* rest by runtime/config.ts, which refuses to start on it.  main.ts wires *)
(* the result into the sweep's rules and the pass's policies; the screen   *)
(* (dashboard/lib/view.ts) reads the same two modules by itself.           *)
(*                                                                         *)
(* A number is kept in hundredths, whatever it counts: a percentage is in  *)
(* basis points then, and dollars in cents.                                *)
(***************************************************************************)
EXTENDS Sweep

CONSTANT LooksPerMinute   \* how often the sweep looks

Number(n)  == [kind |-> "number", n |-> n]
Numbers(l) == [kind |-> "list", l |-> l]
Word(w)    == [kind |-> "word", word |-> w]

One == 100

-----------------------------------------------------------------------------
(* Readers.                                                                *)

IsSet(env, key) == key \in DOMAIN env
IsNumber(env, key) == IsSet(env, key) /\ env[key].kind = "number"

\* What cannot be read, or is not `right`, is the fallback.
Read(env, key, right, fallback) ==
  IF IsNumber(env, key) /\ env[key].n \in right THEN env[key].n ELSE fallback

Positive    == Nat \ {0}
NonNegative == Nat
Percent     == 0..(Whole - 1)
Share       == 1..(Whole - 1)
Entries     == {n \in Nat : n >= One /\ n % One = 0}
Growing     == {n \in Nat : n >= One}

ListOf(setting) ==
  CASE setting.kind = "list" -> setting.l [] setting.kind = "number" -> <<setting.n>> [] OTHER -> <<0>>

\* drops: deeper and deeper.  sizes: as many as there are lines.
Drops(env, key, fallback) ==
  IF ~IsSet(env, key) THEN fallback
  ELSE LET l == ListOf(env[key]) IN
       IF \A i \in DOMAIN l : l[i] \in Share /\ (i > 1 => l[i] > l[i - 1]) THEN l ELSE fallback

Sizes(env, key, fallback, lines) ==
  IF ~IsSet(env, key) THEN fallback
  ELSE LET l == ListOf(env[key]) IN
       IF Len(l) = lines /\ \A i \in DOMAIN l : l[i] \in Positive THEN l ELSE fallback

\* Flags: on only where it says so, and on unless it says not.
OnlyIf(env, key) == IsSet(env, key) /\ env[key] \in {Number(One), Word("true"), Word("yes")}
OnUnless(env, key) == ~(IsSet(env, key) /\ env[key] \in {Number(0), Word("false"), Word("no")})

-----------------------------------------------------------------------------
(* The ladder.                                                             *)

\* What one buy of a holding is, and how many, where nothing is set.
StepDefaults ==
  [step |-> 300, first |-> 0, increment |-> 100, token |-> 8800, growth |-> One, steps |-> 11 * One,
   bookTokens |-> 70 * One]

\* What the ladders that are off would buy.
RungDefaults ==
  [drops |-> <<1000, 1500, 2000, 2500, 3000>>, rungs |-> <<1500, 2000, 2500, 3000, 3500>>,
   brake |-> 0, deepFall |-> 8000, deepRebound |-> 1000, deepUsd |-> 2000]

ProfitDefaults == [fixedTp |-> 0, minProfit |-> 200]

MostSteps == 1000

\* stepScheduleUsd: buy by buy until the target is spent or the steps are.
StepSchedule(first, base, growth, increment, cap, target) ==
  LET dca(i)     == IF first > 0 THEN Max({0, i - 2}) ELSE i - 1
      grown[k \in Nat] == IF k = 0 THEN base ELSE (grown[k - 1] * growth) \div One
      nominal(i) == IF i = 1 /\ first > 0 THEN first ELSE grown[dca(i)] + increment * dca(i)
      total[i \in Nat] == IF i = 0 THEN 0 ELSE total[i - 1] + nominal(i)
      size(i)    == IF target > 0 THEN Min({nominal(i), target - total[i - 1]}) ELSE nominal(i)
      steps      == IF target > 0 /\ \E i \in 1..cap : total[i] >= target
                    THEN CHOOSE i \in 1..cap : total[i] >= target /\ total[i - 1] < target ELSE cap
  IN [i \in 1..steps |-> size(i)]

\* The size of a step said outright, or the capital over the tokens it is for.
StepNamed(env) == IsSet(env, "STEP_USD") \/ IsSet(env, "BOOK_TOKENS")
StepUsd(env) ==
  LET tokens == Read(env, "BOOK_TOKENS", Positive, StepDefaults.bookTokens)
      shared == (One * Read(env, "CAPITAL_USD", Positive, 1000 * One)) \div tokens
  IN Read(env, "STEP_USD", Positive, IF IsSet(env, "BOOK_TOKENS") THEN shared ELSE StepDefaults.step)

\* Where the step is named, neither the increment nor the target is assumed.
Unnamed(env, default) == IF StepNamed(env) THEN 0 ELSE default

Schedule(env) ==
  LET target == Read(env, "TOKEN_USD", NonNegative, Unnamed(env, StepDefaults.token))
      cap == IF IsSet(env, "MAX_STEPS") THEN Read(env, "MAX_STEPS", Entries, StepDefaults.steps) \div One
             ELSE IF target > 0 THEN MostSteps ELSE StepDefaults.steps \div One
  IN StepSchedule(Read(env, "FIRST_STEP_USD", NonNegative, Unnamed(env, StepDefaults.first)), StepUsd(env),
                  Read(env, "STEP_GROWTH", Growing, StepDefaults.growth),
                  Read(env, "STEP_INCREMENT_USD", NonNegative, Unnamed(env, StepDefaults.increment)),
                  cap, target)

\* productionLadder.  The entries the venue holds are kept in hundredths too: a
\* setting may be a fraction.
ProductionLadder(env) ==
  LET schedule == Schedule(env)
      steps    == One * Len(schedule)
      open     == IF IsSet(env, "MAX_DCA") THEN Read(env, "MAX_DCA", NonNegative, steps - One) + One ELSE steps
      drops    == Drops(env, "DCA_DROPS_PCT", RungDefaults.drops)
  IN [schedule |-> schedule, step |-> StepUsd(env),
      slot |-> FoldSeq(LAMBDA a, b : a + b, 0, schedule),
      maxPerLevel |-> Read(env, "MAX_USD_PER_LEVEL", Positive, Max({schedule[i] : i \in DOMAIN schedule})),
      maxOpen |-> open,
      reserved |-> Min({Read(env, "RESERVED_ENTRIES", Entries, open), open}),
      minProfit |-> Read(env, "MIN_PROFIT_PCT", Positive, ProfitDefaults.minProfit),
      fixedTp |-> Read(env, "FIXED_TP_PCT", NonNegative, ProfitDefaults.fixedTp),
      dropLadder |-> OnlyIf(env, "DROP_LADDER"),
      drops |-> drops,
      rungs |-> Sizes(env, "DCA_RUNGS_USD", RungDefaults.rungs, Len(drops)),
      fromPrevious |-> ~(IsSet(env, "DCA_FROM") /\ env["DCA_FROM"] = Word("first")),
      adaptive |-> OnlyIf(env, "DCA_ADAPTIVE"), realtime |-> OnlyIf(env, "DCA_REALTIME"),
      brake |-> Read(env, "LIQUIDITY_BRAKE_PCT", Percent, RungDefaults.brake),
      deepRung |-> OnlyIf(env, "DEEP_RUNG"),
      deepFall |-> Read(env, "DEEP_RUNG_FALL_PCT", Percent, RungDefaults.deepFall),
      deepRebound |-> Read(env, "DEEP_RUNG_REBOUND_PCT", NonNegative, RungDefaults.deepRebound),
      deepUsd |-> Read(env, "DEEP_RUNG_USD", Positive, RungDefaults.deepUsd),
      cascade |-> OnlyIf(env, "CASCADE_ENTRIES")]

-----------------------------------------------------------------------------
(* The doors.                                                              *)

NoLess(level)   == [level |-> level, strict |-> FALSE]
MoreThan(level) == [level |-> level, strict |-> TRUE]

EntryFloors == [activity |-> NoLess(Unit \div 2), liquidityGrowth |-> NoLess(Unit)]
DefaultEdge == 1000

\* productionDoors.  A component is in thousandths.
ProductionDoors(env) ==
  LET cost   == "MIN_COST_EFFICIENCY_PCT"
      door   == IF IsNumber(env, cost) /\ env[cost].n \in Percent
                THEN [costEfficiency |-> MoreThan(env[cost].n \div 10)] ELSE << >>
      rising == IF OnUnless(env, "ENTRY_RISING") THEN [risingHour |-> NoLess(Unit)] ELSE << >>
      ranks  == [volatility |-> "volatility", size |-> "size", cost |-> "costEfficiency"]
      named  == IF IsSet(env, "RANK_BY") /\ env["RANK_BY"].kind = "word" THEN env["RANK_BY"].word ELSE "size"
  IN [floors |-> (IF OnUnless(env, "ENTRY_FLOORS") THEN EntryFloors ELSE << >>) @@ door @@ rising,
      doors |-> << >>,
      minScore |-> Read(env, "MIN_SCORE", NonNegative, 0),
      reserve |-> IsSet(env, "RESERVE") /\ env["RESERVE"] = Number(One),
      order |-> IF named \in DOMAIN ranks THEN ranks[named] ELSE "size",
      edge |-> Read(env, "MIN_COST_EDGE_PCT", Percent, DefaultEdge),
      minVolatility |-> Read(env, "MIN_VOLATILITY_PCT", NonNegative, 0)]

-----------------------------------------------------------------------------
(* The configuration.                                                      *)

\* What `number` and `numberOrZero` read: to be set and not that is an error.
PositiveSettings ==
  {"CAPITAL_USD", "GAS_USD", "MAX_USD_PER_LEVEL", "IDLE_HOURS", "MAX_DCA", "REWARD_RISK", "MAX_STOP_PCT",
   "MIN_SCORE_EDGE", "SCAN_MS", "USD_PER_TOKEN", "CYCLE_MS", "HELD_SCAN_MS", "HEALTH_MS",
   "ABANDON_FREEZE_HOURS", "STALE_CHECK_HOURS", "MAX_SECURITY_CHECKS", "REGISTRY_TOKENS"}
NonNegativeSettings ==
  {"MAX_POSITIONS", "MAX_COST_SHARE_PCT", "MAX_SWAP_LOSS_PCT", "STOP_SHARE_OF_RUN", "STOP_MIN_PCT",
   "STOP_MAX_PCT", "STOP_MAX_LOSS_USD", "STOP_AFTER_BUYS", "SCORE_STOP_POINTS", "CRASH_STOP_PCT",
   "CRASH_STOP_SECONDS", "MAX_DAY_RISE_PCT", "MAX_AGE_DAYS", "MAX_PUMP_PCT", "MAX_HOUR_FALL_PCT",
   "PRESSURE_TP_ARM_PCT", "PRESSURE_TP_DROP_PCT", "MAX_CYCLES"}

\* loadConfig starts the process, or says which setting it cannot take.  Live
\* trading is refused whatever the rest says.
Accepted(env) ==
  /\ IsSet(env, "MODE") => env["MODE"] = Word("paper")
  /\ IsSet(env, "CHAIN") => env["CHAIN"] \in {Word("solana"), Word("bsc"), Word("solana,bsc")}
  /\ IsSet(env, "TIMEFRAME") => env["TIMEFRAME"] \in {Word("1h"), Word("15m")}
  /\ \A key \in PositiveSettings : IsSet(env, key) => IsNumber(env, key) /\ env[key].n \in Positive
  /\ \A key \in NonNegativeSettings : IsSet(env, key) => IsNumber(env, key) /\ env[key].n \in NonNegative

HourMs == 3600000 * One

\* Where a limit of zero is no limit.
OrNone(n) == IF n = 0 THEN Huge ELSE n

\* The floor the break-even sells at is never over the gain that arms it.
BreakEvenLines(env) ==
  LET arm   == Read(env, "BREAK_EVEN_ARM_PCT", Share, 750)
      asked == Read(env, "BREAK_EVEN_FLOOR_PCT", Percent, Huge)
  IN [arm |-> arm, floor |-> IF asked <= arm THEN asked ELSE Min({750, arm})]

GainLockPolicy == [start |-> 2000, step |-> 2000, firstFloor |-> 1000, floorStep |-> 1000]

StopOf(env) ==
  LET pct(key) == Read(env, key, NonNegative, 0) IN
  [share |-> pct("STOP_SHARE_OF_RUN"), min |-> pct("STOP_MIN_PCT"), max |-> pct("STOP_MAX_PCT"),
   maxLoss |-> pct("STOP_MAX_LOSS_USD"), historyCovers |-> OnlyIf(env, "STOP_NEEDS_HISTORY"),
   minBuys |-> Read(env, "STOP_AFTER_BUYS", NonNegative, One) \div One]

\* Who may be let go, what else sells, and what is let in.
Switches(env) ==
  LET plain(key, default) == Read(env, key, NonNegative, default) IN
  [minEdge |-> plain("MIN_SCORE_EDGE", 10 * One), scoreStop |-> plain("SCORE_STOP_POINTS", 0),
   rotate |-> OnlyIf(env, "ROTATE_ON_FILTER"), swapHolders |-> OnlyIf(env, "SWAP_HOLDERS"),
   pressure |-> OnlyIf(env, "PRESSURE"),
   crash |-> [drop |-> plain("CRASH_STOP_PCT", 0), seconds |-> plain("CRASH_STOP_SECONDS", 60 * One) \div One],
   pressureTp |-> [arm |-> plain("PRESSURE_TP_ARM_PCT", 20 * One), drop |-> plain("PRESSURE_TP_DROP_PCT", 10 * One)],
   tiers |-> OnlyIf(env, "TIERS"),
   minTier |-> IF IsSet(env, "MIN_TIER") /\ env["MIN_TIER"] \in {Word(t) : t \in DOMAIN TierUsd}
               THEN env["MIN_TIER"].word ELSE "good",
   maxAge |-> OrNone(24 * (plain("MAX_AGE_DAYS", 30 * One) \div One)),
   maxDayRise |-> OrNone(plain("MAX_DAY_RISE_PCT", 100 * One) \div One),
   maxPump |-> OrNone(plain("MAX_PUMP_PCT", 0) \div One),
   maxHourFall |-> OrNone(plain("MAX_HOUR_FALL_PCT", 0) \div One)]

\* loadConfig, of what the modelled rules read.
LoadConfig(env) ==
  LET ladder == ProductionLadder(env)
      plain(key, default) == Read(env, key, NonNegative, default)
      dca == plain("MAX_DCA", ladder.maxOpen - One)
  IN [ladder |-> [ladder EXCEPT !.maxPerLevel = plain("MAX_USD_PER_LEVEL", @),
                                !.maxOpen = dca + One, !.reserved = Min({@, dca + One})],
      doors |-> ProductionDoors(env),
      capital |-> plain("CAPITAL_USD", 1000 * One), gas |-> plain("GAS_USD", 5),
      maxPositions |-> plain("MAX_POSITIONS", 0) \div One,
      idleHours |-> plain("IDLE_HOURS", 3 * One) \div One, scanHours |-> plain("SCAN_MS", 2 * HourMs) \div HourMs,
      requireRising |-> IsSet(env, "REQUIRE_RISING") /\ env["REQUIRE_RISING"] = Number(One),
      onSelection |-> OnUnless(env, "BUY_ON_SELECTION"),
      costShare |-> plain("MAX_COST_SHARE_PCT", 33 * One), rewardRisk |-> plain("REWARD_RISK", 4 * One),
      breakEven |-> OnlyIf(env, "BREAK_EVEN"), lines |-> BreakEvenLines(env),
      gainLock |-> IF OnlyIf(env, "GAIN_LOCK") THEN GainLockPolicy ELSE Null,
      maxStop |-> plain("MAX_STOP_PCT", 10 * One), maxSwapLoss |-> plain("MAX_SWAP_LOSS_PCT", 0),
      stop |-> StopOf(env)]
     @@ Switches(env)

-----------------------------------------------------------------------------
(* The wiring.                                                             *)

\* A venue that holds three and a half holds a fourth.
Holds(entries) == (entries + One - 1) \div One

PressureThreshold == 10
RecoverPct == 500
SmallestFill == 500        \* gasFloorUsd
LargestBase  == 1000 * One
TradingParams(c) == [base |-> LargestBase, increment |-> 12000, maxPerLevel |-> c.ladder.maxPerLevel, maxLevels |-> 50]

\* exitSizingFrom.
ExitSizing(c) ==
  [gas |-> c.gas, costShare |-> c.costShare, floor |-> c.ladder.minProfit, rewardRisk |-> c.rewardRisk,
   maxStop |-> c.maxStop, breakEven |-> c.breakEven, armPct |-> c.lines.arm,
   breakEvenFloor |-> c.lines.floor, stop |-> c.stop]

\* buildRuntime: a ladder or an exit is wired only where it is switched on; the
\* dip-bounce always is.
SweepRuleOf(c) ==
  LET l == c.ladder IN
  [crash |-> IF c.crash.drop > 0
             THEN [drop |-> c.crash.drop, window |-> (c.crash.seconds * LooksPerMinute) \div 60] ELSE Null,
   fixedTp |-> IF l.fixedTp > 0 THEN l.fixedTp ELSE Null,
   pressureTp |-> IF c.pressureTp.drop > 0 THEN c.pressureTp ELSE Null,
   lock |-> c.gainLock,
   deep |-> IF l.deepRung THEN [fall |-> l.deepFall, rebound |-> l.deepRebound, maxEntries |-> Holds(l.maxOpen),
                                usd |-> l.deepUsd] ELSE Null,
   drop |-> IF l.dropLadder
            THEN [drops |-> l.drops, rungs |-> l.rungs, fromPrevious |-> l.fromPrevious, maxEntries |-> Holds(l.maxOpen),
                  adaptive |-> l.adaptive, realtime |-> l.realtime, brake |-> l.brake, recover |-> RecoverPct] ELSE Null,
   pressure |-> IF c.pressure
                THEN [threshold |-> PressureThreshold, maxEntries |-> Holds(l.maxOpen), usd |-> l.maxPerLevel] ELSE Null,
   dip |-> [schedule |-> l.schedule, onSelection |-> c.onSelection, fromCapital |-> c.tiers],
   cascade |-> l.cascade, tickUsd |-> Min({LargestBase, l.maxPerLevel}), holds |-> Holds(l.maxOpen),
   sizing |-> ExitSizing(c)]

GatesOf(c) ==
  [DefaultGatePolicy EXCEPT !.maxPump = c.maxPump, !.maxHourFall = c.maxHourFall, !.maxDayRise = c.maxDayRise,
                            !.maxAge = c.maxAge, !.minVolatility = c.doors.minVolatility \div One]

\* A slot is the whole ladder, and neither more nor less is dealt for one.  The
\* allocator knows no order by size.
PassPolicyOf(c) ==
  GatesOf(c) @@
  [order |-> c.doors.order, smallCap |-> 50000, forgives |-> c.doors.reserve, requireRising |-> c.requireRising,
   floors |-> c.doors.floors, doors |-> c.doors.doors, minScore |-> c.doors.minScore \div 10,
   spread |-> 30, reference |-> 10000, gas |-> c.gas,
   rotate |-> c.rotate, swapHolders |-> c.swapHolders, maxSwapLoss |-> c.maxSwapLoss,
   byEfficiency |-> c.doors.order = "costEfficiency",
   minEdge |-> (IF c.doors.order = "costEfficiency" THEN c.doors.edge ELSE c.minEdge) \div 10,
   idleAfter |-> c.idleHours, scoreStop |-> c.scoreStop \div 10,
   slot |-> c.ladder.slot, target |-> c.ladder.slot, minPosition |-> c.ladder.slot,
   bySize |-> c.tiers, minTier |-> c.minTier, capital |-> c.capital, maxPosition |-> 3000, reserve |-> 0,
   maxPositions |-> c.maxPositions,
   ladder |-> TradingParams(c), maxShelfAge |-> 2 * c.scanHours,
   sizing |-> [maxFillCost |-> 100, maxExitCost |-> 300, minFill |-> Min({SmallestFill, c.ladder.step}),
               maxEntries |-> Holds(c.ladder.maxOpen)]]

=============================================================================
