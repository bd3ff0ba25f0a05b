------------------------------ MODULE MCRules ------------------------------
(* The scan, the questions put to the rules, the sweep of one position and *)
(* the memories of the feeds: a behaviour is one of them, and what it does *)
(* not run stays as it was.                                                *)
EXTENDS Scan, Rules, Screen, Feeds, TLC

CONSTANTS null, absent

-----------------------------------------------------------------------------
(* Scan: one token held, of any rank, and three that are not.               *)

Seen(cheap, door, cached, paid, bars) ==
  [cheap |-> cheap, door |-> door, moves |-> TRUE, cached |-> cached, paid |-> paid, bars |-> bars]

MCMarketLooks ==
  {Seen("passed", TRUE, FALSE, "passed", TRUE), Seen("passed", TRUE, FALSE, "passed", FALSE),
   Seen("passed", TRUE, TRUE, "passed", TRUE), Seen("passed", TRUE, FALSE, "refused", TRUE),
   Seen("passed", FALSE, FALSE, "passed", TRUE), Seen("refused", TRUE, FALSE, "refused", TRUE),
   Seen("forgiven", TRUE, FALSE, "forgiven", TRUE)}

-----------------------------------------------------------------------------
(* Tokens at the door: a good one with up to two things about it changed.   *)

Safe == [honeypot |-> FALSE, mintAuthority |-> FALSE, freezeAuthority |-> FALSE, blacklist |-> FALSE,
         proxy |-> FALSE, transferTax |-> 0, lpLocked |-> 100, topHolders |-> 20, creator |-> 1]

Good == [denied |-> FALSE, impostor |-> FALSE, fdv |-> 1000, liquidity |-> 400, age |-> 600,
         lastTrade |-> 0, candlePrice |-> 10, price |-> 10, volume |-> 800, h1 |-> 5, h6 |-> 5,
         h24 |-> 5, m5 |-> 2, ungraduated |-> FALSE, organic |-> 80, buys |-> 8, sells |-> 3,
         concentrated |-> FALSE, chain |-> "bsc", impact |-> 1, bars |-> 100, volatility |-> 1,
         checked |-> TRUE, security |-> Safe, hourVolume |-> 60, liquidityChange |-> 1,
         activity |-> 500, address |-> 1]

\* Over and under the limits of both policies, and unread.
Changes ==
  {<<"denied", TRUE>>, <<"age", 900>>, <<"impostor", TRUE>>, <<"fdv", 600000>>, <<"liquidity", 0>>, <<"liquidity", 10>>,
   <<"age", 2>>, <<"age", null>>, <<"lastTrade", 2>>, <<"lastTrade", null>>, <<"candlePrice", 100>>,
   <<"volume", 5>>, <<"volume", 300>>, <<"h1", -60>>, <<"h1", -1>>, <<"h24", -40>>, <<"h24", 120>>,
   <<"ungraduated", TRUE>>, <<"organic", 10>>, <<"buys", 0>>, <<"concentrated", TRUE>>,
   <<"chain", "solana">>, <<"impact", 20>>, <<"impact", null>>, <<"bars", 10>>,
   <<"volatility", null>>, <<"volatility", 0>>}

Facts ==
  {<<"honeypot", TRUE>>, <<"honeypot", null>>, <<"mintAuthority", TRUE>>, <<"freezeAuthority", TRUE>>,
   <<"blacklist", TRUE>>, <<"proxy", TRUE>>, <<"transferTax", 9>>, <<"lpLocked", 0>>,
   <<"lpLocked", null>>, <<"topHolders", 90>>, <<"topHolders", null>>, <<"creator", 60>>}

With(r, c) == [r EXCEPT ![c[1]] = c[2]]
Tellings == {<<Safe, Safe>>} \cup {<<With(Safe, f), Safe>> : f \in Facts}
              \cup {<<Safe, With(Safe, f)>> : f \in Facts}

\* Both policies, and the one the settings make.
Doors == [MIN_VOLATILITY_PCT |-> Number(100), MAX_PUMP_PCT |-> Number(10000), MAX_HOUR_FALL_PCT |-> Number(2000)]
Policies ==
  {DefaultGatePolicy, StrictGatePolicy, [StrictGatePolicy EXCEPT !.minVolatility = 1], GatesOf(LoadConfig(Doors))}

Twice == {With(With(Good, c), d) : c \in Changes, d \in Changes}
MCGateQuestions ==
  [s : Twice, p : Policies, reports : {<<Safe, Safe>>}, age : {0}]
  \cup [s : {Good} \cup {With(Good, c) : c \in Changes}, p : Policies, reports : Tellings,
        age : {0, 4, null}]

-----------------------------------------------------------------------------
(* Passes: three tokens, two of them perhaps held, under four policies.     *)

\* Settings, of passes that start.
Cents(n)  == Number(n)
Cost ==
  [RANK_BY |-> Word("cost"), ENTRY_FLOORS |-> Word("no"), ROTATE_ON_FILTER |-> Word("yes"),
   SWAP_HOLDERS |-> Word("true"), MAX_SWAP_LOSS_PCT |-> Number(120), SCORE_STOP_POINTS |-> Number(1500),
   CAPITAL_USD |-> Cents(7500), MAX_POSITIONS |-> Number(300), STEP_USD |-> Cents(2000), MAX_STEPS |-> Number(100)]
Tiers ==
  [RANK_BY |-> Word("volatility"), TIERS |-> Word("true"), MIN_TIER |-> Word("dangerous"),
   CAPITAL_USD |-> Cents(15000)] @@ Cost
Size ==
  [RANK_BY |-> Word("size"), MAX_POSITIONS |-> Number(0), STEP_USD |-> Cents(900),
   ENTRY_FLOORS |-> Word("yes")] @@ Cost

Situation(full, fund) == [full |-> full, fund |-> fund, now |-> 10, total |-> 0, basis |-> 0]
Policy(env, situation) == PassPolicyOf(LoadConfig(env)) @@ situation

PassPolicies ==
  {Policy(Cost, Situation(TRUE, 0)), Policy(Cost, Situation(FALSE, -2000)), Policy(Tiers, Situation(TRUE, 0)),
   Policy(Size, Situation(TRUE, 0))}

\* A candidate, one with a dear pool, one whose hour fell, one the gates refuse.
Kinds == {"good", "dear", "falling", "refused"}
TokenOfKind(a, kind) ==
  LET s == [Good EXCEPT !.address = a, !.volatility = a, !.fdv = 20000 * a,
                        !.liquidity = IF a = 3 THEN 1200 ELSE 400] IN
  CASE kind = "falling" -> [s EXCEPT !.h1 = -1] [] kind = "refused" -> [s EXCEPT !.h24 = -40] [] OTHER -> s
Pool(kind) == [spread |-> 30, slippage |-> IF kind = "dear" THEN 120 ELSE 20, reference |-> 10000,
               liquidity |-> 40000000]
Market(kind) == IF kind = "falling" THEN null ELSE TokenOfKind(1, "good")

\* A gain that pays its trip, a small loss, a score that fell, a slot that sold
\* all, one that bought nothing, and one frozen before it did.
Row(a) ==
  [id |-> a, token |-> a, price |-> 150, lastPrice |-> 140, avgCost |-> 100, qty |-> 10, paid |-> 10,
   deployed |-> 1000, quality |-> Pool("good"), hasFills |-> TRUE, stage |-> "healthy", openedAt |-> 9,
   entryScore |-> null, capital |-> 2500]
RowsFor(a) ==
  {Row(a), [Row(a) EXCEPT !.price = 99], [Row(a) EXCEPT !.entryScore = 1000],
   [Row(a) EXCEPT !.qty = 0, !.avgCost = null, !.deployed = 0],
   [Row(a) EXCEPT !.qty = 0, !.avgCost = null, !.deployed = 0, !.hasFills = FALSE, !.openedAt = 0],
   [Row(a) EXCEPT !.qty = 0, !.avgCost = null, !.deployed = 0, !.hasFills = FALSE, !.stage = "frozen"]}
Books == {{}} \cup {{r} : r \in RowsFor(1)} \cup {{r, t} : r \in RowsFor(1), t \in RowsFor(2)}

MCPassQuestions ==
  {[universe |-> {TokenOfKind(a, kinds[a]) : a \in DOMAIN kinds}, book |-> book, p |-> p,
    quality |-> [a \in DOMAIN kinds |-> Pool(kinds[a])],
    live |-> [a \in DOMAIN kinds |-> Market(kinds[a])], measured |-> [a \in DOMAIN kinds |-> null],
    age |-> 1] : kinds \in [1..3 -> Kinds], book \in Books, p \in PassPolicies}

-----------------------------------------------------------------------------
(* Sweeps: a holding bought at 100, and four looks at it.                   *)

Glance(price) ==
  [price |-> price, counts |-> Null, answered |-> TRUE, pool |-> Null, scale |-> Null, funded |-> TRUE,
   dips |-> FALSE, drained |-> FALSE]

\* What is set besides what each asks about: buys of $60, three at most.
Plain ==
  [MAX_USD_PER_LEVEL |-> Cents(6000), STEP_USD |-> Cents(6000), MAX_STEPS |-> Number(300),
   PRESSURE_TP_DROP_PCT |-> Number(0)]
Cascade == [CASCADE_ENTRIES |-> Word("true")]

\* An environment and the market it meets, and the rules it makes.
Setting(env, prices, stages, looks) == [env |-> env, prices |-> prices, stages |-> stages, looks |-> looks]
RuleOf(setting) ==
  LET rules == SweepRuleOf(LoadConfig(setting.env)) IN
  [rules EXCEPT !.sizing = @ @@ [capital |-> 12000, quality |-> Pool("good"), exitCost |-> 50]]
  @@ [scales |-> IF rules.drop = Null THEN {} ELSE {150}, tickPrice |-> 100, prices |-> setting.prices, stages |-> setting.stages, looks |-> setting.looks,
      run |-> Null, screen |-> ScreenOf(setting.env)]

\* The floor of a gain, and one deep fall.
Floored ==
  Setting([GAIN_LOCK |-> Word("true"), DEEP_RUNG |-> Word("true"), DEEP_RUNG_USD |-> Cents(6000),
          MAX_DCA |-> Number(100)] @@ Plain @@ Cascade,
         {100, 60}, {"healthy", "frozen"},
         {Glance(p) : p \in {10, 15, 60, 100, 108, 120, 150}} \cup {[Glance(15) EXCEPT !.funded = FALSE]})

\* A fall of the price and of the pool.
Reading(usd, h1) == [usd |-> usd, m5 |-> Null, h1 |-> h1]
Dropped ==
  Setting([GAIN_LOCK |-> Word("true"), DROP_LADDER |-> Word("true"), DCA_DROPS_PCT |-> Numbers(<<1000, 2000>>),
          DCA_RUNGS_USD |-> Numbers(<<6000, 5000>>), DCA_FROM |-> Word("first"), DCA_ADAPTIVE |-> Word("true"),
          DCA_REALTIME |-> Word("true"), LIQUIDITY_BRAKE_PCT |-> Number(500), MAX_DCA |-> Number(200),
          BREAK_EVEN |-> Word("true"), REWARD_RISK |-> Number(300), MAX_STOP_PCT |-> Number(4000),
          STOP_MIN_PCT |-> Number(100), STOP_MAX_PCT |-> Number(5000), MIN_PROFIT_PCT |-> Number(300),
          MAX_COST_SHARE_PCT |-> Number(1000)] @@ Plain @@ Cascade,
         {100}, {"healthy"},
         {Glance(p) : p \in {55, 90, 101, 112, 120}}
           \cup {[Glance(p) EXCEPT !.pool = r, !.scale = 200] :
                   p \in {80, 90}, r \in {Reading(100, Null), Reading(80, -2000), Reading(90, Null)}})

\* The buyers come and go.
Pressed ==
  Setting([PRESSURE |-> Word("true"), CRASH_STOP_PCT |-> Number(1500), CRASH_STOP_SECONDS |-> Number(6000),
          FIXED_TP_PCT |-> Number(4000), PRESSURE_TP_ARM_PCT |-> Number(1200), PRESSURE_TP_DROP_PCT |-> Number(1000),
          STOP_MAX_LOSS_USD |-> Cents(2000), STOP_AFTER_BUYS |-> Number(200), STOP_NEEDS_HISTORY |-> Word("true"),
          MAX_DCA |-> Number(200)] @@ Plain @@ Cascade,
         {100}, {"healthy"},
         {[Glance(p) EXCEPT !.counts = c] :
            p \in {80, 105, 115, 150}, c \in {Null, [buys |-> 3, sells |-> 1], [buys |-> 2, sells |-> 2]}}
           \cup {[Glance(105) EXCEPT !.answered = FALSE]})

\* The dip-bounce, with nothing held yet.
Stepped ==
  Setting([GAIN_LOCK |-> Word("true"), MAX_STEPS |-> Number(400), MAX_DCA |-> Number(200)] @@ Plain, {120}, {"healthy"},
         {[Glance(p) EXCEPT !.dips = d, !.drained = e, !.funded = f] :
            p \in {80, 100, 108, 125}, d \in BOOLEAN, e \in BOOLEAN, f \in BOOLEAN})

\* Nothing set.
Shipped ==
  Setting(<< >>, {120}, {"healthy"}, {[Glance(p) EXCEPT !.dips = TRUE, !.counts = [buys |-> b, sells |-> 1]] :
                                       p \in {80, 100, 125}, b \in {1, 3}})

\* The ladder takes this one, and the configuration does not: nothing starts.
Unstarted == Setting([MAX_DCA |-> Number(0)], {100}, {"healthy"}, {Glance(100)})

MCSweepRules == {RuleOf(s) : s \in {x \in {Floored, Dropped, Pressed, Stepped, Shipped, Unstarted} : Accepted(x.env)}}

-----------------------------------------------------------------------------
(* Feeds: who shares a memory asks in one behaviour.                        *)

MCCallers == {{"pools", "prices"}, {"hour"}, {"quote"}}

-----------------------------------------------------------------------------
VARIABLE part

rulesVars == <<ask, scanVars, sweepVars, feedsVars, part>>

Parts == {"scan", "rules", "sweep", "feeds"}

MCRulesInit ==
  /\ part \in Parts
  /\ ScanInit /\ RulesInit /\ SweepInit /\ FeedsInit
  /\ part # "sweep" => rule = RuleOf(Floored)
  /\ part # "feeds" => callers = {"hour"}
ScanStep  == part = "scan" /\ ScanNext /\ UNCHANGED <<ask, sweepVars, feedsVars, part>>
RulesStep == part = "rules" /\ RulesNext /\ UNCHANGED <<scanVars, sweepVars, feedsVars, part>>
SweepStep == part = "sweep" /\ SweepNext /\ UNCHANGED <<ask, scanVars, feedsVars, part>>
FeedsStep == part = "feeds" /\ FeedsNext /\ UNCHANGED <<ask, scanVars, sweepVars, part>>
MCRulesNext == ScanStep \/ RulesStep \/ SweepStep \/ FeedsStep
MCRulesSpec == MCRulesInit /\ [][MCRulesNext]_rulesVars

=============================================================================
