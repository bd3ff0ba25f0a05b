------------------------------- MODULE Gates -------------------------------
(***************************************************************************)
(* The scanner's gates (domain/scanner/gates.ts) and the readers of their  *)
(* verdict: the free gates before the paid ones, the reserve's forgiveness,*)
(* the last look before a buy (application/confirm-entry.ts), the merged   *)
(* security report (security-merge.ts) and what the scan says of a token   *)
(* that is held (application/health-from-scan.ts).                         *)
(*                                                                         *)
(* A snapshot is a record; Null stands for what nobody could read, Absent  *)
(* for what was never asked.  A failure is <<gate, reason>>.               *)
(***************************************************************************)
EXTENDS Integers, FiniteSets, Sequences

CONSTANTS Null, Absent

Known(x)     == x \notin {Null, Absent}
Over(x, n)   == Known(x) /\ x > n
Under(x, n)  == Known(x) /\ x < n

Failed(gate, when)  == IF when THEN {<<gate, "failed">>} ELSE {}
Unread(gate, when)  == IF when THEN {<<gate, "unknown">>} ELSE {}

-----------------------------------------------------------------------------
(* Security, from several sources.                                         *)

Dangers == {"honeypot", "mintAuthority", "freezeAuthority", "blacklist", "proxy"}
Shares  == {"transferTax", "lpLocked", "topHolders", "creator"}

\* What a source says: yes or no, a share in percent, or nothing.
Maybe(values) == values \cup {Null}
SecurityReports ==
  [honeypot : Maybe(BOOLEAN), mintAuthority : Maybe(BOOLEAN), freezeAuthority : Maybe(BOOLEAN),
   blacklist : Maybe(BOOLEAN), proxy : Maybe(BOOLEAN), transferTax : Maybe(Int), lpLocked : Maybe(Int),
   topHolders : Maybe(Int), creator : Maybe(Int)]

UnknownSecurity == [fact \in Dangers \cup Shares |-> Null]

\* dangerWins: one source that saw the danger is enough.
DangerWins(reports, fact) ==
  IF \E i \in DOMAIN reports : reports[i][fact] = TRUE THEN TRUE
  ELSE IF \E i \in DOMAIN reports : reports[i][fact] = FALSE THEN FALSE ELSE Null

\* firstKnown: the sources are ordered by trust.
FirstKnown(reports, fact) ==
  LET known == {i \in DOMAIN reports : reports[i][fact] # Null} IN
  IF known = {} THEN Null
  ELSE reports[CHOOSE i \in known : \A j \in known : i <= j][fact]

MergeSecurity(reports) ==
  [fact \in Dangers \cup Shares |->
     IF fact \in Dangers THEN DangerWins(reports, fact) ELSE FirstKnown(reports, fact)]

\* A token as the scan has it.
Asking(values) == values \cup {Null, Absent}
SnapshotsWith(reports) ==
  [chain : {"solana", "bsc"}, address : Int, denied : BOOLEAN, impostor : BOOLEAN, fdv : Maybe(Int),
   liquidity : Nat, age : Maybe(Int), lastTrade : Asking(Int), candlePrice : Asking(Int), price : Nat,
   volume : Nat, hourVolume : Nat, m5 : Maybe(Int), h1 : Maybe(Int), h6 : Maybe(Int), h24 : Maybe(Int),
   ungraduated : BOOLEAN, organic : Maybe(Int), buys : Nat, sells : Nat, concentrated : BOOLEAN,
   impact : Asking(Int), bars : Asking(Int), volatility : Asking(Int), checked : BOOLEAN,
   liquidityChange : Asking(Int), activity : Int, security : reports]
Snapshots == SnapshotsWith(SecurityReports)

-----------------------------------------------------------------------------
(* The market half.                                                        *)

\* Too young, too old, or nobody knows.
AgeFailures(s, p) ==
  Unread("age", p.minAge > 0 /\ s.age = Null)
  \cup Failed("age", Under(s.age, p.minAge) \/ Over(s.age, p.maxAge))

\* The bars: never asked says nothing, asked and empty is unread.
StaleBarFailures(s, p) ==
  Unread("staleBars", s.lastTrade = Null) \cup Failed("staleBars", Over(s.lastTrade, p.maxBarAge))

\* The market and the candles name prices too far apart.
PriceMismatch(s, p) ==
  /\ Over(s.candlePrice, 0) /\ s.price > 0
  /\ s.candlePrice > p.maxPriceRatio * s.price \/ s.price > p.maxPriceRatio * s.candlePrice

\* The hour and the six hours share a limit, the day has its own.
Freefall(s, p) ==
  \/ Under(s.h1, -p.maxFall) \/ Under(s.h6, -p.maxFall)
  \/ Under(s.h24, -p.maxDailyFall)

\* Ran too far in the day, falls too far in the hour, or ran and turns.
PumpDump(s, p) ==
  \/ Known(s.h24) /\ s.h24 >= p.maxDayRise
  \/ Under(s.h1, -p.maxHourFall)
  \/ Under(s.h1, 0) /\ Over(s.h24, p.maxPump)

\* Still on its launch curve, or traded by bots: on evidence only.
LaunchQuality(s, p) ==
  Failed("curve", p.refuseCurve /\ s.ungraduated)
  \cup Failed("organic", p.minOrganic > 0 /\ Under(s.organic, p.minOrganic))

\* A danger nobody could rule out refuses like one that was seen.
DangerFailures(s, fact) == Unread(fact, s.security[fact] = Null) \cup Failed(fact, s.security[fact] = TRUE)

\* A share nobody could read refuses; over its limit it fails.
ShareFailures(s, fact, limit) ==
  Unread(fact, s.security[fact] = Null) \cup Failed(fact, Over(s.security[fact], limit))

LpFailures(s, p) ==
  IF ~p.requireLpLock \/ s.concentrated THEN {}
  ELSE Unread("lpLocked", s.security["lpLocked"] = Null)
       \cup Failed("lpLocked", Under(s.security["lpLocked"], p.minLpLocked))

\* The movement of five minutes, asked only where a floor is set.
VolatilityFailures(s, p) ==
  IF p.minVolatility = 0 THEN {}
  ELSE Unread("volatility", ~Known(s.volatility))
       \cup Failed("volatility", Under(s.volatility, p.minVolatility))

Failures(gate, s, p) ==
  CASE gate = "denylist" -> Failed(gate, s.denied)
    [] gate = "impersonation" -> Failed(gate, s.impostor)
    [] gate = "marketCap" -> Failed(gate, Known(p.maxFdv) /\ Over(s.fdv, p.maxFdv))
    [] gate = "liquidity" -> Failed(gate, s.liquidity < p.minLiquidity)
    [] gate = "age" -> AgeFailures(s, p)
    [] gate = "staleBars" -> StaleBarFailures(s, p)
    [] gate = "priceMismatch" -> Failed(gate, PriceMismatch(s, p))
    [] gate = "volume" -> Failed(gate, s.volume < p.minVolume)
    [] gate = "freefall" -> Failed(gate, Freefall(s, p))
    [] gate = "pumpDump" -> Failed(gate, PumpDump(s, p))
    [] gate = "launchQuality" -> LaunchQuality(s, p)
    [] gate = "turnover" -> Failed(gate, s.liquidity > 0 /\ s.volume < p.minTurnover * s.liquidity)
    [] gate = "idle" -> Failed(gate, s.buys + s.sells < p.minHourTxns)
    [] gate = "impact" -> Failed(gate, Over(s.impact, p.maxImpact))
    [] gate = "history" -> Failed(gate, Under(s.bars, p.minBars))
    [] gate = "volatility" -> VolatilityFailures(s, p)
    [] gate \in {"honeypot", "mintAuthority", "freezeAuthority", "blacklist"} -> DangerFailures(s, gate)
    [] gate = "transferTax" -> ShareFailures(s, gate, p.maxTax)
    [] gate = "topHolders" -> ShareFailures(s, gate, p.maxTopHolders)
    [] gate = "lpLocked" -> LpFailures(s, p)
    [] gate = "creatorShare" -> Failed(gate, Over(s.security["creator"], p.maxCreator))
    [] gate = "proxy" -> Failed(gate, s.chain = "bsc" /\ s.security["proxy"] = TRUE)

\* isAsked: the policy ignores a gate, except that an empty pool always refuses.
IsAsked(failure, s, p) ==
  failure[1] \notin p.ignored \/ (failure[1] = "liquidity" /\ s.liquidity <= 0)

Asked(gates, s, p) == {f \in UNION {Failures(g, s, p) : g \in gates} : IsAsked(f, s, p)}

-----------------------------------------------------------------------------
(* The verdicts.  The two lists are written out apart in the code, and share *)
(* no loop.                                                                *)

\* Before anything is paid for.
MarketGates ==
  {"denylist", "impersonation", "marketCap", "liquidity", "age", "staleBars", "priceMismatch",
   "volume", "freefall", "pumpDump", "launchQuality", "turnover", "idle"}

EvaluateMarketGates(s, p) == Asked(MarketGates, s, p)

\* As a bug would have it: the second list lacks a gate of the first.
AllGatesButTheFall ==
  {"denylist", "impersonation", "marketCap", "impact", "honeypot", "mintAuthority",
   "freezeAuthority", "blacklist", "transferTax", "lpLocked", "topHolders", "creatorShare", "proxy",
   "liquidity", "age", "history", "staleBars", "priceMismatch", "volatility", "volume",
   "pumpDump", "launchQuality", "turnover", "idle"}

\* The whole verdict.
AllGates ==
  {"denylist", "impersonation", "marketCap", "impact", "honeypot", "mintAuthority",
   "freezeAuthority", "blacklist", "transferTax", "lpLocked", "topHolders", "creatorShare", "proxy",
   "liquidity", "age", "history", "staleBars", "priceMismatch", "volatility", "volume",
   "freefall", "pumpDump", "launchQuality", "turnover", "idle"}

EvaluateGates(s, p) == Asked(AllGates, s, p)

\* What says a token is worth less, not that it is dangerous.
OpportunityOnly ==
  {"freefall", "turnover", "idle", "volume", "marketCap", "age", "history", "volatility",
   "pumpDump", "curve", "organic"}

EvaluateSafetyGates(s, p) == {f \in EvaluateGates(s, p) : f[1] \notin OpportunityOnly}

Forgivable == {"turnover", "volume", "marketCap"}

\* forgivableFailures: refused, and by taste alone.
Forgiven(failures) == failures # {} /\ \A f \in failures : f[1] \in Forgivable

-----------------------------------------------------------------------------
(* The policies.  Liquidity and volume are in thousands of dollars, what is  *)
(* off is Huge or Null.                                                    *)

Huge == 1000000

DefaultGatePolicy ==
  [minAge |-> 6, maxAge |-> 30 * 24, maxBarAge |-> Huge, maxPriceRatio |-> 5, maxFall |-> 100,
   maxDailyFall |-> 30, maxDayRise |-> 100, maxHourFall |-> Huge, maxPump |-> Huge,
   refuseCurve |-> TRUE, minOrganic |-> 50, maxFdv |-> Null, minLiquidity |-> 100, minVolume |-> 0,
   minTurnover |-> 0, minHourTxns |-> 4, maxTax |-> 5, requireLpLock |-> FALSE, minLpLocked |-> 80,
   maxTopHolders |-> 50, maxCreator |-> 30, maxImpact |-> 10, minBars |-> 0, minVolatility |-> 0,
   ignored |-> {"liquidity", "topHolders", "blacklist", "lpLocked", "impact", "impersonation",
                "denylist", "marketCap", "proxy"}]

\* What the tests hold the gates to since production asks less.
StrictGatePolicy ==
  [DefaultGatePolicy EXCEPT !.ignored = {}, !.maxDayRise = Huge, !.minOrganic = 0,
   !.refuseCurve = FALSE, !.requireLpLock = TRUE, !.minLiquidity = 20, !.minVolume = 10,
   !.maxFall = 50, !.maxDailyFall = 15, !.minTurnover = 1, !.maxFdv = 500000, !.minBars = 60,
   !.maxBarAge = 1, !.minAge = 24, !.maxAge = Huge]

-----------------------------------------------------------------------------
(* The last look before capital moves.                                     *)

\* confirmEntry: `fresh` is Null when the market could not be read, `age` of
\* the last bar Null or Absent when the candles could not.  Where nobody measures
\* the bars, `maxAge` is Absent and they are not asked about.
ConfirmEntry(fresh, p, age, maxAge) ==
  /\ fresh # Null
  /\ EvaluateSafetyGates(fresh, p) = {}
  /\ maxAge # Absent => Known(age) /\ age <= maxAge

-----------------------------------------------------------------------------
(* What the scan says of a token that is held.                             *)

\* withLiveMarket: the half a feed knows; what was paid for stays as it was.
MarketHalf == {"price", "liquidity", "fdv", "volume", "h1", "h6", "h24", "buys", "sells", "age"}
WithLiveMarket(stored, live) ==
  IF live = Null THEN stored
  ELSE [f \in DOMAIN stored |-> IF f \in MarketHalf THEN live[f] ELSE stored[f]]

NothingMeasured ==
  [liquidity |-> Null, lp |-> "unknown", mint |-> Null, freeze |-> Null, safetyFailed |-> Null]

\* As a bug would have it: a gate the door ignores is still evidence.
LpAsReported(s, p) ==
  LET locked == s.security["lpLocked"] IN
  IF s.concentrated \/ locked = Null THEN "unknown"
  ELSE IF locked >= p.minLpLocked THEN "locked" ELSE "unlocked"

LpStatus(s, p) ==
  LET locked == s.security["lpLocked"] IN
  IF s.concentrated \/ locked = Null \/ "lpLocked" \in p.ignored THEN "unknown"
  ELSE IF locked >= p.minLpLocked THEN "locked" ELSE "unlocked"

Unignored(s, fact, p) == IF fact \in p.ignored THEN Null ELSE s.security[fact]

\* As a bug would have it: a gate nobody could read is a gate that failed.
HealthOfEveryFailure(s, p) ==
  IF s = Null THEN NothingMeasured
  ELSE [liquidity |-> s.liquidity, lp |-> LpStatus(s, p), mint |-> Null, freeze |-> Null,
        safetyFailed |-> {f[1] : f \in EvaluateSafetyGates(s, p)}]

\* healthFromSnapshot: a token nobody examined says its liquidity and no more;
\* a gate that could not be asked is not evidence.
HealthFromSnapshot(s, p) ==
  IF s = Null THEN NothingMeasured
  ELSE IF ~s.checked THEN [NothingMeasured EXCEPT !.liquidity = s.liquidity]
  ELSE [liquidity |-> s.liquidity, lp |-> LpStatus(s, p),
        mint |-> Unignored(s, "mintAuthority", p), freeze |-> Unignored(s, "freezeAuthority", p),
        safetyFailed |-> {f[1] : f \in {g \in EvaluateSafetyGates(s, p) : g[2] = "failed"}}]

\* healthForCycle: a verdict is only as fresh as the scan it is from; the
\* liquidity is read again on every pass.
HealthForCycle(stored, p, live, fresh) ==
  IF fresh THEN HealthFromSnapshot(IF stored = Null THEN Null ELSE WithLiveMarket(stored, live), p)
  ELSE [NothingMeasured EXCEPT !.liquidity = IF live = Null THEN Null ELSE live.liquidity]

=============================================================================
