-------------------------------- MODULE Rules --------------------------------
(***************************************************************************)
(* The rules as one caller after another meets them.  Gates, Ranking and   *)
(* Allocation are pure: what can go wrong is that two callers of the same  *)
(* rule disagree, or that a rule answers otherwise once it knows less.     *)
(* Each step puts a question, a token at the door or a whole pass, and the *)
(* properties compare what the callers make of it.                         *)
(***************************************************************************)
EXTENDS Allocation, DeathWatch

CONSTANTS
  GateQuestions,   \* [s, p, reports, age]: a token, the gates asked, the
                   \* reports its security is merged from, its last bar's age
  PassQuestions    \* [universe, book, p, quality]: the tokens a scan brings,
                   \* the rows held, the policies and the pools measured;
                   \* [live, measured, age]: the market and the impacts a
                   \* watch pass reads, and the age of its shelf

VARIABLE ask   \* the question on the table

NothingAsked == [about |-> "nothing"]

RulesInit == ask = NothingAsked

AskGates == \E q \in GateQuestions : ask' = [about |-> "gates", q |-> q]
AskPass  == \E q \in PassQuestions : ask' = [about |-> "pass", q |-> q]

RulesNext == ask = NothingAsked /\ (AskGates \/ AskPass)

RulesSpec == RulesInit /\ [][RulesNext]_ask

-----------------------------------------------------------------------------
(* A token at the door.                                                    *)

Token(q) == [q.s EXCEPT !.security = MergeSecurity(q.reports)]

\* The policies are those a configuration makes: a door that does not ask for the
\* lock of a pool ignores it, and one that asks for a pool asks for a floor above
\* the watch's.
ASSUME RulesAssumption ==
  /\ Null # Absent /\ Null \notin BOOLEAN /\ Absent \notin BOOLEAN \cup Int
  /\ \A gates \in SUBSET (AllGates \ OpportunityOnly) : gates # Null
  /\ Unknown \notin {"failed", "implausible", TRUE}
  /\ \A q \in GateQuestions :
       /\ q.s \in Snapshots /\ Token(q) # Null /\ q.reports \in Seq(SecurityReports)
       /\ q.age \in Maybe(Int) \cup {Absent} /\ {q.p.maxBarAge, q.p.minLiquidity, q.p.minLpLocked} \subseteq Int
       /\ "lpLocked" \in q.p.ignored \/ q.p.requireLpLock
       /\ "liquidity" \in q.p.ignored \/ q.p.minLiquidity >= LiquidityFloor

\* The token as the scan has it before anything is paid for.
BeforePaying(s) ==
  [s EXCEPT !.security = UnknownSecurity, !.checked = FALSE, !.impact = Absent, !.bars = Absent,
            !.volatility = Absent, !.candlePrice = Absent, !.lastTrade = Absent]

RefusedForGood(failures) == failures # {} /\ ~Forgiven(failures)

\* A token refused for free is refused whatever the paid questions answer: the
\* two evaluations are written out apart, and what the first drops is never
\* asked about again (scan.ts, the free gates before the paid stage).
CheapRefusalIsFinal ==
  ask.about = "gates" =>
    LET s == Token(ask.q) IN
    RefusedForGood(EvaluateMarketGates(BeforePaying(s), ask.q.p))
      => RefusedForGood(EvaluateGates(s, ask.q.p))

\* What each fact says of a token that is held.
Evidence(health) ==
  (IF health.safetyFailed = Null THEN {} ELSE health.safetyFailed)
  \cup {e \in {"lp", "mint", "freeze"} :
          \/ e = "lp" /\ health.lp = "unlocked"
          \/ e = "mint" /\ health.mint = TRUE
          \/ e = "freeze" /\ health.freeze = TRUE}

\* What a provider may leave out of its answer.
Forgettable == {"age", "lastTrade", "candlePrice", "h1", "h6", "h24", "organic", "fdv", "impact", "bars",
                "volatility"}
Forgotten(s) ==
  {[s EXCEPT ![f] = Null] : f \in Forgettable \ {"lastTrade"}}
  \cup {[s EXCEPT !.lastTrade = Absent]}
  \cup {[s EXCEPT !.security[fact] = Null] : fact \in Dangers \cup Shares}

\* A provider that falls silent on a held token is never evidence against it: no
\* answer left out adds to what the death watch is told, and a scan that is not
\* new tells it nothing (health-from-scan.ts, "MEASURED failures only").
SilenceIsNotEvidence ==
  ask.about = "gates" =>
    LET s == Token(ask.q)
        told(t, fresh) == Evidence(HealthForCycle(t, ask.q.p, Null, fresh)) IN
    /\ \A t \in Forgotten(s) : told(t, TRUE) \subseteq told(s, TRUE)
    /\ told(s, FALSE) = {} /\ told(BeforePaying(s), TRUE) = {}

\* The watch's look at a token the scanner just measured, nothing else known.
\* Where the door asks for no pool, the watch has no floor for it.
LookOf(s, p, age) ==
  LET health == HealthFromSnapshot(s, p) IN
  [sellQuote |-> Unknown, lp |-> health.lp, entry |-> s.liquidity,
   liquidity |-> IF "liquidity" \in p.ignored THEN Unknown ELSE s.liquidity,
   authority |-> health.mint = TRUE \/ health.freeze = TRUE, blocked |-> Unknown,
   idleHours |-> IF p.maxBarAge < FreezeHours THEN age ELSE Unknown,
   holderMoved |-> Unknown,
   safetyFailed |-> IF health.safetyFailed = Null THEN {} ELSE health.safetyFailed]

\* What the last look before a buy lets in, the death watch has nothing against
\* on the same facts: no freeze, and no step towards an exit, follows from what
\* the door accepted; and no source saw a danger the door asks about, whatever
\* the order the sources are trusted in (confirm-entry.ts, health-from-scan.ts).
EnteredIsHealthy ==
  ask.about = "gates" =>
    LET s == Token(ask.q) IN
    ConfirmEntry(s, ask.q.p, ask.q.age, ask.q.p.maxBarAge) =>
      /\ EvaluateSignals(LookOf(s, ask.q.p, ask.q.age)) = {}
      /\ \A i \in DOMAIN ask.q.reports, fact \in Dangers \ ask.q.p.ignored :
           ask.q.reports[i][fact] = TRUE => fact = "proxy" /\ s.chain # "bsc"

-----------------------------------------------------------------------------
(* A whole pass.                                                           *)

Qualities == [spread : Int, slippage : Int, reference : Int, liquidity : Int]

\* A token is met once and a row has an id of its own; what is measured is a
\* number where it is known.  The policies are those a configuration makes: a slot
\* is the whole ladder, and neither more nor less is dealt for one.
ASSUME PassAssumption ==
  \A q \in PassQuestions :
    /\ IsFiniteSet(q.universe) /\ q.universe \subseteq Snapshots
    /\ \A s, t \in q.universe : s.address = t.address => s = t
    /\ \A s \in q.universe :
         /\ s.address \in DOMAIN q.quality \cap DOMAIN q.live
         /\ q.quality[s.address] \in Maybe(Qualities)
         /\ q.live[s.address] \in Maybe(Snapshots) /\ q.measured[s.address] \in Maybe(Int)
    /\ IsFiniteSet(q.book) /\ \A g, h \in q.book : g.id = h.id => g = h
    /\ \A h \in q.book : h.capital \in Int /\ h.deployed \in Int
    /\ {"total", "basis", "maxPositions", "order", "minTier", "reserve", "maxPosition", "target",
        "minPosition", "ladder", "sizing", "bySize"} \subseteq DOMAIN q.p
    /\ q.p.order \in {"volatility", "costEfficiency", "size"} /\ q.p.minTier \in DOMAIN TierUsd
    /\ q.p.slot \in Nat \ {0} /\ q.p.target = q.p.slot /\ q.p.minPosition = q.p.slot
    /\ q.p.maxPosition \in Nat /\ q.p.reserve \in Nat /\ q.p.maxPositions \in Nat
    /\ {q.p.capital, q.p.fund, q.p.spread, q.p.reference} \subseteq Int

\* The ranking of the pass; `slots` candidates are kept, and those held.  A full
\* pass ranks what the scan brought, a watch pass the shelf in today's market.
RankingOf(q, slots) ==
  LET places == [slots |-> slots, held |-> {h.token : h \in q.book}] IN
  IF q.p.full THEN RankUniverse(q.universe, q.p, places, [a \in DOMAIN q.quality |-> Null], q.quality)
  ELSE RecallCandidates(q.universe, q.p, places, q.live, q.measured, q.age)

Outcome(q) == Allocate(q.book, RankingOf(q, FreeSlots(q.book, q.p)), q.p)
Tokens(plan) == {plan[i].who.s.address : i \in DOMAIN plan}

BuysOthersOnce(o) ==
  /\ Tokens(o.plan) \cap {h.token : h \in o.keeping \cup o.stopped \cup o.released \cup o.rotated} = {}
  /\ Cardinality(Tokens(o.plan)) = Len(o.plan)

\* A token that gave its slot up, for whatever reason, is not bought back by the
\* pass that let it go, and one that keeps its slot gets no second one
\* (orchestrator.ts, the word "otra" of rotation).
NeverRebought == ask.about = "pass" => BuysOthersOnce(Outcome(ask.q))

\* The plan over the candidates not held yet, as the pass makes it.
PlanOver(q, candidates) ==
  PlanPortfolio({r \in candidates : r.s.address \notin {h.token : h \in q.book}},
                [q.p EXCEPT !.total = BookFree(q.book, q.p), !.basis = q.p.capital + q.p.fund])

CutAgrees(q, cut, all) ==
  (\A r \in all : Tradeable(q.p.ladder, r.quality, q.p.sizing, q.p.target)) => PlanOver(q, cut) = PlanOver(q, all)

\* Every token that is worth buying, were there a slot for each.
Uncut(q) == RankingOf(q, Cardinality(q.universe)).candidates

\* The cut to the free slots drops nobody the plan would have served: with as
\* many candidates as the book has free slots for, the plan deals what it does
\* over all of them (ranking.ts, one order for the cut, the scan and the plan).
\* The reserve is the exception: it is cut behind whoever qualified, and dealt
\* by the order alone.
CutAgreesWithPlan ==
  /\ ask.about = "pass" /\ ask.q.p.doors = << >> /\ ask.q.p.order # "size"
  /\ ~ask.q.p.bySize /\ ~ask.q.p.forgives
  => CutAgrees(ask.q, RankingOf(ask.q, FreeSlots(ask.q.book, ask.q.p)).candidates, Uncut(ask.q))

FitsTheCapital(q, o) ==
  o.plan # << >> =>
    /\ Committed(o.keeping, q.p) + Dealt(o.plan) <= q.p.capital + q.p.fund
    /\ q.p.maxPositions > 0 => Cardinality(o.keeping) + Len(o.plan) <= q.p.maxPositions

\* The pass deals no dollar it does not have: what it plans and what its rows
\* keep are within the configured capital and the fund, and the rows and the
\* plan within the slots (portfolio.ts, the floor that wins over the cap).
PlanFitsTheCapital == ask.about = "pass" => FitsTheCapital(ask.q, Outcome(ask.q))

=============================================================================
