---------------------------- MODULE Rules_proofs ----------------------------
(***************************************************************************)
(* The rules at the door, for any tokens and any policies a configuration  *)
(* makes: what a gate answers when it knows less, what the free verdict is *)
(* worth, and what the death watch makes of what the door let in.  Then a  *)
(* whole pass: what it may deal, to whom, and what the cut costs it.       *)
(*                                                                         *)
(* One snapshot knows less than another when what it says is what the other*)
(* says, or nothing.  Every gate that fails on the lesser snapshot fails   *)
(* on the other: that is proved of each gate, and the rest follows.        *)
(*                                                                         *)
(* The pass orders, folds and adds up.  The order is one over the tokens,  *)
(* so whoever is served has as many ahead as has a place before; a fold is *)
(* a run of partial results, so what each deal keeps the whole plan has;   *)
(* and the first of a list are dealt what they are dealt in all of it.     *)
(***************************************************************************)
EXTENDS Rules, FiniteSetTheorems, WellFoundedInduction, TLAPS

-----------------------------------------------------------------------------
(* Knowing less.                                                           *)

\* A fact the scan can do without, in both.
Less(x, y) == x = y \/ ~Known(x)

KnowsLess(t, s) ==
  /\ t.chain = s.chain /\ t.denied = s.denied /\ t.impostor = s.impostor
  /\ t.liquidity = s.liquidity /\ t.price = s.price /\ t.volume = s.volume
  /\ t.ungraduated = s.ungraduated /\ t.buys = s.buys /\ t.sells = s.sells
  /\ t.concentrated = s.concentrated
  /\ Less(t.fdv, s.fdv) /\ Less(t.age, s.age) /\ Less(t.lastTrade, s.lastTrade)
  /\ Less(t.candlePrice, s.candlePrice) /\ Less(t.organic, s.organic) /\ Less(t.impact, s.impact)
  /\ Less(t.h1, s.h1) /\ Less(t.h6, s.h6) /\ Less(t.h24, s.h24)
  /\ Less(t.bars, s.bars) /\ Less(t.volatility, s.volatility)
  /\ \A fact \in Dangers \cup Shares : t.security[fact] = s.security[fact] \/ t.security[fact] = Null

FailedOnly(failures) == {f \in failures : f[2] = "failed"}

Securities == {"honeypot", "mintAuthority", "freezeAuthority", "blacklist"}

(* A gate that fails on less fails on more.                                *)
LEMMA FailsOnLess ==
  ASSUME RulesAssumption, NEW s, NEW t, NEW p, KnowsLess(t, s), NEW g \in AllGates
  PROVE  FailedOnly(Failures(g, t, p)) \subseteq Failures(g, s, p)
<1> USE DEF FailedOnly, Failed, Unread
<1>0. Null # TRUE /\ Null # Absent
  BY DEF RulesAssumption
<1>1. CASE g \in {"denylist", "impersonation", "liquidity", "volume", "turnover", "idle"}
  BY <1>1 DEF Failures, KnowsLess
<1>2. CASE g \in {"marketCap", "impact", "history"}
  BY <1>2 DEF Failures, KnowsLess, Less, Known, Over, Under
<1>3. CASE g \in {"age", "staleBars"}
  BY <1>3 DEF Failures, KnowsLess, Less, Known, Over, Under, AgeFailures, StaleBarFailures
<1>4. CASE g \in {"priceMismatch", "freefall", "pumpDump"}
  <2> USE DEF KnowsLess, Less, Known, Over, Under
  <2>1. PriceMismatch(t, p) => PriceMismatch(s, p)
    BY DEF PriceMismatch
  <2>2. Freefall(t, p) => Freefall(s, p)
    BY DEF Freefall
  <2>3. PumpDump(t, p) => PumpDump(s, p)
    BY DEF PumpDump
  <2> QED  BY <1>4, <2>1, <2>2, <2>3 DEF Failures
<1>5. CASE g \in {"launchQuality", "volatility"}
  BY <1>5 DEF Failures, KnowsLess, Less, Known, Over, Under, LaunchQuality, VolatilityFailures
<1>6. CASE g \in Securities
  <2>1. Failures(g, t, p) = DangerFailures(t, g) /\ Failures(g, s, p) = DangerFailures(s, g)
    BY <1>6 DEF Failures, Securities
  <2>2. t.security[g] = s.security[g] \/ t.security[g] = Null
    BY <1>6 DEF KnowsLess, Securities, Dangers
  <2>3. ASSUME NEW f \in FailedOnly(DangerFailures(t, g))
        PROVE  f \in DangerFailures(s, g)
    <3>1. f = <<g, "failed">> /\ t.security[g] = TRUE
      BY DEF DangerFailures
    <3>2. s.security[g] = TRUE
      BY <1>0, <2>2, <3>1
    <3> QED  BY <3>1, <3>2 DEF DangerFailures
  <2> QED  BY <2>1, <2>3
<1>7. CASE g \in {"transferTax", "topHolders"}
  BY <1>7 DEF Failures, KnowsLess, ShareFailures, Known, Over, Shares
<1>8. CASE g = "lpLocked"
  BY <1>8 DEF Failures, KnowsLess, LpFailures, Known, Under, Shares
<1>9. CASE g \in {"creatorShare", "proxy"}
  BY <1>0, <1>9 DEF Failures, KnowsLess, Known, Over, Shares, Dangers
<1> QED
  BY <1>1, <1>2, <1>3, <1>4, <1>5, <1>6, <1>7, <1>8, <1>9 DEF AllGates, Securities

(* What a gate says carries its name, or that of a question of the launch. *)
LEMMA NamesOfFailures ==
  ASSUME NEW s, NEW p, NEW g \in AllGates, NEW f \in Failures(g, s, p)
  PROVE  f[1] \in AllGates \cup {"curve", "organic"} /\ f[2] \in {"failed", "unknown"}
<1> USE DEF Failed, Unread
<1>1. CASE g = "age"
  BY <1>1 DEF Failures, AgeFailures, AllGates
<1>2. CASE g = "staleBars"
  BY <1>2 DEF Failures, StaleBarFailures, AllGates
<1>3. CASE g = "launchQuality"
  BY <1>3 DEF Failures, LaunchQuality
<1>4. CASE g = "volatility"
  BY <1>4 DEF Failures, VolatilityFailures, AllGates
<1>5. CASE g \in Securities
  <2>1. f \in DangerFailures(s, g)
    BY <1>5 DEF Failures, Securities
  <2> QED  BY <2>1 DEF DangerFailures
<1>6. CASE g = "transferTax"
  BY <1>6 DEF Failures, ShareFailures, AllGates
<1>7. CASE g = "topHolders"
  BY <1>7 DEF Failures, ShareFailures, AllGates
<1>8. CASE g = "lpLocked"
  BY <1>8 DEF Failures, LpFailures, AllGates
<1>9. CASE g \in {"denylist", "impersonation", "marketCap", "liquidity", "priceMismatch", "volume"}
  BY <1>9 DEF Failures, AllGates
<1>10. CASE g \in {"freefall", "pumpDump", "turnover", "idle", "impact", "history"}
  BY <1>10 DEF Failures, AllGates
<1>11. CASE g \in {"creatorShare", "proxy"}
  BY <1>11 DEF Failures, AllGates
<1> QED
  BY <1>1, <1>2, <1>3, <1>4, <1>5, <1>6, <1>7, <1>8, <1>9, <1>10, <1>11 DEF AllGates, Securities

(* So what fails the whole verdict on less, fails it on more.              *)
LEMMA VerdictOnLess ==
  ASSUME RulesAssumption, NEW s, NEW t, NEW p, KnowsLess(t, s)
  PROVE  /\ FailedOnly(EvaluateGates(t, p)) \subseteq EvaluateGates(s, p)
         /\ FailedOnly(EvaluateSafetyGates(t, p)) \subseteq EvaluateSafetyGates(s, p)
<1>1. ASSUME NEW f \in FailedOnly(EvaluateGates(t, p))
      PROVE  f \in EvaluateGates(s, p)
  <2>1. PICK g \in AllGates : f \in Failures(g, t, p)
    BY DEF FailedOnly, EvaluateGates, Asked
  <2>2. f \in FailedOnly(Failures(g, t, p)) /\ IsAsked(f, t, p)
    BY <2>1 DEF FailedOnly, EvaluateGates, Asked
  <2>3. f \in Failures(g, s, p)
    BY <2>2, FailsOnLess
  <2>4. IsAsked(f, s, p)
    BY <2>2 DEF IsAsked, KnowsLess
  <2> QED  BY <2>3, <2>4 DEF EvaluateGates, Asked
<1> QED  BY <1>1 DEF EvaluateSafetyGates, FailedOnly

(* What the safety gates say, by name.                                     *)
LEMMA NamesOfSafety ==
  ASSUME NEW s, NEW p
  PROVE  {f[1] : f \in {g \in EvaluateSafetyGates(s, p) : g[2] = "failed"}} \in SUBSET (AllGates \ OpportunityOnly)
<1>1. ASSUME NEW f \in EvaluateSafetyGates(s, p)
      PROVE  f[1] \in AllGates \ OpportunityOnly
  <2>1. PICK g \in AllGates : f \in Failures(g, s, p)
    BY DEF EvaluateSafetyGates, EvaluateGates, Asked
  <2>2. f[1] \notin OpportunityOnly
    BY DEF EvaluateSafetyGates
  <2> QED  BY <2>1, <2>2, NamesOfFailures DEF OpportunityOnly
<1> QED  BY <1>1

-----------------------------------------------------------------------------
(* A token at the door.                                                    *)

LEMMA TokenKnown ==
  ASSUME RulesAssumption, NEW q \in GateQuestions
  PROVE  /\ Token(q) \in SnapshotsWith({Token(q).security}) /\ Token(q) # Null
         /\ DOMAIN Token(q).security = Dangers \cup Shares
         /\ \A f \in DOMAIN q.s : f # "security" => Token(q)[f] = q.s[f]
<1>1. q.s \in Snapshots /\ Token(q) # Null
  BY DEF RulesAssumption
<1>2. Token(q).security = MergeSecurity(q.reports)
  BY <1>1 DEF Token, Snapshots, SnapshotsWith
<1>3. DOMAIN Token(q).security = Dangers \cup Shares
  BY <1>2 DEF MergeSecurity
<1>4. Token(q) \in SnapshotsWith({Token(q).security})
  BY <1>1, <1>2 DEF Token, Snapshots, SnapshotsWith
<1>5. \A f \in DOMAIN q.s : f # "security" => Token(q)[f] = q.s[f]
  BY DEF Token
<1> QED  BY <1>1, <1>3, <1>4, <1>5

LEMMA BeforePayingKnowsLess ==
  ASSUME NEW reports, NEW s \in SnapshotsWith(reports)
  PROVE  /\ KnowsLess(BeforePaying(s), s) /\ BeforePaying(s).age = s.age
         /\ BeforePaying(s).checked = FALSE /\ BeforePaying(s).lastTrade = Absent
<1> DEFINE b == BeforePaying(s)
<1>1. b = [s EXCEPT !.security = UnknownSecurity, !.checked = FALSE, !.impact = Absent, !.bars = Absent,
                    !.volatility = Absent, !.candlePrice = Absent, !.lastTrade = Absent]
  BY DEF BeforePaying
<1> HIDE DEF b
<1>2. /\ b.chain = s.chain /\ b.denied = s.denied /\ b.impostor = s.impostor
      /\ b.liquidity = s.liquidity /\ b.price = s.price /\ b.volume = s.volume
      /\ b.ungraduated = s.ungraduated /\ b.buys = s.buys /\ b.sells = s.sells
      /\ b.concentrated = s.concentrated /\ b.fdv = s.fdv /\ b.age = s.age /\ b.organic = s.organic
      /\ b.h1 = s.h1 /\ b.h6 = s.h6 /\ b.h24 = s.h24
  BY <1>1 DEF SnapshotsWith
<1>3. /\ b.security = UnknownSecurity /\ b.checked = FALSE /\ b.impact = Absent /\ b.bars = Absent
      /\ b.volatility = Absent /\ b.candlePrice = Absent /\ b.lastTrade = Absent
  BY <1>1 DEF SnapshotsWith
<1>4. \A fact \in Dangers \cup Shares : b.security[fact] = Null
  BY <1>3 DEF UnknownSecurity
<1>5. KnowsLess(b, s)
  BY <1>2, <1>3, <1>4 DEF KnowsLess, Less, Known
<1> QED  BY <1>2, <1>3, <1>5 DEF b

LEMMA ForgottenKnowsLess ==
  ASSUME NEW reports, NEW s \in SnapshotsWith(reports), DOMAIN s.security = Dangers \cup Shares,
         NEW t \in Forgotten(s)
  PROVE  KnowsLess(t, s) /\ t.checked = s.checked
<1> USE DEF SnapshotsWith, KnowsLess, Less, Known
<1>1. CASE t = [s EXCEPT !.lastTrade = Absent]
  BY <1>1
<1>2. ASSUME NEW fact \in Dangers \cup Shares, t = [s EXCEPT !.security[fact] = Null]
      PROVE  KnowsLess(t, s) /\ t.checked = s.checked
  <2>1. t.security = [s.security EXCEPT ![fact] = Null]
    BY <1>2
  <2>2. \A other \in Dangers \cup Shares : t.security[other] = s.security[other] \/ t.security[other] = Null
    BY <2>1
  <2>3. \A f \in DOMAIN s : f # "security" => t[f] = s[f]
    BY <1>2
  <2> QED  BY <2>2, <2>3
<1>3. ASSUME NEW f \in Forgettable \ {"lastTrade"}, t = [s EXCEPT ![f] = Null]
      PROVE  KnowsLess(t, s) /\ t.checked = s.checked
  <2>1. \A other \in DOMAIN s : t[other] = IF other = f THEN Null ELSE s[other]
    BY <1>3
  <2> QED  BY <2>1 DEF Forgettable
<1> QED  BY <1>1, <1>2, <1>3 DEF Forgotten

-----------------------------------------------------------------------------
(* What the free verdict is worth.                                         *)

(* A free gate fails on the unpaid token only where it fails on the paid.  *)
LEMMA FreeGatesKeep ==
  ASSUME RulesAssumption, NEW reports, NEW s \in SnapshotsWith(reports), NEW p
  PROVE  EvaluateMarketGates(BeforePaying(s), p) \subseteq EvaluateGates(s, p)
<1> DEFINE b == BeforePaying(s)
<1>1. KnowsLess(b, s) /\ b.age = s.age /\ b.lastTrade = Absent /\ Absent # Null
  BY BeforePayingKnowsLess DEF RulesAssumption
<1> HIDE DEF b
<1>2. ASSUME NEW g \in MarketGates, NEW f \in Failures(g, b, p)
      PROVE  f \in Failures(g, s, p)
  <2>1. g \in AllGates
    BY DEF MarketGates, AllGates
  <2>2. CASE f[2] = "failed"
    BY <1>1, <2>1, <2>2, FailsOnLess DEF FailedOnly
  <2>3. CASE f[2] = "unknown"
    <3>1. g = "age" /\ p.minAge > 0 /\ b.age = Null /\ f = <<"age", "unknown">>
      <4> USE DEF Failed, Unread, Failures
      <4>1. CASE g \in {"denylist", "impersonation", "marketCap", "liquidity", "priceMismatch", "volume"}
        BY <2>3, <4>1
      <4>2. CASE g \in {"freefall", "pumpDump", "turnover", "idle"}
        BY <2>3, <4>2
      <4>3. CASE g = "launchQuality"
        BY <2>3, <4>3 DEF LaunchQuality
      <4>4. CASE g = "staleBars"
        BY <1>1, <2>3, <4>4 DEF StaleBarFailures
      <4>5. CASE g = "age"
        BY <2>3, <4>5 DEF AgeFailures
      <4> QED  BY <4>1, <4>2, <4>3, <4>4, <4>5 DEF MarketGates
    <3> QED  BY <1>1, <3>1 DEF Failures, AgeFailures, Unread
  <2> QED  BY <2>1, <2>2, <2>3, NamesOfFailures
<1>3. ASSUME NEW f \in EvaluateMarketGates(b, p)
      PROVE  f \in EvaluateGates(s, p)
  <2>1. PICK g \in MarketGates : f \in Failures(g, b, p)
    BY DEF EvaluateMarketGates, Asked
  <2>2. IsAsked(f, b, p)
    BY DEF EvaluateMarketGates, Asked
  <2>3. IsAsked(f, s, p)
    BY <1>1, <2>2 DEF IsAsked, KnowsLess
  <2>4. f \in Failures(g, s, p) /\ g \in AllGates
    BY <1>2, <2>1 DEF MarketGates, AllGates
  <2> QED  BY <2>3, <2>4 DEF EvaluateGates, Asked
<1> QED  BY <1>3 DEF b

(* What is asked about is a question.                                      *)
AskInv ==
  /\ ask.about = "gates" => ask.q \in GateQuestions
  /\ ask.about = "pass" => ask.q \in PassQuestions

LEMMA AskInvCorrect == RulesSpec => []AskInv
<1>1. RulesInit => AskInv
  BY DEF RulesInit, NothingAsked, AskInv
<1>2. AskInv /\ [RulesNext]_ask => AskInv'
  BY DEF AskInv, RulesNext, AskGates, AskPass
<1> QED  BY <1>1, <1>2, PTL DEF RulesSpec

(* CheapRefusalIsFinal: what the free gates refuse for good, the whole     *)
(* verdict refuses for good, whatever the paid questions answer.           *)
THEOREM CheapRefusalIsAlwaysFinal == RulesSpec => []CheapRefusalIsFinal
<1>1. ASSUME RulesAssumption, AskInv
      PROVE  CheapRefusalIsFinal
  <2> SUFFICES ASSUME ask.about = "gates",
                      RefusedForGood(EvaluateMarketGates(BeforePaying(Token(ask.q)), ask.q.p))
               PROVE  RefusedForGood(EvaluateGates(Token(ask.q), ask.q.p))
    BY DEF CheapRefusalIsFinal
  <2>1. ask.q \in GateQuestions
    BY <1>1 DEF AskInv
  <2>2. EvaluateMarketGates(BeforePaying(Token(ask.q)), ask.q.p) \subseteq EvaluateGates(Token(ask.q), ask.q.p)
    BY <1>1, <2>1, TokenKnown, FreeGatesKeep
  <2> QED  BY <2>2 DEF RefusedForGood, Forgiven
<1>2. RulesAssumption
  BY RulesAssumption
<1>3. AskInv => CheapRefusalIsFinal
  BY <1>1, <1>2
<1> QED  BY <1>3, AskInvCorrect, PTL

-----------------------------------------------------------------------------
(* What a fact left out says of a token that is held.                      *)

LEMMA LessEvidence ==
  ASSUME RulesAssumption, NEW s, NEW t, NEW p, KnowsLess(t, s), t.checked = s.checked, s # Null
  PROVE  Evidence(HealthFromSnapshot(t, p)) \subseteq Evidence(HealthFromSnapshot(s, p))
<1> DEFINE ht == HealthFromSnapshot(t, p)
           hs == HealthFromSnapshot(s, p)
           names(x) == {f[1] : f \in {g \in EvaluateSafetyGates(x, p) : g[2] = "failed"}}
<1>1. Null # TRUE
  BY DEF RulesAssumption
<1>2. CASE t = Null \/ ~t.checked
  <2>1. ht.safetyFailed = Null /\ ht.lp = "unknown" /\ ht.mint = Null /\ ht.freeze = Null
    BY <1>2 DEF HealthFromSnapshot, NothingMeasured
  <2>2. Evidence(ht) = {}
    BY <1>1, <2>1 DEF Evidence
  <2> QED  BY <2>2
<1>3. CASE t # Null /\ t.checked
  <2>1. /\ ht = [liquidity |-> t.liquidity, lp |-> LpStatus(t, p), mint |-> Unignored(t, "mintAuthority", p),
                 freeze |-> Unignored(t, "freezeAuthority", p), safetyFailed |-> names(t)]
        /\ hs = [liquidity |-> s.liquidity, lp |-> LpStatus(s, p), mint |-> Unignored(s, "mintAuthority", p),
                 freeze |-> Unignored(s, "freezeAuthority", p), safetyFailed |-> names(s)]
    BY <1>3 DEF HealthFromSnapshot
  <2>2. names(t) \subseteq names(s)
    <3>1. FailedOnly(EvaluateSafetyGates(t, p)) \subseteq EvaluateSafetyGates(s, p)
      BY VerdictOnLess
    <3> QED  BY <3>1 DEF FailedOnly
  <2>3. names(s) # Null /\ names(t) # Null
    BY NamesOfSafety DEF RulesAssumption
  <2>4. LpStatus(t, p) = "unlocked" => LpStatus(s, p) = "unlocked"
    BY DEF LpStatus, KnowsLess, Shares
  <2>5. \A fact \in {"mintAuthority", "freezeAuthority"} :
          Unignored(t, fact, p) = TRUE => Unignored(s, fact, p) = TRUE
    <3> TAKE fact \in {"mintAuthority", "freezeAuthority"}
    <3>1. t.security[fact] = s.security[fact] \/ t.security[fact] = Null
      BY DEF KnowsLess, Dangers
    <3> QED  BY <1>1, <3>1 DEF Unignored
  <2> HIDE DEF ht, hs, names
  <2>6. /\ ht.safetyFailed = names(t) /\ hs.safetyFailed = names(s)
        /\ ht.lp = LpStatus(t, p) /\ hs.lp = LpStatus(s, p)
        /\ ht.mint = Unignored(t, "mintAuthority", p) /\ hs.mint = Unignored(s, "mintAuthority", p)
        /\ ht.freeze = Unignored(t, "freezeAuthority", p) /\ hs.freeze = Unignored(s, "freezeAuthority", p)
    BY <2>1
  <2>7. Evidence(ht) \subseteq Evidence(hs)
    BY <2>2, <2>3, <2>4, <2>5, <2>6 DEF Evidence
  <2> QED  BY <2>7 DEF ht, hs
<1> QED  BY <1>2, <1>3

LEMMA LiveMarketUnread ==
  ASSUME NEW t, NEW p, t # Null
  PROVE  HealthForCycle(t, p, Null, TRUE) = HealthFromSnapshot(t, p)
BY DEF HealthForCycle, WithLiveMarket

(* SilenceIsNotEvidence: no answer a provider leaves out adds to what the  *)
(* death watch is told of a token that is held; a scan that is not new, or *)
(* a token nobody examined, tells it nothing.                              *)
THEOREM SilenceIsNeverEvidence == RulesSpec => []SilenceIsNotEvidence
<1>1. ASSUME RulesAssumption, AskInv, ask.about = "gates"
      PROVE  SilenceIsNotEvidence
  <2> DEFINE s == Token(ask.q)
             p == ask.q.p
             told(t, fresh) == Evidence(HealthForCycle(t, p, Null, fresh))
  <2>1. ask.q \in GateQuestions
    BY <1>1 DEF AskInv
  <2>2. s \in SnapshotsWith({s.security}) /\ s # Null /\ DOMAIN s.security = Dangers \cup Shares
    BY <1>1, <2>1, TokenKnown
  <2> HIDE DEF s, p
  <2>3. Null # TRUE
    BY <1>1 DEF RulesAssumption
  <2>4. ASSUME NEW t, t = Null \/ ~t.checked
        PROVE  told(t, TRUE) = {}
    <3>1. CASE t = Null
      BY <2>3, <3>1 DEF HealthForCycle, HealthFromSnapshot, NothingMeasured, Evidence
    <3>2. CASE t # Null
      <4>1. HealthForCycle(t, p, Null, TRUE) = [NothingMeasured EXCEPT !.liquidity = t.liquidity]
        BY <2>4, <3>2, LiveMarketUnread DEF HealthFromSnapshot
      <4> QED  BY <2>3, <4>1 DEF NothingMeasured, Evidence
    <3> QED  BY <3>1, <3>2
  <2>5. \A t \in Forgotten(s) : told(t, TRUE) \subseteq told(s, TRUE)
    <3> TAKE t \in Forgotten(s)
    <3>1. KnowsLess(t, s) /\ t.checked = s.checked
      BY <2>2, ForgottenKnowsLess
    <3>2. CASE t = Null
      BY <2>4, <3>2
    <3>3. CASE t # Null
      <4>1. Evidence(HealthFromSnapshot(t, p)) \subseteq Evidence(HealthFromSnapshot(s, p))
        BY <1>1, <2>2, <3>1, LessEvidence
      <4>2. /\ HealthForCycle(t, p, Null, TRUE) = HealthFromSnapshot(t, p)
            /\ HealthForCycle(s, p, Null, TRUE) = HealthFromSnapshot(s, p)
        BY <2>2, <3>3, LiveMarketUnread
      <4> QED  BY <4>1, <4>2
    <3> QED  BY <3>2, <3>3
  <2>6. told(s, FALSE) = {}
    BY <2>3 DEF HealthForCycle, NothingMeasured, Evidence
  <2>7. told(BeforePaying(s), TRUE) = {}
    <3>1. ~BeforePaying(s).checked
      BY <2>2, BeforePayingKnowsLess
    <3> QED  BY <2>4, <3>1
  <2> QED  BY <2>5, <2>6, <2>7 DEF SilenceIsNotEvidence, s, p
<1>2. RulesAssumption
  BY RulesAssumption
<1>3. AskInv => SilenceIsNotEvidence
  BY <1>1, <1>2 DEF SilenceIsNotEvidence
<1> QED  BY <1>3, AskInvCorrect, PTL

-----------------------------------------------------------------------------
(* What the door lets in.                                                  *)

(* A set of naturals that has a member has a least one.                    *)
LEMMA LeastNatural ==
  ASSUME NEW T \in SUBSET Nat, T # {}
  PROVE  \E x \in T : \A y \in T : x <= y
<1> DEFINE R == OpToRel(<, Nat)
<1>1. IsWellFoundedOn(R, Nat)
  BY NatLessThanWellFounded
<1>2. \A x, y \in Nat : y < x => <<y, x>> \in R
  BY DEF OpToRel
<1> HIDE DEF R
<1>3. PICK x \in T : \A y \in T : ~ (<<y, x>> \in R)
  BY <1>1, WFMin
<1>4. \A y \in T : x <= y
  <2> TAKE y \in T
  <2>1. ~(y < x)
    BY <1>2, <1>3
  <2> QED  BY <2>1
<1> QED  BY <1>4

(* The share of the most trusted source that read it is a share.           *)
LEMMA SharesAreRead ==
  ASSUME NEW reports \in Seq(SecurityReports), NEW fact \in Shares
  PROVE  MergeSecurity(reports)[fact] \in Maybe(Int)
<1> DEFINE known == {i \in DOMAIN reports : reports[i][fact] # Null}
<1>1. MergeSecurity(reports)[fact] = FirstKnown(reports, fact)
  BY DEF MergeSecurity, Shares, Dangers
<1>2. \A i \in DOMAIN reports : reports[i][fact] \in Maybe(Int)
  <2>1. \A r \in SecurityReports :
          /\ r["transferTax"] \in Maybe(Int) /\ r["lpLocked"] \in Maybe(Int)
          /\ r["topHolders"] \in Maybe(Int) /\ r["creator"] \in Maybe(Int)
    BY DEF SecurityReports
  <2>2. \A i \in DOMAIN reports : reports[i] \in SecurityReports
    OBVIOUS
  <2> QED  BY <2>1, <2>2 DEF Shares
<1>3. CASE known = {}
  BY <1>1, <1>3 DEF FirstKnown, Maybe
<1>4. CASE known # {}
  <2>1. known \in SUBSET Nat
    OBVIOUS
  <2>2. \E i \in known : \A j \in known : i <= j
    BY <1>4, <2>1, LeastNatural
  <2>3. (CHOOSE i \in known : \A j \in known : i <= j) \in DOMAIN reports
    BY <2>2
  <2>4. FirstKnown(reports, fact) = reports[CHOOSE i \in known : \A j \in known : i <= j][fact]
    BY <1>4 DEF FirstKnown
  <2> QED  BY <1>1, <1>2, <2>3, <2>4
<1> QED  BY <1>3, <1>4

(* A token the door lets in passes the gates the watch has an eye on.      *)
LEMMA LetIn ==
  ASSUME RulesAssumption, NEW q \in GateQuestions,
         ConfirmEntry(Token(q), q.p, q.age, q.p.maxBarAge)
  PROVE  /\ "liquidity" \notin q.p.ignored => Token(q).liquidity >= LiquidityFloor
         /\ \A fact \in Securities \ q.p.ignored : Token(q).security[fact] # TRUE
         /\ "proxy" \notin q.p.ignored /\ Token(q).security["proxy"] = TRUE => Token(q).chain # "bsc"
         /\ LpStatus(Token(q), q.p) # "unlocked"
         /\ q.p.maxBarAge < FreezeHours => q.age \in Int /\ q.age < FreezeHours
<1> DEFINE s == Token(q)
           p == q.p
<1>1. ASSUME NEW g \in AllGates, <<g, "failed">> \in Failures(g, s, p), g \notin p.ignored
      PROVE  g \in OpportunityOnly
  <2>1. <<g, "failed">> \in EvaluateGates(s, p)
    BY <1>1 DEF EvaluateGates, Asked, IsAsked
  <2>2. EvaluateSafetyGates(s, p) = {}
    BY DEF ConfirmEntry
  <2> QED  BY <2>1, <2>2 DEF EvaluateSafetyGates
<1>2. s \in SnapshotsWith({s.security}) /\ s.security = MergeSecurity(q.reports)
  <2>1. q.s \in Snapshots
    BY DEF RulesAssumption
  <2> QED  BY <2>1, TokenKnown DEF Token, Snapshots, SnapshotsWith
<1>3. p.maxBarAge \in Int /\ p.minLiquidity \in Int /\ p.minLpLocked \in Int
  BY DEF RulesAssumption
<1> HIDE DEF s
<1>4. "liquidity" \notin p.ignored => s.liquidity >= LiquidityFloor
  <2> SUFFICES ASSUME "liquidity" \notin p.ignored PROVE s.liquidity >= LiquidityFloor
    OBVIOUS
  <2>1. p.minLiquidity >= LiquidityFloor
    BY DEF RulesAssumption
  <2>2. "liquidity" \in AllGates /\ "liquidity" \notin OpportunityOnly
    BY DEF AllGates, OpportunityOnly
  <2>3. <<"liquidity", "failed">> \notin Failures("liquidity", s, p)
    BY <1>1, <2>2
  <2>4. ~(s.liquidity < p.minLiquidity)
    BY <2>3 DEF Failures, Failed
  <2>5. s.liquidity \in Nat
    BY <1>2 DEF SnapshotsWith
  <2> QED  BY <1>3, <2>1, <2>4, <2>5 DEF LiquidityFloor
<1>5. \A fact \in Securities \ p.ignored : s.security[fact] # TRUE
  <2> TAKE fact \in Securities \ p.ignored
  <2>1. fact \in AllGates /\ fact \notin OpportunityOnly
    BY DEF AllGates, OpportunityOnly, Securities
  <2>2. <<fact, "failed">> \notin Failures(fact, s, p)
    BY <1>1, <2>1
  <2>3. Failures(fact, s, p) = DangerFailures(s, fact)
    BY DEF Failures, Securities
  <2> QED  BY <2>2, <2>3 DEF DangerFailures, Failed
<1>6. "proxy" \notin p.ignored /\ s.security["proxy"] = TRUE => s.chain # "bsc"
  <2>1. "proxy" \in AllGates /\ "proxy" \notin OpportunityOnly
    BY DEF AllGates, OpportunityOnly
  <2>2. "proxy" \notin p.ignored => <<"proxy", "failed">> \notin Failures("proxy", s, p)
    BY <1>1, <2>1
  <2> QED  BY <2>2 DEF Failures, Failed
<1>7. LpStatus(s, p) # "unlocked"
  <2> SUFFICES ASSUME LpStatus(s, p) = "unlocked" PROVE FALSE
    OBVIOUS
  <2>1. /\ ~s.concentrated /\ s.security["lpLocked"] # Null /\ "lpLocked" \notin p.ignored
        /\ ~(s.security["lpLocked"] >= p.minLpLocked)
    BY DEF LpStatus
  <2>2. s.security["lpLocked"] \in Int
    <3>1. q.reports \in Seq(SecurityReports) /\ "lpLocked" \in Shares
      BY DEF RulesAssumption, Shares
    <3> QED  BY <1>2, <2>1, <3>1, SharesAreRead DEF Maybe
  <2>3. p.requireLpLock
    BY <2>1 DEF RulesAssumption
  <2>4. "lpLocked" \in AllGates /\ "lpLocked" \notin OpportunityOnly
    BY DEF AllGates, OpportunityOnly
  <2>5. <<"lpLocked", "failed">> \notin Failures("lpLocked", s, p)
    BY <1>1, <2>1, <2>4
  <2>6. Absent \notin Int
    BY DEF RulesAssumption
  <2>7. Under(s.security["lpLocked"], p.minLpLocked)
    BY <1>3, <2>1, <2>2, <2>6 DEF Under, Known
  <2> QED  BY <2>1, <2>3, <2>5, <2>7 DEF Failures, LpFailures, Failed
<1>8. p.maxBarAge < FreezeHours => q.age \in Int /\ q.age < FreezeHours
  <2>1. p.maxBarAge # Absent
    BY <1>3 DEF RulesAssumption
  <2>2. Known(q.age) /\ q.age <= p.maxBarAge /\ q.age \in Maybe(Int) \cup {Absent}
    BY <2>1 DEF ConfirmEntry, RulesAssumption
  <2> QED  BY <1>3, <2>2 DEF Known, Maybe, FreezeHours
<1> QED  BY <1>4, <1>5, <1>6, <1>7, <1>8 DEF s

(* The watch has nothing against a token the door lets in.                 *)
LEMMA NoSignals ==
  ASSUME RulesAssumption, NEW q \in GateQuestions,
         ConfirmEntry(Token(q), q.p, q.age, q.p.maxBarAge)
  PROVE  EvaluateSignals(LookOf(Token(q), q.p, q.age)) = {}
<1> DEFINE s == Token(q)
           p == q.p
           health == HealthFromSnapshot(s, p)
           look == LookOf(s, p, q.age)
<1>1. Null # TRUE /\ Unknown \notin {"failed", "implausible", TRUE}
  BY DEF RulesAssumption
<1>2. s # Null /\ EvaluateSafetyGates(s, p) = {}
  BY DEF ConfirmEntry
<1>3. s.liquidity \in Nat
  BY TokenKnown DEF SnapshotsWith
<1>4. health.lp \notin {"removed", "unlocked"}
  <2>1. health.lp = "unknown" \/ health.lp = LpStatus(s, p)
    BY <1>2 DEF HealthFromSnapshot, NothingMeasured
  <2>2. LpStatus(s, p) # "unlocked"
    BY LetIn
  <2> QED  BY <2>1, <2>2 DEF LpStatus
<1>5. health.mint # TRUE /\ health.freeze # TRUE
  <2>1. \/ health.mint = Null /\ health.freeze = Null
        \/ /\ health.mint = Unignored(s, "mintAuthority", p)
           /\ health.freeze = Unignored(s, "freezeAuthority", p)
    BY <1>2 DEF HealthFromSnapshot, NothingMeasured
  <2>2. \A fact \in Securities \ p.ignored : s.security[fact] # TRUE
    BY LetIn
  <2>3. Unignored(s, "mintAuthority", p) # TRUE /\ Unignored(s, "freezeAuthority", p) # TRUE
    BY <1>1, <2>2 DEF Unignored, Securities
  <2> QED  BY <1>1, <2>1, <2>3
<1>6. health.safetyFailed \in {Null, {}}
  BY <1>2 DEF HealthFromSnapshot, NothingMeasured
<1> HIDE DEF health
<1>7. /\ look.sellQuote = Unknown /\ look.lp = health.lp /\ look.entry = s.liquidity
      /\ look.liquidity = IF "liquidity" \in p.ignored THEN Unknown ELSE s.liquidity
      /\ look.authority = (health.mint = TRUE \/ health.freeze = TRUE) /\ look.blocked = Unknown
      /\ look.idleHours = IF p.maxBarAge < FreezeHours THEN q.age ELSE Unknown
      /\ look.holderMoved = Unknown
      /\ look.safetyFailed = IF health.safetyFailed = Null THEN {} ELSE health.safetyFailed
  BY DEF LookOf, health
<1> HIDE DEF look, s, p
<1>8. ~Collapsed(look)
  <2>1. CASE "liquidity" \in p.ignored
    BY <1>7, <2>1 DEF Collapsed
  <2>2. CASE "liquidity" \notin p.ignored
    <3>1. s.liquidity >= LiquidityFloor
      BY <2>2, LetIn DEF s, p
    <3> QED  BY <1>3, <1>7, <2>2, <3>1 DEF Collapsed, LiquidityFloor, LiquidityBelow, LiquidityExitPct
  <2> QED  BY <2>1, <2>2
<1>9. ~AtLeast(look.idleHours, FreezeHours) /\ ~AtLeast(look.idleHours, ExitHours)
  <2>1. CASE p.maxBarAge < FreezeHours
    <3>1. q.age \in Int /\ q.age < FreezeHours
      BY <2>1, LetIn DEF p
    <3> QED  BY <1>7, <2>1, <3>1 DEF AtLeast, FreezeHours, ExitHours
  <2>2. CASE ~(p.maxBarAge < FreezeHours)
    BY <1>7, <2>2 DEF AtLeast
  <2> QED  BY <2>1, <2>2
<1>10. ~ExitEvidence(look)
  <2>1. look.authority # TRUE /\ look.blocked # TRUE
    BY <1>1, <1>5, <1>7
  <2>2. look.sellQuote \notin {"failed", "implausible"} /\ look.lp \notin {"removed", "unlocked"}
    BY <1>1, <1>4, <1>7
  <2> QED  BY <1>8, <1>9, <2>1, <2>2 DEF ExitEvidence
<1>11. ~Suspicion(look)
  <2>1. look.safetyFailed = {} /\ ~AtLeast(look.holderMoved, HolderDumpPct)
    BY <1>6, <1>7 DEF AtLeast
  <2>2. ~(look.liquidity # Unknown /\ look.liquidity > 0 /\ LiquidityBelow(look, LiquidityFreezePct))
    BY <1>3, <1>7 DEF LiquidityBelow, LiquidityFreezePct
  <2> QED  BY <1>9, <2>1, <2>2 DEF Suspicion
<1>12. EvaluateSignals(look) = {}
  BY <1>10, <1>11 DEF EvaluateSignals
<1> QED  BY <1>12 DEF look, s, p

(* EnteredIsHealthy: what the last look before a buy lets in, the death    *)
(* watch has nothing against on the same facts, and no source saw a danger *)
(* the door asks about.                                                    *)
THEOREM EnteredIsAlwaysHealthy == RulesSpec => []EnteredIsHealthy
<1>1. ASSUME RulesAssumption, AskInv, ask.about = "gates",
             ConfirmEntry(Token(ask.q), ask.q.p, ask.q.age, ask.q.p.maxBarAge)
      PROVE  /\ EvaluateSignals(LookOf(Token(ask.q), ask.q.p, ask.q.age)) = {}
             /\ \A i \in DOMAIN ask.q.reports, fact \in Dangers \ ask.q.p.ignored :
                  ask.q.reports[i][fact] = TRUE => fact = "proxy" /\ Token(ask.q).chain # "bsc"
  <2>1. ask.q \in GateQuestions
    BY <1>1 DEF AskInv
  <2>2. EvaluateSignals(LookOf(Token(ask.q), ask.q.p, ask.q.age)) = {}
    BY <1>1, <2>1, NoSignals
  <2>3. ASSUME NEW i \in DOMAIN ask.q.reports, NEW fact \in Dangers \ ask.q.p.ignored,
               ask.q.reports[i][fact] = TRUE
        PROVE  fact = "proxy" /\ Token(ask.q).chain # "bsc"
    <3>1. Token(ask.q).security = MergeSecurity(ask.q.reports)
      <4>1. ask.q.s \in Snapshots
        BY <1>1, <2>1 DEF RulesAssumption
      <4> QED  BY <4>1 DEF Token, Snapshots, SnapshotsWith
    <3>2. Token(ask.q).security[fact] = TRUE
      BY <2>3, <3>1 DEF MergeSecurity, DangerWins
    <3>3. fact \notin Securities
      BY <1>1, <2>1, <3>2, LetIn
    <3> QED  BY <1>1, <2>1, <3>2, <3>3, LetIn DEF Dangers, Securities
  <2> QED  BY <2>2, <2>3
<1>2. RulesAssumption
  BY RulesAssumption
<1>3. AskInv => EnteredIsHealthy
  BY <1>1, <1>2 DEF EnteredIsHealthy
<1> QED  BY <1>3, AskInvCorrect, PTL

-----------------------------------------------------------------------------
(* The order a pass serves in.                                             *)

\* What the order reads of a listed token.
Readable(c) ==
  c.s.address \in Int /\ c.score \in Int /\ c.cost \in Int /\ VolatilityRank(c.s) \in Int

Apart(C) == \A c, d \in C : c.s.address = d.s.address => c = d

Orders == {"volatility", "costEfficiency", "size"}

\* One order over all of C.
Linear(C, p) ==
  /\ \A c \in C : ~DealtBefore(p, c, c)
  /\ \A c, d, e \in C : DealtBefore(p, c, d) /\ DealtBefore(p, d, e) => DealtBefore(p, c, e)
  /\ \A c, d \in C : c # d => DealtBefore(p, c, d) \/ DealtBefore(p, d, c)

LEMMA DealtInOneOrder ==
  ASSUME NEW C, Apart(C), \A c \in C : Readable(c), NEW p, p.order \in Orders
  PROVE  Linear(C, p)
<1> DEFINE First(c, d) ==
             IF p.order = "size" THEN 0
             ELSE IF p.order = "volatility" THEN VolatilityRank(c.s) - VolatilityRank(d.s) ELSE c.cost - d.cost
<1>1. ASSUME NEW c \in C, NEW d \in C
      PROVE  DealtBefore(p, c, d) <=>
               \/ First(c, d) > 0
               \/ First(c, d) = 0 /\ c.score > d.score
               \/ First(c, d) = 0 /\ c.score = d.score /\ c.s.address < d.s.address
  BY DEF DealtBefore, Before, Readable, Orders
<1>2. \A c, d, e \in C : First(c, d) \in Int /\ First(c, e) = First(c, d) + First(d, e) /\ First(c, c) = 0
                        /\ First(d, c) = -First(c, d)
  BY DEF Readable
<1> HIDE DEF First
<1>3. \A c \in C : ~DealtBefore(p, c, c)
  BY <1>1, <1>2 DEF Readable
<1>4. ASSUME NEW c \in C, NEW d \in C, NEW e \in C, DealtBefore(p, c, d), DealtBefore(p, d, e)
      PROVE  DealtBefore(p, c, e)
  <2>1. /\ First(c, d) \in Int /\ First(d, e) \in Int /\ First(c, e) = First(c, d) + First(d, e)
        /\ c.score \in Int /\ d.score \in Int /\ e.score \in Int
        /\ c.s.address \in Int /\ d.s.address \in Int /\ e.s.address \in Int
    BY <1>2 DEF Readable
  <2>2. First(c, d) >= 0 /\ First(d, e) >= 0
    BY <1>1, <1>4, <2>1
  <2>3. CASE First(c, d) > 0 \/ First(d, e) > 0
    BY <1>1, <2>1, <2>2, <2>3
  <2>4. CASE First(c, d) = 0 /\ First(d, e) = 0
    <3>1. c.score > d.score \/ (c.score = d.score /\ c.s.address < d.s.address)
      BY <1>1, <1>4, <2>4
    <3>2. d.score > e.score \/ (d.score = e.score /\ d.s.address < e.s.address)
      BY <1>1, <1>4, <2>4
    <3>3. First(c, e) = 0
      BY <2>1, <2>4
    <3> QED  BY <1>1, <2>1, <3>1, <3>2, <3>3
  <2> QED  BY <2>1, <2>2, <2>3, <2>4
<1>5. ASSUME NEW c \in C, NEW d \in C, c # d
      PROVE  DealtBefore(p, c, d) \/ DealtBefore(p, d, c)
  <2>1. c.s.address # d.s.address
    BY <1>5 DEF Apart
  <2>2. /\ First(c, d) \in Int /\ First(d, c) = -First(c, d)
        /\ c.score \in Int /\ d.score \in Int /\ c.s.address \in Int /\ d.s.address \in Int
    BY <1>2 DEF Readable
  <2> QED  BY <1>1, <2>1, <2>2
<1> QED  BY <1>3, <1>4, <1>5 DEF Linear

\* A sequence that has each of C once, in order.
Serves(o, C, p) ==
  LET n == Cardinality(C) IN
  /\ o \in [1..n -> C]
  /\ \A c \in C : \E i \in 1..n : o[i] = c
  /\ \A i, j \in 1..n : i < j <=> DealtBefore(p, o[i], o[j])

(* The serving order has every token once, and whoever is dealt before     *)
(* another has a place before.                                             *)
LEMMA InServingOrder ==
  ASSUME NEW C, IsFiniteSet(C), NEW p, Linear(C, p)
  PROVE  /\ Serves(ServingOrder(C, p), C, p) /\ Cardinality(C) \in Nat
         /\ \A i \in 1..Cardinality(C) : Cardinality(Ahead(C, ServingOrder(C, p)[i], p)) = i - 1
<1> DEFINE n == Cardinality(C)
           place == [c \in C |-> Cardinality(Ahead(C, c, p)) + 1]
           o == ServingOrder(C, p)
<1>1. n \in Nat
  BY FS_CardinalityType
<1>2. ASSUME NEW c \in C
      PROVE  /\ IsFiniteSet(Ahead(C, c, p)) /\ Cardinality(Ahead(C, c, p)) \in Nat
             /\ Cardinality(Ahead(C, c, p)) < n
  <2>1. Ahead(C, c, p) \in SUBSET C /\ Ahead(C, c, p) # C
    BY DEF Ahead, Linear
  <2>2. IsFiniteSet(Ahead(C, c, p)) /\ Cardinality(Ahead(C, c, p)) <= n /\ Cardinality(Ahead(C, c, p)) # n
    BY <2>1, FS_Subset
  <2>3. Cardinality(Ahead(C, c, p)) \in Nat
    BY <2>2, FS_CardinalityType
  <2> HIDE DEF n
  <2> QED  BY <1>1, <2>2, <2>3
<1>3. ASSUME NEW c \in C, NEW d \in C, DealtBefore(p, c, d)
      PROVE  Cardinality(Ahead(C, c, p)) < Cardinality(Ahead(C, d, p))
  <2>1. Ahead(C, c, p) \in SUBSET Ahead(C, d, p) /\ Ahead(C, c, p) # Ahead(C, d, p)
    BY <1>3 DEF Ahead, Linear
  <2>2. /\ Cardinality(Ahead(C, c, p)) <= Cardinality(Ahead(C, d, p))
        /\ Cardinality(Ahead(C, c, p)) # Cardinality(Ahead(C, d, p))
    BY <1>2, <2>1, FS_Subset
  <2> QED  BY <1>2, <2>2
<1>4. \A c, d \in C : place[c] < place[d] <=> DealtBefore(p, c, d)
  <2>1. \A c, d \in C : DealtBefore(p, c, d) => place[c] < place[d]
    BY <1>2, <1>3
  <2>2. \A c \in C : place[c] \in Int
    BY <1>2
  <2> HIDE DEF place
  <2> QED  BY <2>1, <2>2 DEF Linear
<1>5. place \in [C -> 1..n]
  BY <1>1, <1>2
<1>6. place \in Injection(C, 1..n)
  <2>1. \A c, d \in C : place[c] = place[d] => c = d
    <3>1. \A c \in C : place[c] \in Int
      BY <1>5
    <3> HIDE DEF place
    <3> QED  BY <1>4, <3>1 DEF Linear
  <2> HIDE DEF place
  <2> QED  BY <1>5, <2>1 DEF Injection, IsInjective
<1>7. place \in Surjection(C, 1..n)
  <2>1. IsFiniteSet(1..n) /\ Cardinality(1..n) = n
    BY <1>1, FS_Interval
  <2> HIDE DEF place
  <2> QED  BY <1>6, <2>1, FS_Injection
<1>8. ASSUME NEW i \in 1..n
      PROVE  o[i] \in C /\ place[o[i]] = i
  <2>1. \E c \in C : place[c] = i
    BY <1>7 DEF Surjection
  <2>2. \E c \in C : Cardinality(Ahead(C, c, p)) = i - 1
    BY <1>2, <2>1
  <2>3. o[i] = CHOOSE c \in C : Cardinality(Ahead(C, c, p)) = i - 1
    BY DEF ServingOrder
  <2>4. o[i] \in C /\ Cardinality(Ahead(C, o[i], p)) = i - 1
    BY <2>2, <2>3
  <2> QED  BY <1>1, <2>4
<1>9. \A c \in C : o[place[c]] = c
  BY <1>5, <1>6, <1>8 DEF Injection, IsInjective
<1>10. o \in [1..n -> C]
  BY <1>8 DEF ServingOrder
<1>11. \A i, j \in 1..n : i < j <=> DealtBefore(p, o[i], o[j])
  <2> HIDE DEF place, o, n
  <2> QED  BY <1>4, <1>8
<1>12. \A i \in 1..n : Cardinality(Ahead(C, o[i], p)) = i - 1
  <2> TAKE i \in 1..n
  <2>1. o[i] \in C /\ place[o[i]] = i /\ Cardinality(Ahead(C, o[i], p)) \in Nat
    BY <1>2, <1>8
  <2>2. place[o[i]] = Cardinality(Ahead(C, o[i], p)) + 1
    BY <2>1
  <2> HIDE DEF o, place
  <2> QED  BY <1>1, <2>1, <2>2
<1>13. Serves(o, C, p)
  <2>1. \A c \in C : \E i \in 1..n : o[i] = c
    BY <1>5, <1>9
  <2> HIDE DEF o, place
  <2> QED  BY <1>10, <1>11, <2>1 DEF Serves
<1> QED  BY <1>1, <1>12, <1>13

-----------------------------------------------------------------------------
(* Folds.                                                                  *)

\* What the recursion of a fold says of its partial results: over a set of
\* places, taken out one by one as pick says.
Folded(h, F, base, pick, val, S) ==
  \A s \in SUBSET S : h[s] = IF s = {} THEN base ELSE F[<<h[s \ {pick[s]}], val[pick[s]]>>]

Picks(pick, S) == \A s \in SUBSET S : s # {} => pick[s] \in s

(* There are such partial results.                                         *)
LEMMA FoldExists ==
  ASSUME NEW A, NEW B, NEW F \in [A \X B -> A], NEW base \in A,
         NEW S, IsFiniteSet(S), NEW val \in [S -> B], NEW pick, Picks(pick, S)
  PROVE  \E h \in [SUBSET S -> A] : Folded(h, F, base, pick, val, S)
<1> DEFINE P == SUBSET S
           Step(h, s) == IF s = {} THEN base ELSE F[<<h[s \ {pick[s]}], val[pick[s]]>>]
           Upto(h, k) == \A s \in P : Cardinality(s) <= k => h[s] = Step(h, s)
           Bad == {k \in Nat : ~ \E h \in [P -> A] : Upto(h, k)}
<1>1. \A s \in P : /\ IsFiniteSet(s) /\ Cardinality(s) \in Nat
                   /\ s # {} => /\ pick[s] \in s /\ pick[s] \in S /\ s \ {pick[s]} \in P
                                /\ Cardinality(s \ {pick[s]}) = Cardinality(s) - 1
  <2> TAKE s \in P
  <2>1. IsFiniteSet(s)
    BY FS_Subset
  <2>2. s # {} => pick[s] \in s
    BY DEF Picks
  <2>3. Cardinality(s) \in Nat
    BY <2>1, FS_CardinalityType
  <2>4. pick[s] \in s => Cardinality(s \ {pick[s]}) = Cardinality(s) - 1
    BY <2>1, FS_RemoveElement
  <2> QED  BY <2>1, <2>2, <2>3, <2>4
<1>2. \A h \in [P -> A], s \in P : Step(h, s) \in A
  BY <1>1
<1>3. Bad = {}
  <2> SUFFICES ASSUME Bad # {} PROVE FALSE
    OBVIOUS
  <2>1. PICK k \in Bad : \A m \in Bad : k <= m
    <3> HIDE DEF Bad
    <3>1. Bad \in SUBSET Nat
      BY DEF Bad
    <3> QED  BY <3>1, LeastNatural
  <2>2. k # 0
    <3> SUFFICES ASSUME k = 0 PROVE FALSE
      OBVIOUS
    <3> DEFINE h == [s \in P |-> base]
    <3>1. \A s \in P : Cardinality(s) <= 0 => s = {}
      <4> TAKE s \in P
      <4>1. IsFiniteSet(s) /\ Cardinality(s) \in Nat
        BY <1>1
      <4>2. Cardinality(s) = 0 <=> s = {}
        BY <4>1, FS_EmptySet
      <4> HIDE DEF h, P, Bad
      <4> QED  BY <4>1, <4>2
    <3>2. Upto(h, 0) /\ h \in [P -> A]
      BY <3>1
    <3> QED  BY <2>1, <3>2
  <2>3. k - 1 \in Nat /\ k \in Nat
    <3>1. k \in Nat
      BY <2>1
    <3> HIDE DEF Bad
    <3> QED  BY <2>2, <3>1
  <2>4. PICK h \in [P -> A] : Upto(h, k - 1)
    <3>1. k - 1 \notin Bad
      <4> HIDE DEF Bad
      <4> QED  BY <2>1, <2>3
    <3> HIDE DEF Upto
    <3> QED  BY <2>3, <3>1
  <2> DEFINE g == [s \in P |-> IF Cardinality(s) <= k - 1 THEN h[s] ELSE Step(h, s)]
  <2>5. g \in [P -> A]
    <3> HIDE DEF Step
    <3> QED  BY <1>2
  <2>6. ASSUME NEW s \in P, Cardinality(s) <= k
        PROVE  g[s] = Step(g, s)
    <3>1. Step(g, s) = Step(h, s)
      <4>1. CASE s = {}
        BY <4>1
      <4>2. CASE s # {}
        <5> DEFINE t == s \ {pick[s]}
        <5>1. t \in P /\ Cardinality(t) = Cardinality(s) - 1 /\ Cardinality(s) \in Nat
          BY <1>1, <4>2
        <5>2. Cardinality(t) <= k - 1
          <6>1. Cardinality(t) \in Nat
            BY <1>1, <5>1
          <6> HIDE DEF t, g, Step, Bad
          <6> QED  BY <2>3, <2>6, <5>1, <6>1
        <5>3. g[t] = h[t]
          BY <5>1, <5>2
        <5> HIDE DEF g
        <5> QED  BY <4>2, <5>3
      <4> QED  BY <4>1, <4>2
    <3>2. g[s] = Step(h, s)
      <4> HIDE DEF Step
      <4> QED  BY <2>4
    <3> QED  BY <3>1, <3>2
  <2>7. Upto(g, k)
    <3> HIDE DEF g, Step
    <3> QED  BY <2>6
  <2> QED
    <3> HIDE DEF g, Upto
    <3> QED  BY <2>1, <2>5, <2>7
<1>4. Cardinality(S) \in Nat /\ \A s \in P : Cardinality(s) <= Cardinality(S)
  BY FS_Subset, FS_CardinalityType
<1>5. PICK h \in [P -> A] : Upto(h, Cardinality(S))
  <2> HIDE DEF Upto
  <2> QED  BY <1>3, <1>4
<1>6. Folded(h, F, base, pick, val, S)
  BY <1>4, <1>5 DEF Folded
<1> QED  BY <1>6

-----------------------------------------------------------------------------
(* Folds over sequences, place after place.                                *)

LastPlaces(n) == [s \in SUBSET (1..n) |-> Max(s)]

LEMMA LastPlaceOf ==
  ASSUME NEW n \in Nat
  PROVE  /\ IsFiniteSet(1..n) /\ Picks(LastPlaces(n), 1..n)
         /\ \A k \in 1..n : LastPlaces(n)[1..k] = k /\ (1..k) \ {k} = 1..(k - 1) /\ 1..k \in SUBSET (1..n)
<1>1. ASSUME NEW s \in SUBSET (1..n), s # {} PROVE \E x \in s : \A y \in s : x >= y
  <2> DEFINE T == {n - x : x \in s}
  <2>1. T \in SUBSET Nat /\ T # {}
    <3>1. \A x \in s : n - x \in Nat
      OBVIOUS
    <3> QED  BY <1>1, <3>1
  <2>2. PICK t \in T : \A u \in T : t <= u
    <3> HIDE DEF T
    <3> QED  BY <2>1, LeastNatural
  <2>3. PICK x \in s : t = n - x
    BY <2>2
  <2>4. \A y \in s : x >= y
    <3> TAKE y \in s
    <3>1. n - x <= n - y
      BY <2>2, <2>3
    <3> QED  BY <3>1
  <2> QED  BY <2>4
<1>2. ASSUME NEW s \in SUBSET (1..n), s # {} PROVE Max(s) \in s /\ \A y \in s : Max(s) >= y
  BY <1>1, <1>2 DEF Max
<1>3. ASSUME NEW k \in 1..n PROVE Max(1..k) = k /\ (1..k) \ {k} = 1..(k - 1) /\ 1..k \in SUBSET (1..n)
  <2>1. 1..k \in SUBSET (1..n) /\ k \in 1..k /\ (1..k) \ {k} = 1..(k - 1)
    OBVIOUS
  <2>2. Max(1..k) \in 1..k /\ Max(1..k) >= k
    BY <1>2, <2>1
  <2> QED  BY <2>1, <2>2
<1> QED  BY <1>2, <1>3, FS_Interval DEF Picks, LastPlaces

(* A climb from 0 to n.                                                    *)
LEMMA Climb ==
  ASSUME NEW n \in Nat, NEW G, 0 \in G, \A k \in 1..n : k - 1 \in G => k \in G
  PROVE  \A k \in 0..n : k \in G
<1> DEFINE Bad == {k \in 0..n : k \notin G}
<1> SUFFICES ASSUME Bad # {} PROVE FALSE
  OBVIOUS
<1>1. PICK k \in Bad : \A m \in Bad : k <= m
  <2>1. 0..n \in SUBSET Nat
    OBVIOUS
  <2>2. Bad \in SUBSET (0..n)
    OBVIOUS
  <2> HIDE DEF Bad
  <2> QED  BY <2>1, <2>2, LeastNatural
<1>2. k \in 1..n /\ k - 1 \in 0..n /\ ~(k <= k - 1)
  <2>1. k \in 0..n /\ k # 0
    BY <1>1
  <2> HIDE DEF Bad
  <2> QED  BY <2>1
<1>3. k - 1 \notin Bad
  <2> HIDE DEF Bad
  <2> QED  BY <1>1, <1>2
<1> QED  BY <1>1, <1>2, <1>3

Allocations(W) == [who : W, capital : Int]
Plans(W) == Seq(Allocations(W))

\* The partial sums of a plan.
SumStep(h, plan, s) == IF s = {} THEN 0 ELSE h[s \ {Max(s)}] + plan[Max(s)].capital
Summed(h, plan) == h = [s \in SUBSET (DOMAIN plan) |-> SumStep(h, plan, s)]

(* What a plan deals, place after place.                                   *)
LEMMA DealtRuns ==
  ASSUME NEW W, NEW plan \in Plans(W)
  PROVE  \E g \in [0..Len(plan) -> Int] :
           /\ g[0] = 0 /\ \A k \in 1..Len(plan) : g[k] = g[k - 1] + plan[k].capital
           /\ Dealt(plan) = g[Len(plan)]
<1> DEFINE n == Len(plan)
           F == [x \in Int \X Allocations(W) |-> x[1] + x[2].capital]
           pick == LastPlaces(n)
<1>1. n \in Nat /\ DOMAIN plan = 1..n /\ plan \in [1..n -> Allocations(W)]
  BY DEF Plans
<1>2. \A a \in Allocations(W) : a.capital \in Int
  BY DEF Allocations
<1>3. F \in [Int \X Allocations(W) -> Int]
  BY <1>2
<1>4. IsFiniteSet(1..n) /\ Picks(pick, 1..n)
  BY <1>1, LastPlaceOf
<1> HIDE DEF n
<1>5. PICK f \in [SUBSET (1..n) -> Int] : Folded(f, F, 0, pick, plan, 1..n)
  <2> HIDE DEF F, pick
  <2>1. /\ F \in [Int \X Allocations(W) -> Int] /\ 0 \in Int /\ IsFiniteSet(1..n)
        /\ plan \in [1..n -> Allocations(W)] /\ Picks(pick, 1..n)
    BY <1>1, <1>3, <1>4
  <2>2. \E f \in [SUBSET (1..n) -> Int] : Folded(f, F, 0, pick, plan, 1..n)
    BY ONLY <2>1, FoldExists, Zenon
  <2> QED  BY <2>2
<1>6. Summed(f, plan)
  <2>1. ASSUME NEW s \in SUBSET (1..n) PROVE f[s] = SumStep(f, plan, s)
    <3>1. CASE s = {}
      BY <1>5, <3>1 DEF Folded, SumStep
    <3>2. CASE s # {}
      <4>1. Max(s) \in 1..n /\ pick[s] = Max(s) /\ s \ {Max(s)} \in SUBSET (1..n)
        BY <1>4, <3>2 DEF Picks, LastPlaces
      <4>2. f[s] = F[<<f[s \ {Max(s)}], plan[Max(s)]>>]
        BY <1>5, <3>2, <4>1 DEF Folded
      <4>3. f[s \ {Max(s)}] \in Int /\ plan[Max(s)] \in Allocations(W)
        BY <1>1, <1>5, <4>1
      <4> QED  BY <3>2, <4>2, <4>3 DEF SumStep
    <3> QED  BY <3>1, <3>2
  <2>2. f = [s \in SUBSET (1..n) |-> f[s]]
    BY <1>5
  <2> QED  BY <1>1, <2>1, <2>2 DEF Summed
<1> DEFINE h == CHOOSE h : Summed(h, plan)
<1>7. Summed(h, plan)
  BY <1>6
<1>8. Dealt(plan) = h[DOMAIN plan]
  BY DEF Dealt, FoldLeft, MapThenFoldSet, Summed, SumStep
<1> HIDE DEF h
<1> DEFINE g == [k \in 0..n |-> h[1..k]]
<1>9. ASSUME NEW k \in 1..n PROVE g[k] = g[k - 1] + plan[k].capital
  <2>1. 1..k \in SUBSET (1..n) /\ (1..k) \ {k} = 1..(k - 1) /\ Max(1..k) = k
    BY <1>1, LastPlaceOf DEF LastPlaces
  <2>2. k \in 1..k /\ k - 1 \in 0..n /\ k \in 0..n
    BY <1>1
  <2>3. h[1..k] = h[(1..k) \ {k}] + plan[k].capital
    BY <1>1, <1>7, <2>1, <2>2 DEF Summed, SumStep
  <2> QED  BY <2>1, <2>2, <2>3
<1>10. g[0] = 0
  <2>1. 1..0 = {} /\ {} \in SUBSET (1..n) /\ 0 \in 0..n
    BY <1>1
  <2>2. h[{}] = 0
    BY <1>1, <1>7, <2>1 DEF Summed, SumStep
  <2>3. g[0] = h[1..0]
    BY <2>1
  <2> HIDE DEF g
  <2> QED  BY <2>1, <2>2, <2>3
<1>11. \A k \in 0..n : g[k] \in Int
  <2> DEFINE G == {k \in 0..n : g[k] \in Int}
  <2>1. 0 \in G
    BY <1>1, <1>10
  <2>2. \A k \in 1..n : k - 1 \in G => k \in G
    <3> TAKE k \in 1..n
    <3>1. plan[k].capital \in Int /\ k \in 0..n
      BY <1>1, <1>2
    <3> HIDE DEF g
    <3> QED  BY <1>9, <3>1
  <2> HIDE DEF G
  <2>3. \A k \in 0..n : k \in G
    BY <1>1, <2>1, <2>2, Climb
  <2> QED  BY <2>3 DEF G
<1>12. Dealt(plan) = g[n] /\ n \in 0..n
  BY <1>1, <1>8
<1>13. g = [k \in 0..n |-> g[k]]
  OBVIOUS
<1> HIDE DEF g
<1>14. g \in [0..n -> Int]
  BY <1>11, <1>13
<1> QED  BY <1>9, <1>10, <1>12, <1>14 DEF n

(* One more allocation adds its capital.                                   *)
LEMMA DealtMore ==
  ASSUME NEW W, NEW plan \in Plans(W), NEW a \in Allocations(W)
  PROVE  /\ Append(plan, a) \in Plans(W) /\ Len(Append(plan, a)) = Len(plan) + 1
         /\ Dealt(plan) \in Int /\ Dealt(Append(plan, a)) = Dealt(plan) + a.capital
<1> DEFINE n == Len(plan)
           more == Append(plan, a)
<1>1. /\ more \in Plans(W) /\ n \in Nat /\ Len(more) = n + 1 /\ more[n + 1] = a
      /\ \A k \in 1..n : more[k] = plan[k]
  BY DEF Plans
<1>2. PICK g \in [0..n -> Int] : /\ g[0] = 0 /\ \A k \in 1..n : g[k] = g[k - 1] + plan[k].capital
                                 /\ Dealt(plan) = g[n]
  BY DealtRuns
<1> HIDE DEF more, n
<1>3. PICK f \in [0..(n + 1) -> Int] :
        /\ f[0] = 0 /\ \A k \in 1..(n + 1) : f[k] = f[k - 1] + more[k].capital
        /\ Dealt(more) = f[n + 1]
  BY <1>1, DealtRuns
<1>4. \A k \in 0..n : f[k] = g[k]
  <2> DEFINE G == {k \in 0..n : f[k] = g[k]}
  <2>1. 0 \in G
    BY <1>1, <1>2, <1>3
  <2>2. ASSUME NEW k \in 1..n, k - 1 \in G PROVE k \in G
    <3>1. k \in 1..(n + 1) /\ k \in 0..n
      BY <1>1
    <3> QED  BY <1>1, <1>2, <1>3, <2>2, <3>1
  <2> HIDE DEF G
  <2>3. \A k \in 0..n : k \in G
    BY <1>1, <2>1, <2>2, Climb
  <2> QED  BY <2>3 DEF G
<1>5. Dealt(more) = Dealt(plan) + a.capital
  <2>1. n + 1 \in 1..(n + 1) /\ n \in 0..n /\ (n + 1) - 1 = n
    BY <1>1
  <2>2. f[n + 1] = f[n] + more[n + 1].capital
    BY <1>3, <2>1
  <2> QED  BY <1>1, <1>2, <1>3, <1>4, <2>1, <2>2
<1>6. Dealt(plan) \in Int
  BY <1>1, <1>2
<1> QED  BY <1>1, <1>5, <1>6 DEF more, n

LEMMA DealtNothing == Dealt(<<>>) = 0
<1>1. <<>> \in Plans({}) /\ Len(<<>>) = 0
  BY DEF Plans
<1> QED  BY <1>1, DealtRuns

-----------------------------------------------------------------------------
(* The plan, token after token.                                            *)

\* The plans the deal goes through.
DealStep(h, o, size, slots, p, s) ==
  IF s = {} THEN <<>> ELSE Deal(h[s \ {Max(s)}], o[Max(s)], size[o[Max(s)]], slots, p)
DealsAre(h, o, size, slots, p) ==
  h = [s \in SUBSET (DOMAIN o) |-> DealStep(h, o, size, slots, p, s)]

LEMMA DealRuns ==
  ASSUME NEW C, IsFiniteSet(C), NEW p, Linear(C, p), NEW size \in [C -> Int], NEW slots
  PROVE  LET o == ServingOrder(C, p)
             n == Cardinality(C) IN
         \E g \in [0..n -> Plans(C)] :
           /\ g[0] = <<>> /\ \A k \in 1..n : g[k] = Deal(g[k - 1], o[k], size[o[k]], slots, p)
           /\ DealInOrder(C, size, slots, p) = g[n]
<1> DEFINE o == ServingOrder(C, p)
           n == Cardinality(C)
           F == [x \in Plans(C) \X C |-> Deal(x[1], x[2], size[x[2]], slots, p)]
           pick == LastPlaces(n)
<1>1. n \in Nat /\ DOMAIN o = 1..n /\ o \in [1..n -> C]
  BY InServingOrder DEF Serves
<1>2. ASSUME NEW plan \in Plans(C), NEW c \in C
      PROVE  Deal(plan, c, size[c], slots, p) \in Plans(C)
  <2>1. [who |-> c, capital |-> size[c]] \in Allocations(C)
    BY DEF Allocations
  <2> QED  BY <2>1, DealtMore DEF Deal
<1>3. F \in [Plans(C) \X C -> Plans(C)]
  BY <1>2
<1>4. IsFiniteSet(1..n) /\ Picks(pick, 1..n)
  BY <1>1, LastPlaceOf
<1> HIDE DEF n, o
<1>5. PICK f \in [SUBSET (1..n) -> Plans(C)] : Folded(f, F, <<>>, pick, o, 1..n)
  <2> HIDE DEF F, pick
  <2>1. <<>> \in Plans(C)
    BY DEF Plans
  <2> QED  BY ONLY <2>1, <1>1, <1>3, <1>4, FoldExists, Zenon
<1>6. DealsAre(f, o, size, slots, p)
  <2>1. ASSUME NEW s \in SUBSET (1..n) PROVE f[s] = DealStep(f, o, size, slots, p, s)
    <3>1. CASE s = {}
      BY <1>5, <3>1 DEF Folded, DealStep
    <3>2. CASE s # {}
      <4>1. Max(s) \in 1..n /\ pick[s] = Max(s) /\ s \ {Max(s)} \in SUBSET (1..n)
        BY <1>4, <3>2 DEF Picks, LastPlaces
      <4>2. f[s] = F[<<f[s \ {Max(s)}], o[Max(s)]>>]
        BY <1>5, <3>2, <4>1 DEF Folded
      <4>3. f[s \ {Max(s)}] \in Plans(C) /\ o[Max(s)] \in C
        BY <1>1, <1>5, <4>1
      <4> QED  BY <3>2, <4>2, <4>3 DEF DealStep
    <3> QED  BY <3>1, <3>2
  <2>2. f = [s \in SUBSET (1..n) |-> f[s]]
    BY <1>5
  <2> QED  BY <1>1, <2>1, <2>2 DEF DealsAre
<1> DEFINE h == CHOOSE h : DealsAre(h, o, size, slots, p)
<1>7. DealsAre(h, o, size, slots, p)
  BY <1>6
<1>8. DealInOrder(C, size, slots, p) = h[DOMAIN o]
  BY DEF DealInOrder, FoldLeft, MapThenFoldSet, DealsAre, DealStep, o
<1> HIDE DEF h
<1> DEFINE g == [k \in 0..n |-> h[1..k]]
<1>9. ASSUME NEW k \in 1..n PROVE g[k] = Deal(g[k - 1], o[k], size[o[k]], slots, p)
  <2>1. 1..k \in SUBSET (1..n) /\ (1..k) \ {k} = 1..(k - 1) /\ Max(1..k) = k
    BY <1>1, LastPlaceOf DEF LastPlaces
  <2>2. k \in 1..k /\ k - 1 \in 0..n /\ k \in 0..n
    BY <1>1
  <2>3. h[1..k] = Deal(h[(1..k) \ {k}], o[k], size[o[k]], slots, p)
    BY <1>1, <1>7, <2>1, <2>2 DEF DealsAre, DealStep
  <2> QED  BY <2>1, <2>2, <2>3
<1>10. g[0] = <<>>
  <2>1. 1..0 = {} /\ {} \in SUBSET (1..n) /\ 0 \in 0..n
    BY <1>1
  <2>2. h[{}] = <<>>
    BY <1>1, <1>7, <2>1 DEF DealsAre, DealStep
  <2>3. g[0] = h[1..0]
    BY <2>1
  <2> HIDE DEF g
  <2> QED  BY <2>1, <2>2, <2>3
<1>11. \A k \in 0..n : g[k] \in Plans(C)
  <2> DEFINE G == {k \in 0..n : g[k] \in Plans(C)}
  <2>1. 0 \in G
    <3>1. <<>> \in Plans(C)
      BY DEF Plans
    <3> HIDE DEF g
    <3> QED  BY <1>1, <1>10, <3>1
  <2>2. \A k \in 1..n : k - 1 \in G => k \in G
    <3> TAKE k \in 1..n
    <3>1. o[k] \in C /\ k \in 0..n
      BY <1>1
    <3> HIDE DEF g
    <3> QED  BY <1>2, <1>9, <3>1
  <2> HIDE DEF G
  <2>3. \A k \in 0..n : k \in G
    BY <1>1, <2>1, <2>2, Climb
  <2> QED  BY <2>3 DEF G
<1>12. DealInOrder(C, size, slots, p) = g[n] /\ n \in 0..n
  BY <1>1, <1>8
<1>13. g = [k \in 0..n |-> g[k]]
  OBVIOUS
<1> HIDE DEF g
<1>14. g \in [0..n -> Plans(C)]
  BY <1>11, <1>13
<1> QED  BY <1>9, <1>10, <1>12, <1>14 DEF n, o

\* A plan within the slots and the dollars, that serves nobody twice.
Fits(plan, slots, p) == plan = <<>> \/ (Len(plan) <= slots /\ Dealt(plan) <= Deployable(p))
OnceEach(plan) == \A i, j \in DOMAIN plan : plan[i].who = plan[j].who => i = j

LEMMA DealFits ==
  ASSUME NEW C, IsFiniteSet(C), NEW p, Linear(C, p), NEW size \in [C -> Int], NEW slots \in Int,
         Deployable(p) \in Int
  PROVE  LET plan == DealInOrder(C, size, slots, p) IN
         plan \in Plans(C) /\ Fits(plan, slots, p) /\ OnceEach(plan)
<1> DEFINE o == ServingOrder(C, p)
           n == Cardinality(C)
<1>1. n \in Nat /\ o \in [1..n -> C] /\ \A i, j \in 1..n : o[i] = o[j] => i = j
  <2>1. Serves(o, C, p) /\ n \in Nat
    BY InServingOrder
  <2>2. ASSUME NEW i \in 1..n, NEW j \in 1..n, o[i] = o[j] PROVE i = j
    <3>1. o[i] \in C /\ ~DealtBefore(p, o[i], o[j]) /\ ~DealtBefore(p, o[j], o[i])
      BY <2>1, <2>2 DEF Serves, Linear
    <3>2. ~(i < j) /\ ~(j < i) /\ i \in Int /\ j \in Int
      BY <2>1, <3>1 DEF Serves
    <3> QED  BY <3>2
  <2> QED  BY <2>1, <2>2 DEF Serves
<1>2. PICK g \in [0..n -> Plans(C)] :
        /\ g[0] = <<>> /\ \A k \in 1..n : g[k] = Deal(g[k - 1], o[k], size[o[k]], slots, p)
        /\ DealInOrder(C, size, slots, p) = g[n]
  BY DealRuns
<1> HIDE DEF o, n
<1> DEFINE InTurn(plan, k) == \A i \in DOMAIN plan : \E m \in 1..k : plan[i].who = o[m]
           G == {k \in 0..n : Fits(g[k], slots, p) /\ OnceEach(g[k]) /\ InTurn(g[k], k)}
<1>3. 0 \in G
  <2>1. 0 \in 0..n /\ g[0] = <<>> /\ DOMAIN <<>> = {}
    BY <1>1, <1>2
  <2>2. Fits(g[0], slots, p)
    BY <2>1 DEF Fits
  <2>3. OnceEach(g[0])
    BY <2>1 DEF OnceEach
  <2>4. InTurn(g[0], 0)
    BY <2>1
  <2>5. 0 \in 0..n
    BY <2>1
  <2> HIDE DEF InTurn
  <2> QED  BY <2>2, <2>3, <2>4, <2>5
<1>4. ASSUME NEW k \in 1..n, k - 1 \in G PROVE k \in G
  <2> DEFINE d == g[k - 1]
             a == [who |-> o[k], capital |-> size[o[k]]]
  <2>1. /\ k \in 0..n /\ k - 1 \in 0..n /\ d \in Plans(C) /\ o[k] \in C
        /\ Fits(d, slots, p) /\ OnceEach(d) /\ InTurn(d, k - 1)
    BY <1>1, <1>4
  <2>2. a \in Allocations(C)
    BY <2>1 DEF Allocations
  <2>3. g[k] = Deal(d, o[k], size[o[k]], slots, p)
    BY <1>2
  <2>4. CASE g[k] = d
    <3>1. \A m \in 1..(k - 1) : m \in 1..k
      OBVIOUS
    <3> HIDE DEF d
    <3>2. InTurn(d, k)
      BY <2>1, <3>1
    <3> QED  BY <2>1, <2>4, <3>2
  <2>5. CASE g[k] = Append(d, a) /\ Room(d, size[o[k]], slots, p)
    <3> HIDE DEF d
    <3>1. /\ Len(d) \in Nat /\ DOMAIN d = 1..Len(d)
          /\ DOMAIN Append(d, a) = 1..(Len(d) + 1) /\ Append(d, a)[Len(d) + 1] = a
          /\ \A i \in 1..Len(d) : Append(d, a)[i] = d[i]
      BY <2>1, <2>2 DEF Plans
    <3>2. Fits(Append(d, a), slots, p)
      <4>1. /\ Len(Append(d, a)) = Len(d) + 1 /\ Dealt(d) \in Int
            /\ Dealt(Append(d, a)) = Dealt(d) + size[o[k]]
        BY <2>1, <2>2, DealtMore
      <4> QED  BY <2>5, <3>1, <4>1 DEF Fits, Room
    <3>3. \A i \in 1..Len(d) : \E m \in 1..(k - 1) : d[i].who = o[m]
      BY <2>1, <3>1
    <3>4. \A i \in 1..Len(d) : d[i].who # o[k]
      <4> TAKE i \in 1..Len(d)
      <4>1. PICK m \in 1..(k - 1) : d[i].who = o[m]
        BY <3>3
      <4>2. m \in 1..n /\ m # k
        BY <1>1
      <4> QED  BY <1>1, <4>1, <4>2
    <3>5. OnceEach(Append(d, a))
      <4>1. \A i \in 1..(Len(d) + 1) : i \in 1..Len(d) \/ i = Len(d) + 1
        BY <3>1
      <4> QED  BY <2>1, <3>1, <3>4, <4>1 DEF OnceEach
    <3>6. InTurn(Append(d, a), k)
      <4> TAKE i \in DOMAIN Append(d, a)
      <4>1. CASE i \in 1..Len(d)
        <5>1. PICK m \in 1..(k - 1) : d[i].who = o[m]
          BY <3>3, <4>1
        <5>2. m \in 1..k
          OBVIOUS
        <5> QED  BY <3>1, <4>1, <5>1, <5>2
      <4>2. CASE i = Len(d) + 1
        <5>1. k \in 1..k
          OBVIOUS
        <5> QED  BY <3>1, <4>2, <5>1
      <4> QED  BY <3>1, <4>1, <4>2
    <3> QED  BY <2>1, <2>5, <3>2, <3>5, <3>6
  <2> QED  BY <2>3, <2>4, <2>5 DEF Deal
<1> HIDE DEF G
<1>5. n \in G
  <2>1. \A k \in 0..n : k \in G
    BY <1>1, <1>3, <1>4, Climb
  <2> QED  BY <1>1, <2>1
<1> QED  BY <1>1, <1>2, <1>5 DEF G

-----------------------------------------------------------------------------
(* What a ranking hands to the allocator.                                  *)

\* A ranking: no token twice, each one to be ordered, and none both a candidate
\* and switched off.
Usable(r) ==
  /\ IsFiniteSet(r.candidates) /\ Apart(r.candidates) /\ \A c \in r.candidates : Readable(c)
  /\ \A c \in r.candidates, o \in r.switchedOff : c.s.address # o.s.address

\* A universe that can be ranked.
Rankable(U, quality) ==
  /\ IsFiniteSet(U) /\ \A s, t \in U : s.address = t.address => s = t
  /\ \A s \in U : /\ s.address \in Int /\ s.volatility \in Asking(Int)
                  /\ quality[s.address] \in Maybe(Qualities)

LEMMA RankedIsReadable ==
  ASSUME NEW s, NEW p, NEW previous, NEW quality, s.address \in Int, s.volatility \in Asking(Int),
         quality[s.address] \in Maybe(Qualities)
  PROVE  Readable(Ranked(s, p, previous, quality)) /\ Ranked(s, p, previous, quality).s = s
<1> DEFINE q == quality[s.address]
           c == Components(s, previous[s.address], q)
           r == Ranked(s, p, previous, quality)
<1>1. \A x \in Int : Clamp01(x) \in Int
  BY DEF Clamp01, Unit
<1>2. CostEfficiency(q) \in Int
  <2>1. CASE q = Null
    BY <2>1 DEF CostEfficiency, Unit
  <2>2. CASE q # Null
    <3>1. q.spread \in Int /\ q.slippage \in Int
      BY <2>2 DEF Maybe, Qualities
    <3>2. Unit - (2 * Unit * (q.spread + q.slippage)) \div WorstRoundTrip \in Int
      BY <3>1 DEF Unit, WorstRoundTrip
    <3> QED  BY <1>1, <2>2, <3>2 DEF CostEfficiency
  <2> QED  BY <2>1, <2>2
<1>3. Momentum(s) \in Int /\ Headroom(s) \in Int
  BY DEF Momentum, Headroom, On, Unit
<1>4. c.costEfficiency = CostEfficiency(q) /\ c.momentum = Momentum(s) /\ c.headroom = Headroom(s)
  BY DEF Components
<1>5. Score(c) \in Int
  <2> HIDE DEF c, q
  <2>1. 5 * c.momentum + 3 * c.headroom + 3 * c.costEfficiency \in Int
    BY <1>2, <1>3, <1>4
  <2> QED  BY <2>1 DEF Score
<1>6. VolatilityRank(s) \in Int
  BY DEF VolatilityRank, Known, Asking
<1>7. r.s = s /\ r.score = Score(c) /\ r.cost = c.costEfficiency
  BY DEF Ranked
<1> HIDE DEF r, c, q
<1> QED  BY <1>2, <1>4, <1>5, <1>6, <1>7 DEF Readable, r

\* Those of a ranking that are worth buying, before the cut.
Worth(U, p, previous, quality) ==
  LET scored == {Ranked(s, p, previous, quality) : s \in U}
      worth  == {r \in scored \ {r \in scored : Refused(r.s, p)} : r.score >= p.minScore}
  IN worth \ {r \in worth : SwitchFails(r, p) # {}}

LEMMA WorthIsCut ==
  ASSUME NEW U, NEW p, NEW places, NEW previous, NEW quality
  PROVE  RankUniverse(U, p, places, previous, quality).candidates
           = CutToFreeSlots(Worth(U, p, previous, quality), places.slots, places.held, p)
BY DEF RankUniverse, Worth

(* Of no token more than one is ranked, each can be ordered, and with no   *)
(* reserve every one that is worth buying qualified.                       *)
LEMMA RankedApart ==
  ASSUME NEW U, NEW p, NEW previous, NEW quality, Rankable(U, quality)
  PROVE  LET scored == {Ranked(s, p, previous, quality) : s \in U}
             W      == Worth(U, p, previous, quality) IN
         /\ Apart(scored) /\ \A c \in scored : Readable(c)
         /\ W \in SUBSET scored /\ IsFiniteSet(W) /\ Cardinality(W) <= Cardinality(U)
         /\ ~p.forgives => \A c \in W : c.forgiven = FALSE
<1> DEFINE R(s) == Ranked(s, p, previous, quality)
           f == [s \in U |-> R(s)]
           scored == {R(s) : s \in U}
           W == Worth(U, p, previous, quality)
<1>1. \A s \in U : Readable(R(s)) /\ R(s).s = s /\ R(s).forgiven = (EvaluateGates(s, p) # {})
  <2> TAKE s \in U
  <2>1. s.address \in Int /\ s.volatility \in Asking(Int) /\ quality[s.address] \in Maybe(Qualities)
    BY DEF Rankable
  <2>2. R(s).forgiven = (EvaluateGates(s, p) # {})
    BY DEF Ranked
  <2> QED  BY <2>1, <2>2, RankedIsReadable
<1>2. IsFiniteSet(scored) /\ Cardinality(scored) <= Cardinality(U)
  <2>1. f \in Surjection(U, scored)
    BY DEF Surjection
  <2>2. IsFiniteSet(U)
    BY DEF Rankable
  <2> HIDE DEF f, scored
  <2> QED  BY <2>1, <2>2, FS_Surjection
<1>3. Apart(scored)
  <2> HIDE DEF R
  <2> QED  BY <1>1 DEF Rankable, Apart
<1>4. \A c \in scored : Readable(c)
  BY <1>1
<1>5. W \in SUBSET scored
  BY DEF Worth
<1>6. ~p.forgives => \A c \in W : c.forgiven = FALSE
  <2> SUFFICES ASSUME ~p.forgives, NEW c \in W PROVE c.forgiven = FALSE
    OBVIOUS
  <2>1. c \in scored /\ ~Refused(c.s, p)
    BY DEF Worth
  <2>2. EvaluateGates(c.s, p) = {}
    BY <2>1 DEF Refused, IsForgiven
  <2>3. PICK s \in U : c = R(s)
    BY <2>1
  <2> HIDE DEF R
  <2> QED  BY <1>1, <2>2, <2>3
<1>7. IsFiniteSet(W) /\ Cardinality(W) <= Cardinality(U)
  <2>1. IsFiniteSet(W) /\ Cardinality(W) <= Cardinality(scored)
    <3> HIDE DEF scored, W
    <3> QED  BY <1>2, <1>5, FS_Subset
  <2>2. Cardinality(W) \in Nat /\ Cardinality(scored) \in Nat /\ Cardinality(U) \in Nat
    <3>1. IsFiniteSet(U)
      BY DEF Rankable
    <3> HIDE DEF scored, W
    <3> QED  BY <1>2, <2>1, <3>1, FS_CardinalityType
  <2> HIDE DEF scored, W
  <2> QED  BY <1>2, <2>1, <2>2
<1> QED  BY <1>3, <1>4, <1>5, <1>6, <1>7

LEMMA UniverseIsUsable ==
  ASSUME NEW U, NEW p, NEW places, NEW previous, NEW quality, Rankable(U, quality)
  PROVE  Usable(RankUniverse(U, p, places, previous, quality))
<1> DEFINE scored == {Ranked(s, p, previous, quality) : s \in U}
           W == Worth(U, p, previous, quality)
           result == RankUniverse(U, p, places, previous, quality)
<1>1. /\ Apart(scored) /\ \A c \in scored : Readable(c)
      /\ W \in SUBSET scored /\ IsFiniteSet(W)
  <2>1. Rankable(U, quality)
    OBVIOUS
  <2>2. LET scored1 == {Ranked(s, p, previous, quality) : s \in U}
            W1      == Worth(U, p, previous, quality) IN
        /\ Apart(scored1) /\ \A c \in scored1 : Readable(c)
        /\ W1 \in SUBSET scored1 /\ IsFiniteSet(W1) /\ Cardinality(W1) <= Cardinality(U)
        /\ ~p.forgives => \A c \in W1 : c.forgiven = FALSE
    BY ONLY <2>1, RankedApart
  <2> QED  BY <2>2
<1>2. result.candidates \in SUBSET W
  <2>1. result.candidates = CutToFreeSlots(W, places.slots, places.held, p)
    BY WorthIsCut
  <2> HIDE DEF W, result
  <2> QED  BY <2>1 DEF CutToFreeSlots
<1>3. result.switchedOff \in SUBSET scored /\ \A c \in W : c \notin result.switchedOff
  BY DEF RankUniverse, Worth
<1> HIDE DEF scored, W, result
<1>4. IsFiniteSet(result.candidates)
  BY <1>1, <1>2, FS_Subset
<1> QED  BY <1>1, <1>2, <1>3, <1>4 DEF Usable, Apart, result

LEMMA NobodyIsUsable == Usable(Nobody)
  BY FS_EmptySet DEF Usable, Nobody, Apart

\* The shelf of a pass in today's market.
ShelfNow(q) == LiveShelf(q.universe, q.live)

(* The shelf can be ranked as well as the universe of a scan.              *)
LEMMA ShelfIsRankable ==
  ASSUME PassAssumption, NEW q \in PassQuestions
  PROVE  /\ Rankable(ShelfNow(q), ShelfQualities(ShelfNow(q), q.p, q.live, q.measured))
         /\ Cardinality(ShelfNow(q)) <= Cardinality(q.universe)
<1> DEFINE p == q.p
           Live(s) == WithLiveMarket(s, q.live[s.address])
           now == ShelfNow(q)
           quality == ShelfQualities(now, p, q.live, q.measured)
           f == [s \in q.universe |-> Live(s)]
<1>0. now = {Live(s) : s \in q.universe}
  BY DEF ShelfNow, LiveShelf
<1>1. ASSUME NEW s \in q.universe
      PROVE  /\ Live(s).address = s.address /\ Live(s).volatility = s.volatility
             /\ Live(s).liquidity \in Int
             /\ s.address \in Int /\ s.volatility \in Asking(Int) /\ s.address \in DOMAIN q.live
             /\ q.measured[s.address] \in Maybe(Int)
  <2>1. /\ s \in Snapshots /\ q.live[s.address] \in Maybe(Snapshots) /\ s.address \in DOMAIN q.live
        /\ q.measured[s.address] \in Maybe(Int)
    BY DEF PassAssumption
  <2>2. /\ s.address \in Int /\ s.volatility \in Asking(Int) /\ s.liquidity \in Int
        /\ {"address", "volatility", "liquidity"} \subseteq DOMAIN s
    BY <2>1 DEF Snapshots, SnapshotsWith
  <2>3. CASE q.live[s.address] = Null
    BY <2>1, <2>2, <2>3 DEF WithLiveMarket
  <2>4. CASE q.live[s.address] # Null
    <3>1. q.live[s.address].liquidity \in Int
      BY <2>1, <2>4 DEF Maybe, Snapshots, SnapshotsWith
    <3>2. Live(s) = [g \in DOMAIN s |-> IF g \in MarketHalf THEN q.live[s.address][g] ELSE s[g]]
      BY <2>4 DEF WithLiveMarket
    <3>3. /\ Live(s).address = s.address /\ Live(s).volatility = s.volatility
          /\ Live(s).liquidity = q.live[s.address].liquidity
      BY <2>2, <3>2 DEF MarketHalf
    <3> QED  BY <2>1, <2>2, <3>1, <3>3
  <2> QED  BY <2>3, <2>4
<1>2. IsFiniteSet(now) /\ Cardinality(now) <= Cardinality(q.universe)
  <2>1. IsFiniteSet(q.universe)
    BY DEF PassAssumption
  <2>2. f \in Surjection(q.universe, now)
    BY <1>0 DEF Surjection
  <2> HIDE DEF f, now
  <2> QED  BY <2>1, <2>2, FS_Surjection
<1>3. \A s, t \in q.universe : s.address = t.address => s = t
  BY DEF PassAssumption
<1>4. \A s, t \in now : s.address = t.address => s = t
  <2> HIDE DEF Live, now
  <2> QED  BY <1>0, <1>1, <1>3
<1>5. ASSUME NEW s \in now PROVE quality[s.address] \in Maybe(Qualities)
  <2>1. PICK u \in q.universe : s = Live(u)
    BY <1>0
  <2>2. /\ s.address \in DOMAIN q.live /\ s.liquidity \in Int /\ s.address = u.address
        /\ q.measured[s.address] \in Maybe(Int)
    BY <1>1, <2>1
  <2>3. (CHOOSE t \in now : t.address = s.address) = s
    <3> HIDE DEF now
    <3> QED  BY <1>4
  <2>4. quality[s.address] = ShelfQuality(s, p, q.measured)
    <3> HIDE DEF now
    <3> QED  BY <2>2, <2>3 DEF ShelfQualities
  <2>5. p.spread \in Int /\ p.reference \in Int
    BY DEF PassAssumption
  <2> DEFINE cents == 100000 * s.liquidity
  <2>6. /\ cents \in Int
        /\ (IF q.measured[s.address] # Null THEN q.measured[s.address]
            ELSE IF cents > 0 THEN (20000 * p.reference) \div cents ELSE 10000) \in Int
    <3>1. cents \in Int
      BY <2>2
    <3> HIDE DEF cents
    <3>2. cents > 0 => (20000 * p.reference) \div cents \in Int
      BY <2>5, <3>1
    <3> QED  BY <2>2, <3>1, <3>2 DEF Maybe
  <2>7. ShelfQuality(s, p, q.measured) \in Qualities
    BY <2>5, <2>6 DEF ShelfQuality, Qualities
  <2> HIDE DEF quality
  <2> QED  BY <2>4, <2>7 DEF Maybe
<1>6. Rankable(now, quality)
  <2>1. \A s \in now : s.address \in Int /\ s.volatility \in Asking(Int)
    <3> HIDE DEF Live, now
    <3> QED  BY <1>0, <1>1
  <2> HIDE DEF now, quality
  <2> QED  BY <1>2, <1>4, <1>5, <2>1 DEF Rankable
<1> QED  BY <1>2, <1>6

LEMMA UniverseIsRankable ==
  ASSUME PassAssumption, NEW q \in PassQuestions
  PROVE  Rankable(q.universe, q.quality)
<1>1. \A s \in q.universe : s.address \in Int /\ s.volatility \in Asking(Int)
  <2>1. q.universe \subseteq Snapshots
    BY DEF PassAssumption
  <2> QED  BY <2>1 DEF Snapshots, SnapshotsWith
<1> QED  BY <1>1 DEF Rankable, PassAssumption

\* The places of a pass.
PlacesOf(q, slots) == [slots |-> slots, held |-> {h.token : h \in q.book}]

(* A pass ranks nobody, or a set of tokens that does not depend on its     *)
(* slots.                                                                  *)
LEMMA WhatIsRanked ==
  ASSUME PassAssumption, NEW q \in PassQuestions
  PROVE  \/ \A slots : RankingOf(q, slots) = Nobody
         \/ \E U, previous, quality :
              /\ Rankable(U, quality) /\ Cardinality(U) <= Cardinality(q.universe)
              /\ \A slots : RankingOf(q, slots) = RankUniverse(U, q.p, PlacesOf(q, slots), previous, quality)
<1> DEFINE now == ShelfNow(q)
           quality == ShelfQualities(now, q.p, q.live, q.measured)
<1>1. CASE q.p.full
  <2>1. \A slots : RankingOf(q, slots)
                     = RankUniverse(q.universe, q.p, PlacesOf(q, slots), [a \in DOMAIN q.quality |-> Null], q.quality)
    BY <1>1 DEF RankingOf, PlacesOf
  <2>2. Rankable(q.universe, q.quality) /\ Cardinality(q.universe) <= Cardinality(q.universe)
    <3>1. Cardinality(q.universe) \in Nat
      BY FS_CardinalityType DEF PassAssumption
    <3> QED  BY <3>1, UniverseIsRankable
  <2> QED  BY <2>1, <2>2
<1>2. CASE ~q.p.full /\ (q.universe = {} \/ q.age > q.p.maxShelfAge)
  BY <1>2 DEF RankingOf, RecallCandidates
<1>3. CASE ~q.p.full /\ ~(q.universe = {} \/ q.age > q.p.maxShelfAge)
  <2>1. \A slots : RankingOf(q, slots)
                     = RankUniverse(now, q.p, PlacesOf(q, slots), [a \in DOMAIN q.live |-> Null], quality)
    BY <1>3 DEF RankingOf, RecallCandidates, PlacesOf, ShelfNow
  <2>2. Rankable(now, quality) /\ Cardinality(now) <= Cardinality(q.universe)
    BY ShelfIsRankable
  <2> HIDE DEF now, quality
  <2> QED  BY <2>1, <2>2
<1> QED  BY <1>1, <1>2, <1>3

(* The ranking a pass works with, full or of the shelf.                    *)
LEMMA RankingIsUsable ==
  ASSUME PassAssumption, NEW q \in PassQuestions, NEW slots
  PROVE  Usable(RankingOf(q, slots))
<1>1. CASE \A k : RankingOf(q, k) = Nobody
  BY <1>1, NobodyIsUsable
<1>2. ASSUME NEW U, NEW previous, NEW quality, Rankable(U, quality),
             \A k : RankingOf(q, k) = RankUniverse(U, q.p, PlacesOf(q, k), previous, quality)
      PROVE  Usable(RankingOf(q, slots))
  BY <1>2, UniverseIsUsable
<1> QED  BY <1>1, <1>2, WhatIsRanked

-----------------------------------------------------------------------------
(* The plan fits.                                                          *)

LEMMA LargerOfTwo ==
  ASSUME NEW a \in Int, NEW b \in Int
  PROVE  Max({a, b}) = IF a >= b THEN a ELSE b
<1> DEFINE m == IF a >= b THEN a ELSE b
<1>1. \A x \in {a, b} : (\A y \in {a, b} : x >= y) <=> x = m
  OBVIOUS
<1>2. m \in {a, b}
  OBVIOUS
<1> HIDE DEF m
<1>3. Max({a, b}) = m
  BY <1>1, <1>2 DEF Max
<1> QED  BY <1>3 DEF m

LEMMA SmallerOfTwo ==
  ASSUME NEW a \in Int, NEW b \in Int
  PROVE  Min({a, b}) = IF a <= b THEN a ELSE b
<1> DEFINE m == IF a <= b THEN a ELSE b
<1>1. \A x \in {a, b} : (\A y \in {a, b} : x <= y) <=> x = m
  OBVIOUS
<1>2. m \in {a, b}
  OBVIOUS
<1> HIDE DEF m
<1>3. Min({a, b}) = m
  BY <1>1, <1>2 DEF Min
<1> QED  BY <1>3 DEF m

LEMMA SmallestOfThree ==
  ASSUME NEW a \in Int, NEW b \in Int, NEW c \in Int
  PROVE  LET m == Min({a, b, c}) IN m \in {a, b, c} /\ m <= a /\ m <= b /\ m <= c
<1> DEFINE Least(x) == x \in {a, b, c} /\ \A y \in {a, b, c} : x <= y
<1>1. Least(a) \/ Least(b) \/ Least(c)
  OBVIOUS
<1>2. \E x \in {a, b, c} : \A y \in {a, b, c} : x <= y
  BY <1>1
<1>3. Min({a, b, c}) \in {a, b, c} /\ \A y \in {a, b, c} : Min({a, b, c}) <= y
  BY <1>2 DEF Min
<1> QED  BY <1>3

\* The policy of a plan.
Planned(p) ==
  /\ p.order \in Orders /\ p.minTier \in DOMAIN TierUsd
  /\ p.total \in Nat /\ p.basis \in Int /\ p.reserve \in Nat /\ p.maxPosition \in Nat
  /\ p.target \in Int /\ p.minPosition \in Nat \ {0} /\ p.maxPositions \in Nat

LEMMA MoneyToDeal ==
  ASSUME NEW p, Planned(p)
  PROVE  /\ Deployable(p) \in Int /\ Deployable(p) <= p.total
         /\ SlotSize(p) \in Nat \ {0} /\ AffordableSlots(p) \in Int
         /\ \A slots \in Nat \ {0} : PerSlot(p, slots) \in Int
<1>1. \A x, y \in Int : x * y \in Int
  OBVIOUS
<1>2. \A x, y \in Nat : x * y \in Nat
  OBVIOUS
<1>3. \A x \in Int : x \div Whole \in Int
  BY DEF Whole
<1>4. \A x \in Nat : x \div Whole \in Nat
  BY DEF Whole
<1>5. Pct(p.total, p.reserve) \in Nat
  <2>1. p.total * p.reserve \in Nat
    BY <1>2 DEF Planned
  <2> QED  BY <1>4, <2>1 DEF Pct
<1>6. ConcentrationCap(p) \in Int
  <2>1. p.basis * p.maxPosition \in Int
    BY <1>1 DEF Planned
  <2> QED  BY <1>3, <2>1 DEF ConcentrationCap, Pct
<1>7. Deployable(p) \in Int /\ Deployable(p) <= p.total
  BY <1>5 DEF Deployable, Planned
<1>8. SlotSize(p) \in Nat \ {0}
  <2>1. Min({p.target, ConcentrationCap(p)}) \in Int
    BY <1>6, SmallerOfTwo DEF Planned
  <2>2. p.minPosition \in Nat \ {0}
    BY DEF Planned
  <2>3. SlotSize(p) = IF Min({p.target, ConcentrationCap(p)}) >= p.minPosition
                      THEN Min({p.target, ConcentrationCap(p)}) ELSE p.minPosition
    BY <2>1, <2>2, LargerOfTwo DEF SlotSize
  <2> QED  BY <2>1, <2>2, <2>3
<1>9. AffordableSlots(p) \in Int
  BY <1>7, <1>8 DEF AffordableSlots
<1>10. ASSUME NEW slots \in Nat \ {0} PROVE PerSlot(p, slots) \in Int
  <2>1. Deployable(p) \div slots \in Int /\ p.target \in Int
    BY <1>7 DEF Planned
  <2>2. Min({Deployable(p) \div slots, p.target, ConcentrationCap(p)}) \in Int
    <3> DEFINE d == Deployable(p) \div slots
    <3>1. d \in Int
      BY <2>1
    <3> HIDE DEF d
    <3>2. Min({d, p.target, ConcentrationCap(p)}) \in {d, p.target, ConcentrationCap(p)}
      BY <1>6, <2>1, <3>1, SmallestOfThree
    <3>3. Min({d, p.target, ConcentrationCap(p)}) \in Int
      BY <1>6, <2>1, <3>1, <3>2
    <3> QED  BY <3>3 DEF d
  <2>3. p.minPosition \in Int
    BY DEF Planned
  <2> QED  BY <2>2, <2>3, LargerOfTwo DEF PerSlot
<1> QED  BY <1>7, <1>8, <1>9, <1>10

LEMMA TierSizes ==
  ASSUME NEW s, NEW lowest \in DOMAIN TierUsd
  PROVE  AdmittedUsd(s, lowest) \in Int
<1>1. TierOf(s) \in {"dangerous", "normal", "good", "safe"}
  BY DEF TierOf
<1>2. TierUsd[TierOf(s)] \in Int
  BY <1>1 DEF TierUsd
<1> QED  BY <1>2 DEF AdmittedUsd

LEMMA SlotsAreCapped ==
  ASSUME NEW p, Planned(p), NEW n \in Nat
  PROVE  /\ CapOnSlots(p, n) \in Int /\ (p.maxPositions > 0 => CapOnSlots(p, n) <= p.maxPositions)
         /\ (n > 0 => CapOnSlots(p, n) > 0)
<1>1. p.maxPositions \in Nat
  BY DEF Planned
<1>2. Min({p.maxPositions, n}) = IF p.maxPositions <= n THEN p.maxPositions ELSE n
  BY <1>1, SmallerOfTwo
<1> QED  BY <1>1, <1>2 DEF CapOnSlots

(* A plan is of its candidates, each once, within the dollars it may deal  *)
(* and the slots it has.                                                   *)
LEMMA PlanFacts ==
  ASSUME NEW C, IsFiniteSet(C), Apart(C), \A c \in C : Readable(c), NEW p, Planned(p)
  PROVE  LET plan == PlanPortfolio(C, p) IN
         /\ plan \in Plans(C) /\ OnceEach(plan)
         /\ plan # <<>> => /\ Dealt(plan) <= Deployable(p)
                           /\ p.maxPositions > 0 => Len(plan) <= p.maxPositions
<1> DEFINE n == Cardinality(C)
<1>1. Linear(C, p) /\ n \in Nat
  BY DealtInOneOrder, FS_CardinalityType DEF Planned
<1>2. Deployable(p) \in Int /\ AffordableSlots(p) \in Int /\ p.maxPositions \in Nat
  BY MoneyToDeal DEF Planned
<1>3. <<>> \in Plans(C) /\ OnceEach(<<>>)
  BY DEF Plans, OnceEach
<1>4. ASSUME NEW size \in [C -> Int], NEW slots \in Int, p.maxPositions > 0 => slots <= p.maxPositions
      PROVE  LET plan == DealInOrder(C, size, slots, p) IN
             /\ plan \in Plans(C) /\ OnceEach(plan)
             /\ plan # <<>> => /\ Dealt(plan) <= Deployable(p)
                               /\ p.maxPositions > 0 => Len(plan) <= p.maxPositions
  <2> DEFINE plan == DealInOrder(C, size, slots, p)
  <2>1. plan \in Plans(C) /\ Fits(plan, slots, p) /\ OnceEach(plan)
    BY <1>1, <1>2, DealFits
  <2>2. Len(plan) \in Nat
    BY <2>1 DEF Plans
  <2> HIDE DEF plan
  <2> QED  BY <1>2, <1>4, <2>1, <2>2 DEF Fits, plan
<1>5. CASE p.bySize
  <2> DEFINE size == [c \in C |-> AdmittedUsd(c.s, p.minTier)]
  <2>1. size \in [C -> Int]
    BY TierSizes DEF Planned
  <2>2. CapOnSlots(p, n) \in Int /\ (p.maxPositions > 0 => CapOnSlots(p, n) <= p.maxPositions)
    BY <1>1, SlotsAreCapped
  <2>3. PlanPortfolio(C, p) = <<>> \/ PlanPortfolio(C, p) = DealInOrder(C, size, CapOnSlots(p, n), p)
    BY <1>5 DEF PlanPortfolio, PlanBySize
  <2> HIDE DEF size, n
  <2> QED  BY <1>3, <1>4, <2>1, <2>2, <2>3
<1>6. CASE ~p.bySize
  <2> DEFINE slots == FixedSlots(C, p)
             size == [c \in C |-> PerSlot(p, slots)]
  <2>1. CASE AffordableSlots(p) < 1 \/ C = {}
    BY <1>3, <1>6, <2>1 DEF PlanPortfolio, PlanFixed
  <2>2. CASE AffordableSlots(p) >= 1 /\ C # {}
    <3>1. n > 0
      BY <1>1, <2>2, FS_EmptySet
    <3>2. /\ CapOnSlots(p, n) \in Int /\ CapOnSlots(p, n) > 0
          /\ (p.maxPositions > 0 => CapOnSlots(p, n) <= p.maxPositions)
      BY <1>1, <3>1, SlotsAreCapped
    <3>3. slots \in {AffordableSlots(p), CapOnSlots(p, n), n} /\ slots <= CapOnSlots(p, n)
      <4>1. slots = Min({AffordableSlots(p), CapOnSlots(p, n), n})
        BY DEF FixedSlots
      <4> DEFINE a == AffordableSlots(p)
                 c == CapOnSlots(p, n)
      <4>2. a \in Int /\ c \in Int /\ n \in Int
        BY <1>1, <1>2, <3>2
      <4> HIDE DEF n, slots, a, c
      <4>3. Min({a, c, n}) \in {a, c, n} /\ Min({a, c, n}) <= c
        BY <4>2, SmallestOfThree
      <4>4. slots = Min({a, c, n})
        BY <4>1 DEF a, c
      <4> QED  BY <4>3, <4>4 DEF a, c
    <3> HIDE DEF slots, n
    <3>4. slots \in Nat \ {0} /\ (p.maxPositions > 0 => slots <= p.maxPositions)
      BY <1>1, <1>2, <2>2, <3>1, <3>2, <3>3
    <3>5. size \in [C -> Int]
      BY <3>4, MoneyToDeal
    <3>6. PlanPortfolio(C, p) = DealInOrder(C, size, slots, p)
      BY <1>2, <1>6, <2>2 DEF PlanPortfolio, PlanFixed, slots
    <3> HIDE DEF size
    <3> QED  BY <1>4, <3>4, <3>5, <3>6
  <2> QED  BY <1>2, <2>1, <2>2
<1> QED  BY <1>5, <1>6

-----------------------------------------------------------------------------
(* The pass over the book.                                                 *)

\* The partial sums over a set, one element taken out after another.
Leftmost(s) == CHOOSE x \in s : TRUE
SumsUp(f, val, rows) ==
  f = [s \in SUBSET rows |-> IF s = {} THEN 0 ELSE val[Leftmost(s)] + f[s \ {Leftmost(s)}]]

(* Whole numbers add up to one.                                            *)
LEMMA WholeSums ==
  ASSUME NEW rows, IsFiniteSet(rows), NEW val \in [rows -> Int]
  PROVE  (\E f : SumsUp(f, val, rows)) /\ \A f : SumsUp(f, val, rows) => f[rows] \in Int
<1> DEFINE add == [x \in Int \X Int |-> x[2] + x[1]]
           any == [s \in SUBSET rows |-> Leftmost(s)]
<1>0. \A s \in SUBSET rows : s # {} => Leftmost(s) \in s
  BY DEF Leftmost
<1>1. add \in [Int \X Int -> Int] /\ 0 \in Int
  OBVIOUS
<1>2. Picks(any, rows)
  BY <1>0 DEF Picks
<1>3. PICK f \in [SUBSET rows -> Int] : Folded(f, add, 0, any, val, rows)
  <2> HIDE DEF add, any
  <2>1. IsFiniteSet(rows) /\ val \in [rows -> Int]
    OBVIOUS
  <2> QED  BY ONLY <1>1, <1>2, <2>1, FoldExists, Zenon
<1>4. SumsUp(f, val, rows)
  <2>1. ASSUME NEW s \in SUBSET rows, s # {}
        PROVE  f[s] = val[Leftmost(s)] + f[s \ {Leftmost(s)}]
    <3>1. Leftmost(s) \in rows /\ any[s] = Leftmost(s) /\ s \ {Leftmost(s)} \in SUBSET rows
      BY <1>0, <2>1
    <3>2. f[s] = add[<<f[s \ {Leftmost(s)}], val[Leftmost(s)]>>]
      <4> HIDE DEF add, any
      <4> QED  BY <1>3, <2>1, <3>1 DEF Folded
    <3>3. f[s \ {Leftmost(s)}] \in Int /\ val[Leftmost(s)] \in Int
      BY <1>3, <3>1
    <3> QED  BY <3>2, <3>3
  <2>2. f[{}] = 0
    BY <1>3 DEF Folded
  <2>3. f = [s \in SUBSET rows |-> f[s]]
    BY <1>3
  <2> QED  BY <2>1, <2>2, <2>3 DEF SumsUp
<1>5. ASSUME NEW h, SumsUp(h, val, rows) PROVE h[rows] \in Int
  <2> DEFINE Odd == {s \in SUBSET rows : h[s] \notin Int}
             sizes == {Cardinality(s) : s \in Odd}
  <2>1. \A s \in SUBSET rows : IsFiniteSet(s) /\ Cardinality(s) \in Nat
    BY FS_Subset, FS_CardinalityType
  <2> SUFFICES ASSUME Odd # {} PROVE FALSE
    OBVIOUS
  <2>2. PICK k \in sizes : \A m \in sizes : k <= m
    <3>1. sizes \in SUBSET Nat /\ sizes # {}
      BY <2>1
    <3> HIDE DEF sizes
    <3> QED  BY <3>1, LeastNatural
  <2>3. PICK s \in Odd : k = Cardinality(s)
    BY <2>2
  <2> DEFINE x == Leftmost(s)
  <2>4. s \in SUBSET rows /\ h[s] \notin Int
    BY <2>3
  <2>5. h[s] = IF s = {} THEN 0 ELSE val[x] + h[s \ {x}]
    BY <1>5, <2>4 DEF SumsUp
  <2>6. s # {}
    BY <2>4, <2>5
  <2>7. x \in s /\ s \ {x} \in SUBSET rows /\ val[x] \in Int
    BY <1>0, <2>4, <2>6
  <2> HIDE DEF x
  <2>8. Cardinality(s \ {x}) = Cardinality(s) - 1 /\ Cardinality(s) \in Nat
    BY <2>1, <2>4, <2>7, FS_RemoveElement
  <2>9. s \ {x} \notin Odd
    <3>1. Cardinality(s \ {x}) \notin sizes
      <4> HIDE DEF sizes
      <4> QED  BY <2>2, <2>3, <2>8
    <3> QED  BY <3>1
  <2> QED  BY <2>4, <2>5, <2>6, <2>7, <2>9
<1> QED  BY <1>4, <1>5

(* What rows keep of the capital, and what they were given, add up.        *)
LEMMA CommittedType ==
  ASSUME NEW rows, IsFiniteSet(rows), NEW p, p.slot \in Int,
         \A h \in rows : h.capital \in Int /\ h.deployed \in Int
  PROVE  Committed(rows, p) \in Int
<1> DEFINE kept == [h \in rows |-> Min({h.capital, SlotNeeds(h, p)})]
           Sums(f) == f = [s \in SUBSET rows |->
                             IF s = {} THEN 0
                             ELSE Min({(CHOOSE x \in s : TRUE).capital, SlotNeeds(CHOOSE x \in s : TRUE, p)})
                                  + f[s \ {CHOOSE x \in s : TRUE}]]
           f == CHOOSE f : Sums(f)
<1>1. ASSUME NEW h \in rows PROVE Min({h.capital, SlotNeeds(h, p)}) \in Int
  <2>1. h.capital \in Int /\ h.deployed \in Int
    OBVIOUS
  <2>2. (IF p.bySize THEN h.capital ELSE p.slot) \in Int
    BY <2>1
  <2>3. SlotNeeds(h, p) \in Int
    BY <2>1, <2>2, LargerOfTwo DEF SlotNeeds
  <2> QED  BY <2>1, <2>3, SmallerOfTwo
<1>2. kept \in [rows -> Int]
  BY <1>1
<1>3. \A g : Sums(g) <=> SumsUp(g, kept, rows)
  <2>1. \A s \in SUBSET rows : s # {} =>
          kept[Leftmost(s)] = Min({(CHOOSE x \in s : TRUE).capital, SlotNeeds(CHOOSE x \in s : TRUE, p)})
    BY DEF Leftmost
  <2> HIDE DEF kept
  <2> QED  BY <2>1 DEF SumsUp, Leftmost
<1>4. Committed(rows, p) = f[rows]
  BY DEF Committed, MapThenSumSet, MapThenFoldSet
<1> HIDE DEF Sums, kept
<1>5. Sums(f)
  BY <1>2, <1>3, WholeSums
<1> HIDE DEF f
<1> QED  BY <1>2, <1>3, <1>4, <1>5, WholeSums

LEMMA GivenType ==
  ASSUME NEW rows, IsFiniteSet(rows), \A h \in rows : h.capital \in Int
  PROVE  MapThenSumSet(LAMBDA h : h.capital, rows) \in Int
<1> DEFINE given == [h \in rows |-> h.capital]
           Sums(f) == f = [s \in SUBSET rows |->
                             IF s = {} THEN 0
                             ELSE (CHOOSE x \in s : TRUE).capital + f[s \ {CHOOSE x \in s : TRUE}]]
           f == CHOOSE f : Sums(f)
<1>1. given \in [rows -> Int]
  OBVIOUS
<1>2. \A g : Sums(g) <=> SumsUp(g, given, rows)
  <2>1. \A s \in SUBSET rows : s # {} => given[Leftmost(s)] = (CHOOSE x \in s : TRUE).capital
    BY DEF Leftmost
  <2> HIDE DEF given
  <2> QED  BY <2>1 DEF SumsUp, Leftmost
<1>3. MapThenSumSet(LAMBDA h : h.capital, rows) = f[rows]
  BY DEF MapThenSumSet, MapThenFoldSet
<1> HIDE DEF Sums, given
<1>4. Sums(f)
  BY <1>1, <1>2, WholeSums
<1> HIDE DEF f
<1> QED  BY <1>1, <1>2, <1>3, <1>4, WholeSums

\* What the pass plans: tokens of its candidates that are on no row it keeps and
\* on none it let go, each once, within the dollars and the slots its rows leave.
DealtToOthers(q, pass, o) ==
  /\ o.plan \in Plans(pass.candidates) /\ OnceEach(o.plan)
  /\ \A i \in DOMAIN o.plan, h \in o.keeping \cup o.stopped \cup o.released :
       h.token # o.plan[i].who.s.address
  /\ FitsTheCapital(q, o)

LEMMA AllocateFacts ==
  ASSUME PassAssumption, NEW q \in PassQuestions, NEW pass, Usable(pass)
  PROVE  DealtToOthers(q, pass, Allocate(q.book, pass, q.p))
<1> DEFINE p == q.p
           book == q.book
           named(hs) == {Holder(h, pass, p) : h \in hs}
           row(h)    == CHOOSE b \in book : b.id = h.id
           stopped   == {h \in book : ScoreStops(h, pass, p)}
           rotated   == {h \in named(book \ stopped) : p.rotate /\ Rotates(h) /\ Priced(row(h))}
           release   == Releasable(named(book), Waiting(book, pass, p), p.now, p)
           released  == {h \in release : h.qty <= 0 \/ Priced(row(h))}
           gone      == {h.id : h \in stopped} \cup {h.id : h \in rotated \cup released}
           keeping   == {h \in book : h.id \notin gone}
           eligible  == {r \in pass.candidates :
                           /\ \A h \in keeping : h.token # r.s.address
                           /\ r.s.address \notin JustFreed(stopped, release)
                           /\ MeetsAnyDoor(r.components, p.doors)}
           free      == Max({p.capital + p.fund - Committed(keeping, p), 0})
           left      == p.maxPositions - Cardinality(keeping)
           over      == [p EXCEPT !.total = free, !.basis = p.capital + p.fund, !.maxPositions = Max({left, 0})]
           plan      == IF free = 0 \/ (p.maxPositions > 0 /\ left <= 0) THEN <<>>
                        ELSE PlanPortfolio(eligible, over)
           o         == Allocate(book, pass, p)
<1>1. /\ o.stopped = stopped /\ o.released = released /\ o.keeping = keeping /\ o.plan = plan
  BY DEF Allocate
<1>2. keeping \in SUBSET book /\ stopped \in SUBSET book /\ released \in SUBSET release
  OBVIOUS
<1>3. eligible \in SUBSET pass.candidates
  OBVIOUS
<1>4. \A r \in eligible : /\ \A h \in keeping : h.token # r.s.address
                          /\ r.s.address \notin JustFreed(stopped, release)
  OBVIOUS
<1> HIDE DEF keeping, stopped, release, released, eligible, o
<1>5. /\ IsFiniteSet(book) /\ \A h \in book : h.capital \in Int /\ h.deployed \in Int
      /\ p.slot \in Nat \ {0} /\ p.capital \in Int /\ p.fund \in Int /\ p.maxPositions \in Nat
      /\ {"total", "basis", "maxPositions", "order", "minTier", "reserve", "maxPosition", "target",
          "minPosition"} \subseteq DOMAIN p
      /\ p.order \in Orders /\ p.minTier \in DOMAIN TierUsd /\ p.reserve \in Nat /\ p.maxPosition \in Nat
      /\ p.target \in Int /\ p.minPosition \in Nat \ {0}
  BY DEF PassAssumption, Orders
<1>6. IsFiniteSet(keeping) /\ Cardinality(keeping) \in Nat /\ Committed(keeping, p) \in Int
  <2>1. IsFiniteSet(keeping)
    BY <1>2, <1>5, FS_Subset
  <2>2. \A h \in keeping : h.capital \in Int /\ h.deployed \in Int
    BY <1>2, <1>5
  <2>3. p.slot \in Int
    BY <1>5
  <2> HIDE DEF p
  <2> QED  BY <2>1, <2>2, <2>3, CommittedType, FS_CardinalityType
<1>7. /\ free \in Nat /\ (free # 0 => free = p.capital + p.fund - Committed(keeping, p))
      /\ left \in Int /\ Max({left, 0}) \in Nat /\ (left > 0 => Max({left, 0}) = left)
  <2> DEFINE spare == p.capital + p.fund - Committed(keeping, p)
  <2>1. spare \in Int /\ left \in Int
    BY <1>5, <1>6
  <2> HIDE DEF spare, left
  <2>2. Max({spare, 0}) = IF spare >= 0 THEN spare ELSE 0
    BY <2>1, LargerOfTwo
  <2>3. Max({left, 0}) = IF left >= 0 THEN left ELSE 0
    BY <2>1, LargerOfTwo
  <2>4. free = Max({spare, 0})
    BY DEF spare
  <2> HIDE DEF free
  <2> QED  BY <2>1, <2>2, <2>3, <2>4 DEF spare
<1> HIDE DEF free, left
<1>8. Planned(over) /\ over.total = free /\ over.maxPositions = Max({left, 0})
  <2>1. /\ over.order = p.order /\ over.minTier = p.minTier /\ over.reserve = p.reserve
        /\ over.maxPosition = p.maxPosition /\ over.target = p.target /\ over.minPosition = p.minPosition
        /\ over.total = free /\ over.basis = p.capital + p.fund /\ over.maxPositions = Max({left, 0})
    BY <1>5
  <2> HIDE DEF over, p
  <2> QED  BY <1>5, <1>7, <2>1 DEF Planned
<1> HIDE DEF over, p, book
<1>9. IsFiniteSet(eligible) /\ Apart(eligible) /\ \A c \in eligible : Readable(c)
  BY <1>3, FS_Subset DEF Usable, Apart
<1>10. /\ plan \in Plans(eligible) /\ OnceEach(plan)
       /\ plan # <<>> => /\ free # 0 /\ (p.maxPositions > 0 => left > 0)
                         /\ Dealt(plan) <= Deployable(over)
                         /\ over.maxPositions > 0 => Len(plan) <= over.maxPositions
  <2>1. <<>> \in Plans(eligible) /\ OnceEach(<<>>)
    BY DEF Plans, OnceEach
  <2>2. /\ PlanPortfolio(eligible, over) \in Plans(eligible) /\ OnceEach(PlanPortfolio(eligible, over))
        /\ PlanPortfolio(eligible, over) # <<>> =>
             /\ Dealt(PlanPortfolio(eligible, over)) <= Deployable(over)
             /\ over.maxPositions > 0 => Len(PlanPortfolio(eligible, over)) <= over.maxPositions
    BY <1>8, <1>9, PlanFacts
  <2> DEFINE dealt == PlanPortfolio(eligible, over)
  <2>3. CASE free = 0 \/ (p.maxPositions > 0 /\ left <= 0)
    <3>1. plan = <<>>
      BY <2>3
    <3> HIDE DEF plan
    <3> QED  BY <2>1, <3>1
  <2>4. CASE ~(free = 0 \/ (p.maxPositions > 0 /\ left <= 0))
    <3>1. plan = dealt
      BY <2>4
    <3>2. free # 0 /\ (p.maxPositions > 0 => left > 0)
      BY <1>7, <2>4
    <3> HIDE DEF plan
    <3> QED  BY <2>2, <3>1, <3>2
  <2> QED  BY <2>3, <2>4
<1> HIDE DEF plan
<1>11. Len(plan) \in Nat /\ Dealt(plan) \in Int /\ DOMAIN plan = 1..Len(plan)
       /\ \A i \in DOMAIN plan : plan[i].who \in eligible
  <2>1. \A a \in Allocations(eligible) : a.who \in eligible
    BY DEF Allocations
  <2>2. PICK g \in [0..Len(plan) -> Int] : Dealt(plan) = g[Len(plan)]
    BY <1>10, DealtRuns
  <2>3. Len(plan) \in Nat /\ DOMAIN plan = 1..Len(plan) /\ \A i \in 1..Len(plan) : plan[i] \in Allocations(eligible)
    BY <1>10 DEF Plans
  <2> QED  BY <2>1, <2>2, <2>3
<1>12. plan \in Plans(pass.candidates)
  <2>1. Allocations(eligible) \subseteq Allocations(pass.candidates)
    BY <1>3 DEF Allocations
  <2> QED  BY <1>10, <2>1 DEF Plans
<1>13. \A i \in DOMAIN plan, h \in keeping \cup stopped \cup released : h.token # plan[i].who.s.address
  <2> TAKE i \in DOMAIN plan, h \in keeping \cup stopped \cup released
  <2>1. plan[i].who \in eligible
    BY <1>11
  <2>2. h \in stopped \cup released => h.token \in JustFreed(stopped, release)
    BY <1>2 DEF JustFreed
  <2> QED  BY <1>4, <2>1, <2>2
<1>14. FitsTheCapital(q, o)
  <2> SUFFICES ASSUME plan # <<>>
               PROVE  /\ Committed(keeping, p) + Dealt(plan) <= p.capital + p.fund
                      /\ p.maxPositions > 0 => Cardinality(keeping) + Len(plan) <= p.maxPositions
    BY <1>1 DEF FitsTheCapital, p
  <2>1. Dealt(plan) <= free
    <3>1. Deployable(over) \in Int /\ Deployable(over) <= free
      BY <1>8, MoneyToDeal
    <3> QED  BY <1>7, <1>10, <1>11, <3>1
  <2>2. p.maxPositions > 0 => Len(plan) <= left
    BY <1>7, <1>8, <1>10
  <2>3. left = p.maxPositions - Cardinality(keeping)
    BY DEF left
  <2>4. free = p.capital + p.fund - Committed(keeping, p) /\ p.capital + p.fund \in Int
    BY <1>5, <1>7, <1>10
  <2>5. Committed(keeping, p) + Dealt(plan) <= p.capital + p.fund
    <3>1. Dealt(plan) <= p.capital + p.fund - Committed(keeping, p)
      BY <2>1, <2>4
    <3>2. Dealt(plan) \in Int
      BY <1>11
    <3>3. Committed(keeping, p) \in Int
      BY <1>6
    <3>4. p.capital \in Int /\ p.fund \in Int
      BY <1>5
    <3> QED  BY ONLY <3>1, <3>2, <3>3, <3>4
  <2>6. p.maxPositions > 0 => Cardinality(keeping) + Len(plan) <= p.maxPositions
    BY <1>5, <1>6, <1>7, <1>11, <2>2, <2>3
  <2> QED  BY <2>5, <2>6
<1>15. DealtToOthers(q, pass, o)
  BY <1>1, <1>10, <1>12, <1>13, <1>14 DEF DealtToOthers
<1> QED  BY <1>15 DEF o, p, book

(* BuysOthersOnce of the whole outcome.                                    *)
LEMMA RotatedIsSwitchedOff ==
  ASSUME Null \notin BOOLEAN, NEW book, NEW pass, Usable(pass), NEW p,
         NEW h \in Allocate(book, pass, p).rotated, NEW c \in pass.candidates
  PROVE  h.token # c.s.address
<1>1. PICK b \in book : h = Holder(b, pass, p)
  BY DEF Allocate
<1>2. h.switchOff = TRUE
  BY DEF Allocate, Rotates
<1>3. h.switchOff = SwitchOff(h.token, pass)
  BY <1>1 DEF Holder
<1>4. Null # TRUE
  OBVIOUS
<1>5. \E r \in pass.switchedOff : r.s.address = h.token
  BY <1>2, <1>3, <1>4 DEF SwitchOff
<1> QED  BY <1>5 DEF Usable

LEMMA PassFacts ==
  ASSUME RulesAssumption, PassAssumption, NEW q \in PassQuestions
  PROVE  BuysOthersOnce(Outcome(q)) /\ FitsTheCapital(q, Outcome(q))
<1> DEFINE pass == RankingOf(q, FreeSlots(q.book, q.p))
           o == Outcome(q)
           tokens == [i \in DOMAIN o.plan |-> o.plan[i].who.s.address]
<1>1. Usable(pass) /\ o = Allocate(q.book, pass, q.p)
  BY RankingIsUsable DEF Outcome
<1> HIDE DEF pass, o
<1>2. DealtToOthers(q, pass, o)
  BY <1>1, AllocateFacts
<1>3. /\ Len(o.plan) \in Nat /\ DOMAIN o.plan = 1..Len(o.plan)
      /\ \A i \in DOMAIN o.plan : o.plan[i].who \in pass.candidates
  <2>1. \A a \in Allocations(pass.candidates) : a.who \in pass.candidates
    BY DEF Allocations
  <2>2. o.plan \in Seq(Allocations(pass.candidates))
    BY <1>2 DEF DealtToOthers, Plans
  <2>3. /\ Len(o.plan) \in Nat /\ DOMAIN o.plan = 1..Len(o.plan)
        /\ \A i \in 1..Len(o.plan) : o.plan[i] \in Allocations(pass.candidates)
    BY <2>2
  <2> QED  BY <2>1, <2>3
<1>4. \A i \in DOMAIN o.plan, h \in o.rotated : h.token # o.plan[i].who.s.address
  <2>1. Null \notin BOOLEAN
    BY DEF RulesAssumption
  <2>2. o.rotated = Allocate(q.book, pass, q.p).rotated
    BY <1>1
  <2> QED
    <3> TAKE i \in DOMAIN o.plan, h \in o.rotated
    <3>1. o.plan[i].who \in pass.candidates
      BY <1>3
    <3>2. h \in Allocate(q.book, pass, q.p).rotated /\ Usable(pass)
      BY <1>1, <2>2
    <3> QED  BY ONLY <2>1, <3>1, <3>2, RotatedIsSwitchedOff
<1>5. Tokens(o.plan) \cap {h.token : h \in o.keeping \cup o.stopped \cup o.released \cup o.rotated} = {}
  BY <1>2, <1>4 DEF Tokens, DealtToOthers
<1>6. Cardinality(Tokens(o.plan)) = Len(o.plan)
  <2>1. tokens \in Surjection(1..Len(o.plan), Tokens(o.plan))
    BY <1>3 DEF Tokens, Surjection
  <2>2. \A i, j \in 1..Len(o.plan) : tokens[i] = tokens[j] => i = j
    <3> TAKE i, j \in 1..Len(o.plan)
    <3>1. o.plan[i].who \in pass.candidates /\ o.plan[j].who \in pass.candidates
      BY <1>3
    <3>2. tokens[i] = o.plan[i].who.s.address /\ tokens[j] = o.plan[j].who.s.address
      BY <1>3
    <3>3. tokens[i] = tokens[j] => o.plan[i].who = o.plan[j].who
      BY <1>1, <3>1, <3>2 DEF Usable, Apart
    <3> HIDE DEF tokens
    <3> QED  BY <1>2, <1>3, <3>3 DEF OnceEach, DealtToOthers
  <2> HIDE DEF tokens
  <2>3. ExistsBijection(1..Len(o.plan), Tokens(o.plan))
    BY <2>1, <2>2 DEF ExistsBijection, Bijection, Injection, Surjection, IsInjective
  <2>4. IsFiniteSet(1..Len(o.plan)) /\ Cardinality(1..Len(o.plan)) = Len(o.plan)
    BY <1>3, FS_Interval
  <2> QED  BY <2>3, <2>4, FS_Bijection
<1> QED  BY <1>2, <1>5, <1>6 DEF BuysOthersOnce, DealtToOthers, o

-----------------------------------------------------------------------------
(* The cut and the plan.                                                   *)

\* Those with fewer than k ahead of them.
First(C, k, p) == {c \in C : Cardinality(Ahead(C, c, p)) < k}

(* The first k are served as they are among all.                           *)
LEMMA FirstInOrder ==
  ASSUME NEW C, IsFiniteSet(C), NEW p, Linear(C, p), NEW k \in Nat
  PROVE  LET M == First(C, k, p) IN
         /\ M \in SUBSET C /\ IsFiniteSet(M) /\ Linear(M, p)
         /\ Cardinality(M) = IF k <= Cardinality(C) THEN k ELSE Cardinality(C)
         /\ \A i \in 1..Cardinality(M) : ServingOrder(M, p)[i] = ServingOrder(C, p)[i]
<1> DEFINE M == First(C, k, p)
           n == Cardinality(C)
           m == IF k <= n THEN k ELSE n
           o == ServingOrder(C, p)
<1>1. /\ n \in Nat /\ o \in [1..n -> C] /\ \A c \in C : \E i \in 1..n : o[i] = c
      /\ \A i \in 1..n : Cardinality(Ahead(C, o[i], p)) = i - 1
  BY InServingOrder DEF Serves
<1>2. M \in SUBSET C
  BY DEF First
<1>3. IsFiniteSet(M) /\ Linear(M, p)
  BY <1>2, FS_Subset DEF Linear
<1> HIDE DEF n, o
<1>4. \A i \in 1..n : o[i] \in M <=> i <= k
  <2> TAKE i \in 1..n
  <2>1. o[i] \in C /\ Cardinality(Ahead(C, o[i], p)) = i - 1
    BY <1>1
  <2>2. o[i] \in M <=> i - 1 < k
    BY <2>1 DEF First
  <2> QED  BY <1>1, <2>2
<1>5. \A i, j \in 1..n : o[i] = o[j] => i = j
  <2> TAKE i, j \in 1..n
  <2>1. Cardinality(Ahead(C, o[i], p)) = i - 1 /\ Cardinality(Ahead(C, o[j], p)) = j - 1
    BY <1>1
  <2> QED  BY <1>1, <2>1
<1> HIDE DEF M
<1> DEFINE first == [i \in 1..m |-> o[i]]
<1>6. m \in Nat /\ 1..m \in SUBSET (1..n) /\ \A i \in 1..n : i \in 1..m <=> i <= k
  BY <1>1
<1> HIDE DEF m
<1>7. ExistsBijection(1..m, M)
  <2>1. first \in [1..m -> M]
    BY <1>1, <1>4, <1>6
  <2>2. \A c \in M : \E i \in 1..m : first[i] = c
    <3> TAKE c \in M
    <3>1. PICK i \in 1..n : o[i] = c
      BY <1>1, <1>2
    <3>2. i \in 1..m
      BY <1>4, <1>6, <3>1
    <3> QED  BY <3>1, <3>2
  <2>3. \A i, j \in 1..m : first[i] = first[j] => i = j
    BY <1>5, <1>6
  <2> HIDE DEF first
  <2> QED  BY <2>1, <2>2, <2>3 DEF ExistsBijection, Bijection, Injection, Surjection, IsInjective
<1>8. Cardinality(M) = m
  <2>1. IsFiniteSet(1..m) /\ Cardinality(1..m) = m
    BY <1>6, FS_Interval
  <2> QED  BY <1>7, <2>1, FS_Bijection
<1>9. \A c \in M : Ahead(M, c, p) = Ahead(C, c, p)
  <2> SUFFICES ASSUME NEW c \in M, NEW d \in C, DealtBefore(p, d, c) PROVE d \in M
    BY <1>2 DEF Ahead
  <2>1. PICK i \in 1..n : o[i] = c
    BY <1>1, <1>2
  <2>2. PICK j \in 1..n : o[j] = d
    BY <1>1
  <2>3. j < i
    BY <2>1, <2>2, InServingOrder DEF Serves, o, n
  <2>4. i <= k
    BY <1>4, <2>1
  <2>5. j <= k
    BY <1>1, <2>3, <2>4
  <2> QED  BY <1>4, <2>2, <2>5
<1>10. ASSUME NEW i \in 1..m PROVE ServingOrder(M, p)[i] = o[i]
  <2> DEFINE c == ServingOrder(M, p)[i]
  <2>1. c \in M /\ Cardinality(Ahead(M, c, p)) = i - 1
    BY <1>3, <1>8, InServingOrder DEF Serves
  <2> HIDE DEF c
  <2>2. Cardinality(Ahead(C, c, p)) = i - 1
    BY <1>9, <2>1
  <2>3. PICK j \in 1..n : o[j] = c
    BY <1>1, <1>2, <2>1
  <2>4. j - 1 = i - 1
    BY <1>1, <2>2, <2>3
  <2>5. j = i
    BY <1>6, <2>4
  <2>6. c = o[i]
    BY <2>3, <2>5
  <2> QED  BY <2>6 DEF c
<1> QED  BY <1>2, <1>3, <1>8, <1>10 DEF M, m, n, o

\* A plan that gives each of its first k the same.
Even(o, size, k) == [i \in 1..k |-> [who |-> o[i], capital |-> size]]

LEMMA OneMoreIs ==
  ASSUME NEW size \in Int, NEW j \in Int
  PROVE  j * size \in Int /\ (j - 1) * size + size = j * size
OBVIOUS

LEMMA FewerCostLess ==
  ASSUME NEW size \in Nat, NEW j \in Nat, NEW k \in Nat, j <= k
  PROVE  j * size <= k * size
<1>1. k - j \in Nat /\ (k - j) * size \in Nat
  OBVIOUS
<1>2. k * size = j * size + (k - j) * size /\ j * size \in Int /\ k * size \in Int
  OBVIOUS
<1> QED  BY <1>1, <1>2

(* With one size for all, that every pool takes, and slots and dollars for *)
(* the first k, the deal is of the first k.                                *)
LEMMA DealsTheFirst ==
  ASSUME NEW C, IsFiniteSet(C), NEW p, Linear(C, p), NEW size \in Nat \ {0},
         NEW k \in Nat, k <= Cardinality(C), Deployable(p) \in Int, k * size <= Deployable(p),
         \A c \in C : Tradeable(p.ladder, c.quality, p.sizing, size)
  PROVE  DealInOrder(C, [c \in C |-> size], k, p) = Even(ServingOrder(C, p), size, k)
<1> DEFINE n == Cardinality(C)
           o == ServingOrder(C, p)
           each == [c \in C |-> size]
<1>1. n \in Nat /\ o \in [1..n -> C]
  BY InServingOrder DEF Serves
<1>2. each \in [C -> Int]
  OBVIOUS
<1>3. PICK g \in [0..n -> Plans(C)] :
        /\ g[0] = <<>> /\ \A j \in 1..n : g[j] = Deal(g[j - 1], o[j], each[o[j]], k, p)
        /\ DealInOrder(C, each, k, p) = g[n]
  <2>1. IsFiniteSet(C) /\ Linear(C, p)
    OBVIOUS
  <2> HIDE DEF each
  <2> QED  BY ONLY <1>2, <2>1, DealRuns
<1>4. \A j \in 1..n : each[o[j]] = size /\ Tradeable(p.ladder, o[j].quality, p.sizing, size) /\ o[j] \in C
  BY <1>1
<1> HIDE DEF n, o, each
<1> DEFINE upto(j) == IF j <= k THEN j ELSE k
           G == {j \in 0..n : g[j] = Even(o, size, upto(j)) /\ Dealt(g[j]) = upto(j) * size}
<1>5. 0 \in G
  <2>1. upto(0) = 0 /\ 0 \in 0..n /\ 0 * size = 0 /\ 1..0 = {}
    BY <1>1
  <2>2. Even(o, size, 0) = <<>>
    BY <2>1 DEF Even
  <2>3. Dealt(g[0]) = 0
    BY <1>3, DealtNothing
  <2> QED  BY <1>3, <2>1, <2>2, <2>3
<1>6. ASSUME NEW j \in 1..n, j - 1 \in G PROVE j \in G
  <2> DEFINE d == g[j - 1]
             a == [who |-> o[j], capital |-> size]
  <2>1. /\ j \in 0..n /\ j - 1 \in 0..n /\ d \in Plans(C) /\ a \in Allocations(C)
        /\ d = Even(o, size, upto(j - 1)) /\ Dealt(d) = upto(j - 1) * size
    BY <1>1, <1>3, <1>4, <1>6 DEF Allocations
  <2>2. upto(j - 1) \in Nat /\ Len(d) = upto(j - 1)
    <3>1. upto(j - 1) \in Nat
      BY <1>1
    <3> HIDE DEF upto, d
    <3>2. DOMAIN d = 1..upto(j - 1)
      BY <2>1 DEF Even
    <3>3. DOMAIN d = 1..Len(d) /\ Len(d) \in Nat
      <4>1. d \in Seq(Allocations(C))
        BY <2>1 DEF Plans
      <4> QED  BY <4>1
    <3> QED  BY <3>1, <3>2, <3>3
  <2>3. g[j] = IF size > 0 /\ Room(d, size, k, p) THEN Append(d, a) ELSE d
    BY <1>3, <1>4 DEF Deal
  <2>4. CASE j <= k
    <3>1. upto(j - 1) = j - 1 /\ upto(j) = j
      BY <2>4
    <3>2. Dealt(d) = (j - 1) * size /\ Len(d) = j - 1
      BY <2>1, <2>2, <3>1
    <3>3. Dealt(d) + size = j * size /\ j * size <= k * size /\ j * size \in Int /\ k * size \in Int
      BY <1>1, <2>4, <3>2, OneMoreIs, FewerCostLess
    <3>4. Room(d, size, k, p)
      <4> HIDE DEF d, upto
      <4> QED  BY <2>4, <3>2, <3>3 DEF Room
    <3>5. g[j] = Append(d, a)
      BY <2>3, <3>4
    <3>6. Dealt(g[j]) = j * size
      <4> HIDE DEF d, a, upto
      <4>1. Dealt(Append(d, a)) = Dealt(d) + a.capital
        BY <2>1, DealtMore
      <4> QED  BY <3>3, <3>5, <4>1 DEF a
    <3>7. g[j] = Even(o, size, j)
      <4>1. d = Even(o, size, j - 1)
        BY <2>1, <3>1
      <4> HIDE DEF d, upto
      <4>2. Append(d, a) = [i \in 1..(Len(d) + 1) |-> IF i = Len(d) + 1 THEN a ELSE d[i]]
        BY <2>1 DEF Plans
      <4>3. \A i \in 1..(j - 1) : d[i] = [who |-> o[i], capital |-> size]
        BY <4>1 DEF Even
      <4>4. \A i \in 1..j : (IF i = j THEN a ELSE d[i]) = [who |-> o[i], capital |-> size]
        BY <4>3
      <4>5. Append(d, a) = [i \in 1..j |-> IF i = j THEN a ELSE d[i]]
        BY <3>2, <4>2
      <4> QED  BY <3>5, <4>4, <4>5 DEF Even
    <3> QED  BY <2>1, <3>1, <3>6, <3>7
  <2>5. CASE j > k
    <3>1. upto(j - 1) = k /\ upto(j) = k
      BY <2>5
    <3>2. ~Room(d, size, k, p)
      BY <2>2, <3>1 DEF Room
    <3>3. g[j] = d
      BY <2>3, <3>2
    <3> HIDE DEF d, upto
    <3> QED  BY <2>1, <3>1, <3>3
  <2> QED  BY <2>4, <2>5
<1>7. n \in G
  <2> HIDE DEF G
  <2>1. \A j \in 0..n : j \in G
    BY <1>1, <1>5, <1>6, Climb
  <2> QED  BY <1>1, <2>1
<1>8. upto(n) = k
  BY <1>1 DEF n
<1>9. DealInOrder(C, each, k, p) = Even(o, size, k)
  BY <1>3, <1>7, <1>8
<1> QED  BY <1>9 DEF each, o

LEMMA WholeSlots ==
  ASSUME NEW money \in Int, NEW size \in Nat \ {0}
  PROVE  money \div size \in Int /\ (money \div size) * size <= money
OBVIOUS

LEMMA MoreMoneyMoreSlots ==
  ASSUME NEW money \in Int, NEW more \in Int, NEW size \in Nat \ {0}, money <= more
  PROVE  money \div size <= more \div size
<1> DEFINE a == money \div size
           b == more \div size
<1>1. a \in Int /\ b \in Int /\ a * size <= money /\ more < (b + 1) * size
  OBVIOUS
<1>2. ASSUME a > b PROVE FALSE
  <2>1. a - (b + 1) \in Nat /\ (a - (b + 1)) * size \in Nat
    <3> HIDE DEF a, b
    <3>1. a - (b + 1) \in Nat
      BY <1>1, <1>2
    <3>2. \A x, y \in Nat : x * y \in Nat
      OBVIOUS
    <3> QED BY <3>1, <3>2
  <2>2. a * size = (b + 1) * size + (a - (b + 1)) * size
    <3> HIDE DEF a, b
    <3> QED  BY <1>1
  <2>3. a * size \in Int /\ (b + 1) * size \in Int
    <3> HIDE DEF a, b
    <3> QED  BY <1>1
  <2> HIDE DEF a, b
  <2> QED  BY <1>1, <2>1, <2>2, <2>3
<1> HIDE DEF a, b
<1>3. a <= b
  BY <1>1, <1>2
<1> QED  BY <1>3 DEF a, b

(* Where the target is also the least, a slot is that.                     *)
LEMMA OneSlotSize ==
  ASSUME NEW p, Planned(p), p.target = p.minPosition
  PROVE  ConcentrationCap(p) \in Int /\ SlotSize(p) = p.target
<1> DEFINE top  == ConcentrationCap(p)
           size == p.target
           low  == Min({size, top})
<1>1. top \in Int
  <2>1. p.basis \in Int /\ p.maxPosition \in Int
    BY DEF Planned
  <2>2. \A x, y \in Int : x * y \in Int
    OBVIOUS
  <2>3. \A x \in Int : x \div Whole \in Int
    BY DEF Whole
  <2> QED  BY <2>1, <2>2, <2>3 DEF ConcentrationCap, Pct
<1>2. size \in Int
  BY DEF Planned
<1>3. SlotSize(p) = Max({low, size})
  BY DEF SlotSize
<1> HIDE DEF top, size
<1>4. low \in Int /\ low <= size
  BY <1>1, <1>2, SmallerOfTwo
<1> HIDE DEF low
<1>5. Max({low, size}) = size
  BY <1>2, <1>4, LargerOfTwo
<1> QED  BY <1>1, <1>3, <1>5 DEF top, size

\* Candidates that are dealt the same, each of them.
OneSize(C, p) ==
  /\ IsFiniteSet(C) /\ Linear(C, p) /\ Planned(p) /\ ~p.bySize /\ p.target = p.minPosition
  /\ \A c \in C : Tradeable(p.ladder, c.quality, p.sizing, p.target)

LEMMA PlansTheFirst ==
  ASSUME NEW C, NEW p, OneSize(C, p), C # {}, AffordableSlots(p) >= 1
  PROVE  LET slots == FixedSlots(C, p)
             n     == Cardinality(C) IN
         /\ PlanPortfolio(C, p) = Even(ServingOrder(C, p), p.target, slots)
         /\ slots \in {AffordableSlots(p), CapOnSlots(p, n), n}
         /\ slots <= AffordableSlots(p) /\ slots <= CapOnSlots(p, n) /\ slots <= n
<1> DEFINE slots == FixedSlots(C, p)
           n     == Cardinality(C)
           aff   == AffordableSlots(p)
           cap   == CapOnSlots(p, n)
           money == Deployable(p)
           size  == p.target
<1>1. /\ IsFiniteSet(C) /\ Linear(C, p) /\ Planned(p) /\ ~p.bySize /\ size = p.minPosition
      /\ \A c \in C : Tradeable(p.ladder, c.quality, p.sizing, size)
  BY DEF OneSize
<1>2. n \in Nat /\ n > 0
  BY <1>1, FS_CardinalityType, FS_EmptySet
<1>3. size \in Nat \ {0} /\ money \in Int /\ aff \in Int
  BY <1>1, MoneyToDeal DEF Planned
<1>4. cap \in Int /\ cap > 0
  BY <1>1, <1>2, SlotsAreCapped
<1>5. slots = Min({aff, cap, n})
  BY DEF FixedSlots
<1> HIDE DEF slots, n, aff, cap, money
<1>6. slots \in {aff, cap, n} /\ slots <= aff /\ slots <= cap /\ slots <= n
  <2>1. n \in Int
    BY <1>2
  <2>2. LET m == Min({aff, cap, n}) IN m \in {aff, cap, n} /\ m <= aff /\ m <= cap /\ m <= n
    BY <1>3, <1>4, <2>1, SmallestOfThree
  <2> QED  BY <1>5, <2>2
<1>7. slots \in Nat \ {0}
  <2>1. aff >= 1
    BY DEF aff
  <2> QED  BY <1>2, <1>3, <1>4, <1>6, <2>1
<1>8. ConcentrationCap(p) \in Int /\ SlotSize(p) = size
  BY <1>1, OneSlotSize
<1>9. PerSlot(p, slots) = size
  <2> DEFINE top  == ConcentrationCap(p)
             even == money \div slots
             low  == Min({even, size, top})
  <2>1. top \in Int /\ even \in Int
    BY <1>3, <1>7, <1>8
  <2> HIDE DEF top, even
  <2>2. low \in {even, size, top} /\ low <= size
    <3>1. size \in Int
      BY <1>3
    <3>2. LET m == Min({even, size, top}) IN m \in {even, size, top} /\ m <= even /\ m <= size /\ m <= top
      BY ONLY <2>1, <3>1, SmallestOfThree
    <3> QED  BY <3>2
  <2>3. PerSlot(p, slots) = Max({low, size})
    BY <1>1 DEF PerSlot, top, even, money
  <2> HIDE DEF low
  <2>4. low \in Int
    BY <1>3, <2>1, <2>2
  <2> QED  BY <1>3, <2>2, <2>3, <2>4, LargerOfTwo
<1>10. slots * size <= money
  <2>1. aff = money \div size
    BY <1>8 DEF aff, money, AffordableSlots
  <2>2. aff * size <= money /\ aff * size \in Int
    BY <1>3, <2>1, WholeSlots, OneMoreIs
  <2>3. aff \in Nat /\ slots \in Nat /\ size \in Nat
    BY <1>3, <1>6, <1>7
  <2>4. slots * size <= aff * size
    BY <1>6, <2>3, FewerCostLess
  <2>5. slots * size \in Int
    BY <2>3, OneMoreIs
  <2> QED  BY <1>3, <2>2, <2>4, <2>5
<1>11. PlanPortfolio(C, p) = DealInOrder(C, [c \in C |-> PerSlot(p, slots)], slots, p)
  <2>1. ~(aff < 1 \/ C = {})
    BY <1>3 DEF aff
  <2> QED  BY <1>1, <2>1 DEF PlanPortfolio, PlanFixed, slots, aff
<1>12. DealInOrder(C, [c \in C |-> size], slots, p) = Even(ServingOrder(C, p), size, slots)
  BY <1>1, <1>3, <1>6, <1>7, <1>10, DealsTheFirst DEF n, money
<1>13. PlanPortfolio(C, p) = Even(ServingOrder(C, p), size, slots)
  BY <1>9, <1>11, <1>12
<1> QED  BY <1>6, <1>13 DEF slots, n, aff, cap

(* Whoever has as many ahead as there are slots to pay for is not planned, *)
(* listed or not.                                                          *)
LEMMA PlanOfFirst ==
  ASSUME NEW C, NEW p, OneSize(C, p), NEW k \in Nat, AffordableSlots(p) <= k
  PROVE  PlanPortfolio(First(C, k, p), p) = PlanPortfolio(C, p)
<1> DEFINE M   == First(C, k, p)
           n   == Cardinality(C)
           m   == Cardinality(M)
           aff == AffordableSlots(p)
<1>1. IsFiniteSet(C) /\ Linear(C, p) /\ Planned(p) /\ ~p.bySize
  BY DEF OneSize
<1>2. /\ M \in SUBSET C /\ IsFiniteSet(M) /\ Linear(M, p) /\ m = (IF k <= n THEN k ELSE n)
      /\ \A i \in 1..m : ServingOrder(M, p)[i] = ServingOrder(C, p)[i]
  BY <1>1, FirstInOrder
<1>3. n \in Nat /\ aff \in Int /\ (C = {} <=> n = 0) /\ (M = {} <=> m = 0)
  BY <1>1, <1>2, FS_CardinalityType, FS_EmptySet, MoneyToDeal
<1>4. OneSize(M, p)
  BY <1>2 DEF OneSize
<1> HIDE DEF M, n, m
<1>5. CASE aff < 1 \/ C = {}
  <2>1. aff < 1 \/ M = {}
    BY <1>2, <1>5
  <2> QED  BY <1>1, <1>5, <2>1 DEF PlanPortfolio, PlanFixed, M
<1>6. CASE aff >= 1 /\ C # {}
  <2>1. M # {} /\ n > 0 /\ m > 0
    BY <1>2, <1>3, <1>6
  <2> DEFINE v == FixedSlots(C, p)
             w == FixedSlots(M, p)
             capn == CapOnSlots(p, n)
             capm == CapOnSlots(p, m)
  <2>2. /\ PlanPortfolio(C, p) = Even(ServingOrder(C, p), p.target, v)
        /\ v \in {aff, capn, n} /\ v <= aff /\ v <= capn /\ v <= n
    BY <1>6, PlansTheFirst DEF n
  <2>3. /\ PlanPortfolio(M, p) = Even(ServingOrder(M, p), p.target, w)
        /\ w \in {aff, capm, m} /\ w <= aff /\ w <= capm /\ w <= m
    BY <1>4, <1>6, <2>1, PlansTheFirst DEF m
  <2>4. p.maxPositions \in Nat
    BY <1>1 DEF Planned
  <2>5. /\ capn = IF p.maxPositions > 0 THEN (IF p.maxPositions <= n THEN p.maxPositions ELSE n) ELSE n
        /\ capm = IF p.maxPositions > 0 THEN (IF p.maxPositions <= m THEN p.maxPositions ELSE m) ELSE m
    <3>1. n \in Int /\ m \in Int
      BY <1>2, <1>3
    <3>2. /\ Min({p.maxPositions, n}) = IF p.maxPositions <= n THEN p.maxPositions ELSE n
          /\ Min({p.maxPositions, m}) = IF p.maxPositions <= m THEN p.maxPositions ELSE m
      BY <2>4, <3>1, SmallerOfTwo
    <3> QED  BY <3>2 DEF CapOnSlots
  <2> HIDE DEF v, w, capn, capm, aff
  <2>6. v = w /\ v \in Int /\ v <= m
    <3> DEFINE top == p.maxPositions
    <3>1. top \in Nat
      BY <2>4
    <3>2. v \in {aff, capn, n} /\ v <= aff /\ v <= capn /\ v <= n
      BY <2>2
    <3>3. w \in {aff, capm, m} /\ w <= aff /\ w <= capm /\ w <= m
      BY <2>3
    <3>4. /\ capn = IF top > 0 THEN (IF top <= n THEN top ELSE n) ELSE n
          /\ capm = IF top > 0 THEN (IF top <= m THEN top ELSE m) ELSE m
      BY <2>5
    <3>5. m = (IF k <= n THEN k ELSE n) /\ n \in Nat /\ aff \in Int /\ aff <= k /\ k \in Nat
      BY <1>2, <1>3 DEF aff
    <3> HIDE DEF top
    <3> QED  BY ONLY <3>1, <3>2, <3>3, <3>4, <3>5
  <2>7. \A i \in 1..v : ServingOrder(M, p)[i] = ServingOrder(C, p)[i]
    <3>1. 1..v \in SUBSET (1..m) /\ m \in Int
      BY <1>2, <1>3, <2>6
    <3> QED  BY <1>2, <3>1
  <2>8. Even(ServingOrder(M, p), p.target, v) = Even(ServingOrder(C, p), p.target, v)
    BY <2>7 DEF Even
  <2> QED  BY <2>2, <2>3, <2>6, <2>8 DEF M
<1> QED  BY <1>3, <1>5, <1>6

LEMMA FreeMoney ==
  ASSUME PassAssumption, NEW q \in PassQuestions
  PROVE  /\ BookFree(q.book, q.p) \in Nat /\ FreeSlots(q.book, q.p) \in Nat
         /\ FreeSlots(q.book, q.p) = BookFree(q.book, q.p) \div q.p.slot
<1> DEFINE given == MapThenSumSet(LAMBDA h : h.capital, q.book)
           spare == q.p.capital + q.p.fund - given
           free  == BookFree(q.book, q.p)
<1>1. given \in Int
  BY GivenType DEF PassAssumption
<1>2. q.p.capital \in Int /\ q.p.fund \in Int /\ q.p.slot \in Nat \ {0}
  BY DEF PassAssumption
<1>3. free = Max({spare, 0})
  BY DEF BookFree
<1> HIDE DEF given, free
<1>4. spare \in Int
  BY <1>1, <1>2
<1> HIDE DEF spare
<1>5. free \in Nat
  BY <1>3, <1>4, LargerOfTwo
<1>6. free \div q.p.slot \in Nat
  BY <1>2, <1>5
<1>7. FreeSlots(q.book, q.p) = free \div q.p.slot
  BY <1>2 DEF FreeSlots, free
<1> QED  BY <1>5, <1>6, <1>7 DEF free

\* The policy of the plan over the candidates not held yet.
PlanPolicy(q) == [q.p EXCEPT !.total = BookFree(q.book, q.p), !.basis = q.p.capital + q.p.fund]

LEMMA PlanPolicyFacts ==
  ASSUME PassAssumption, NEW q \in PassQuestions
  PROVE  LET p == PlanPolicy(q) IN
         /\ Planned(p) /\ p.target = q.p.slot /\ p.minPosition = q.p.slot
         /\ p.order = q.p.order /\ p.ladder = q.p.ladder /\ p.sizing = q.p.sizing /\ p.bySize = q.p.bySize
         /\ AffordableSlots(p) <= FreeSlots(q.book, q.p)
<1> DEFINE p == PlanPolicy(q)
           free == BookFree(q.book, q.p)
           size == q.p.slot
<1>1. /\ p.order = q.p.order /\ p.minTier = q.p.minTier /\ p.reserve = q.p.reserve
      /\ p.maxPosition = q.p.maxPosition /\ p.target = q.p.target /\ p.minPosition = q.p.minPosition
      /\ p.maxPositions = q.p.maxPositions
      /\ p.ladder = q.p.ladder /\ p.sizing = q.p.sizing /\ p.bySize = q.p.bySize
      /\ p.total = free /\ p.basis = q.p.capital + q.p.fund
  BY DEF PlanPolicy, PassAssumption
<1>2. /\ q.p.order \in Orders /\ q.p.minTier \in DOMAIN TierUsd /\ q.p.reserve \in Nat
      /\ q.p.maxPosition \in Nat /\ q.p.target = size /\ q.p.minPosition = size /\ size \in Nat \ {0}
      /\ q.p.maxPositions \in Nat /\ q.p.capital \in Int /\ q.p.fund \in Int
  BY DEF PassAssumption, Orders
<1>3. free \in Nat /\ FreeSlots(q.book, q.p) = free \div size
  BY FreeMoney
<1> HIDE DEF p, free, size
<1>4. Planned(p)
  BY <1>1, <1>2, <1>3 DEF Planned
<1>5. Deployable(p) \in Int /\ Deployable(p) <= free
  BY <1>1, <1>4, MoneyToDeal
<1>6. SlotSize(p) = size
  BY <1>1, <1>2, <1>4, OneSlotSize
<1>7. AffordableSlots(p) <= free \div size
  <2>1. Deployable(p) \div size <= free \div size
    BY <1>2, <1>3, <1>5, MoreMoneyMoreSlots
  <2> QED  BY <1>6, <2>1 DEF AffordableSlots
<1> QED  BY <1>1, <1>2, <1>3, <1>4, <1>7 DEF p, size

\* Those of a list that are not held.
Unheld(C, held) == {c \in C : c.s.address \notin held}

\* Nobody of the reserve.
AllQualified(W) == \A c \in W : c.forgiven = FALSE

(* Without the reserve, and in an order the allocator keeps, the cut keeps *)
(* of those not held the first in the order they are dealt in.             *)
LEMMA CutIsFirst ==
  ASSUME NEW W, AllQualified(W), NEW p, p.order # "size", NEW r, r.order = p.order,
         NEW held, NEW k
  PROVE  Unheld(CutToFreeSlots(W, k, held, p), held) = First(Unheld(W, held), k, r)
<1> DEFINE N == Unheld(W, held)
<1>1. \A c, d : Before(p, c, d) <=> Before(r, c, d)
  BY DEF Before
<1>2. \A c, d \in W : Served(p, d, c) <=> DealtBefore(r, d, c)
  BY <1>1 DEF Served, DealtBefore, AllQualified
<1>3. \A c \in N : {d \in W : d.s.address \notin held /\ Served(p, d, c)} = Ahead(N, c, r)
  BY <1>2 DEF Ahead, Unheld
<1> QED  BY <1>3 DEF CutToFreeSlots, First, Unheld

(* Where there is a place for each, nobody is left out.                    *)
LEMMA FirstIsAll ==
  ASSUME NEW C, IsFiniteSet(C), NEW p, Linear(C, p), NEW k \in Nat, Cardinality(C) <= k
  PROVE  First(C, k, p) = C
<1>1. Cardinality(C) \in Nat
  BY FS_CardinalityType
<1>2. ASSUME NEW c \in C PROVE Cardinality(Ahead(C, c, p)) < k
  <2>1. PICK i \in 1..Cardinality(C) : ServingOrder(C, p)[i] = c
    BY InServingOrder DEF Serves
  <2>2. Cardinality(Ahead(C, c, p)) = i - 1
    BY <2>1, InServingOrder
  <2> QED  BY <1>1, <2>1, <2>2
<1> QED  BY <1>2 DEF First

LEMMA UniverseCutAgrees ==
  ASSUME PassAssumption, NEW q \in PassQuestions, q.p.order # "size", ~q.p.bySize, ~q.p.forgives,
         NEW U, NEW previous, NEW quality, Rankable(U, quality), Cardinality(U) <= Cardinality(q.universe),
         \A slots : RankingOf(q, slots) = RankUniverse(U, q.p, PlacesOf(q, slots), previous, quality)
  PROVE  CutAgrees(q, RankingOf(q, FreeSlots(q.book, q.p)).candidates, Uncut(q))
<1> DEFINE W    == Worth(U, q.p, previous, quality)
           held == {h.token : h \in q.book}
           N    == Unheld(W, held)
           p    == PlanPolicy(q)
           free == FreeSlots(q.book, q.p)
           all  == Cardinality(q.universe)
           cut(k) == RankingOf(q, k).candidates
<1>1. /\ IsFiniteSet(W) /\ Apart(W) /\ \A c \in W : Readable(c) /\ c.forgiven = FALSE
      /\ Cardinality(W) <= Cardinality(U)
  <2>1. LET scored == {Ranked(s, q.p, previous, quality) : s \in U}
            W1     == Worth(U, q.p, previous, quality) IN
        /\ Apart(scored) /\ \A c \in scored : Readable(c)
        /\ W1 \in SUBSET scored /\ IsFiniteSet(W1) /\ Cardinality(W1) <= Cardinality(U)
        /\ ~q.p.forgives => \A c \in W1 : c.forgiven = FALSE
    <3>1. Rankable(U, quality)
      OBVIOUS
    <3> QED  BY ONLY <3>1, RankedApart
  <2>2. \A c \in W : c.forgiven = FALSE
    BY <2>1
  <2> DEFINE scored == {Ranked(s, q.p, previous, quality) : s \in U}
  <2>3. W \in SUBSET scored /\ Apart(scored) /\ \A c \in scored : Readable(c)
    BY <2>1
  <2>4. IsFiniteSet(W) /\ Cardinality(W) <= Cardinality(U)
    BY <2>1
  <2> HIDE DEF W, scored
  <2> QED  BY <2>2, <2>3, <2>4 DEF Apart
<1>2. \A k : cut(k) = CutToFreeSlots(W, k, held, q.p)
  <2> TAKE k
  <2>1. cut(k) = RankUniverse(U, q.p, PlacesOf(q, k), previous, quality).candidates
    OBVIOUS
  <2>2. PlacesOf(q, k).slots = k /\ PlacesOf(q, k).held = held
    BY DEF PlacesOf
  <2> HIDE DEF cut, held, W
  <2> QED  BY <2>1, <2>2, WorthIsCut DEF W
<1>3. /\ Planned(p) /\ p.target = q.p.slot /\ p.minPosition = q.p.slot /\ p.order = q.p.order
      /\ p.ladder = q.p.ladder /\ p.sizing = q.p.sizing /\ p.bySize = q.p.bySize /\ AffordableSlots(p) <= free
  BY PlanPolicyFacts
<1>4. free \in Nat /\ all \in Nat /\ IsFiniteSet(q.universe) /\ q.p.target = q.p.slot
  <2>1. IsFiniteSet(q.universe) /\ q.p.target = q.p.slot
    BY DEF PassAssumption
  <2> QED  BY <2>1, FreeMoney, FS_CardinalityType
<1> HIDE DEF W, held, p, free, all, cut
<1>5. \A k : Unheld(cut(k), held) = First(N, k, p)
  <2> TAKE k
  <2>1. AllQualified(W)
    BY <1>1 DEF AllQualified
  <2>2. q.p.order # "size"
    OBVIOUS
  <2>3. p.order = q.p.order
    BY <1>3
  <2> HIDE DEF N
  <2>4. Unheld(CutToFreeSlots(W, k, held, q.p), held) = First(Unheld(W, held), k, p)
    BY ONLY <2>1, <2>2, <2>3, CutIsFirst
  <2> QED  BY <1>2, <2>4 DEF N
<1>6. IsFiniteSet(N) /\ Linear(N, p) /\ Cardinality(N) <= all
  <2>1. N \in SUBSET W
    BY DEF Unheld
  <2> HIDE DEF N
  <2>2. IsFiniteSet(N) /\ Cardinality(N) <= Cardinality(W)
    BY <1>1, <2>1, FS_Subset
  <2>3. Apart(N) /\ \A c \in N : Readable(c)
    BY <1>1, <2>1 DEF Apart
  <2>4. Linear(N, p)
    BY <1>3, <2>3, DealtInOneOrder DEF Planned
  <2>5. Cardinality(N) <= all
    <3>1. IsFiniteSet(U)
      BY DEF Rankable
    <3>2. Cardinality(N) \in Nat /\ Cardinality(W) \in Nat /\ Cardinality(U) \in Nat
      BY <1>1, <2>2, <3>1, FS_CardinalityType
    <3>3. Cardinality(U) <= all
      BY DEF all
    <3> QED  BY <1>1, <1>4, <2>2, <3>2, <3>3
  <2> QED  BY <2>2, <2>4, <2>5
<1>7. Unheld(cut(all), held) = N /\ Uncut(q) = cut(all)
  <2>1. First(N, all, p) = N
    <3> HIDE DEF N
    <3> QED  BY <1>4, <1>6, FirstIsAll
  <2>2. Uncut(q) = cut(all)
    BY DEF Uncut, cut, all
  <2> QED  BY <1>5, <2>1, <2>2
<1>8. ASSUME \A r \in Uncut(q) : Tradeable(q.p.ladder, r.quality, q.p.sizing, q.p.target)
      PROVE  PlanPortfolio(First(N, free, p), p) = PlanPortfolio(N, p)
  <2>1. \A r \in N : Tradeable(p.ladder, r.quality, p.sizing, p.target)
    <3>1. N \in SUBSET Uncut(q)
      BY <1>7 DEF Unheld
    <3> HIDE DEF N
    <3> QED  BY <1>3, <1>4, <1>8, <3>1
  <2>2. OneSize(N, p)
    BY <1>3, <1>6, <2>1 DEF OneSize
  <2> HIDE DEF N
  <2> QED  BY <1>3, <1>4, <2>2, PlanOfFirst
<1>9. /\ PlanOver(q, cut(free)) = PlanPortfolio(First(N, free, p), p)
      /\ PlanOver(q, Uncut(q)) = PlanPortfolio(N, p)
  <2>1. \A C : PlanOver(q, C) = PlanPortfolio(Unheld(C, held), p)
    BY DEF PlanOver, Unheld, PlanPolicy, p, held
  <2> HIDE DEF N
  <2> QED  BY <1>5, <1>7, <2>1
<1> HIDE DEF N
<1> QED  BY <1>8, <1>9 DEF CutAgrees, cut, free

(* The cut agrees with the plan.                                           *)
LEMMA PassCutAgrees ==
  ASSUME PassAssumption, NEW q \in PassQuestions, q.p.order # "size", ~q.p.bySize, ~q.p.forgives
  PROVE  CutAgrees(q, RankingOf(q, FreeSlots(q.book, q.p)).candidates, Uncut(q))
<1>1. CASE \A k : RankingOf(q, k) = Nobody
  BY <1>1 DEF CutAgrees, Uncut
<1>2. ASSUME NEW U, NEW previous, NEW quality,
             Rankable(U, quality) /\ Cardinality(U) <= Cardinality(q.universe),
             \A k : RankingOf(q, k) = RankUniverse(U, q.p, PlacesOf(q, k), previous, quality)
      PROVE  CutAgrees(q, RankingOf(q, FreeSlots(q.book, q.p)).candidates, Uncut(q))
  BY <1>2, UniverseCutAgrees
<1> QED  BY <1>1, <1>2, WhatIsRanked

-----------------------------------------------------------------------------
(* A whole pass.                                                           *)

(* NeverRebought: what a pass lets go it does not buy back, what it keeps  *)
(* it buys no second time, and it buys nothing twice.                      *)
THEOREM NothingIsRebought == RulesSpec => []NeverRebought
<1>1. ASSUME AskInv, ask.about = "pass"
      PROVE  BuysOthersOnce(Outcome(ask.q)) /\ FitsTheCapital(ask.q, Outcome(ask.q))
  <2>1. ask.q \in PassQuestions
    BY <1>1 DEF AskInv
  <2> QED  BY <2>1, RulesAssumption, PassAssumption, PassFacts
<1>2. AskInv => NeverRebought
  BY <1>1 DEF NeverRebought
<1> QED  BY <1>2, AskInvCorrect, PTL

(* PlanFitsTheCapital: what a pass plans and what its rows keep are within *)
(* the capital and the fund, and the rows and the plan within the slots.   *)
THEOREM PlansFitTheCapital == RulesSpec => []PlanFitsTheCapital
<1>1. ASSUME AskInv, ask.about = "pass"
      PROVE  BuysOthersOnce(Outcome(ask.q)) /\ FitsTheCapital(ask.q, Outcome(ask.q))
  <2>1. ask.q \in PassQuestions
    BY <1>1 DEF AskInv
  <2> QED  BY <2>1, RulesAssumption, PassAssumption, PassFacts
<1>2. AskInv => PlanFitsTheCapital
  BY <1>1 DEF PlanFitsTheCapital
<1> QED  BY <1>2, AskInvCorrect, PTL

(* CutAgreesWithPlan: cut to the free slots or not, the same are dealt the *)
(* same.                                                                   *)
THEOREM TheCutAgreesWithThePlan == RulesSpec => []CutAgreesWithPlan
<1>1. AskInv => CutAgreesWithPlan
  BY PassAssumption, PassCutAgrees DEF AskInv, CutAgreesWithPlan
<1> QED  BY <1>1, AskInvCorrect, PTL

=============================================================================
