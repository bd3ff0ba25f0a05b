----------------------------- MODULE Allocation -----------------------------
(***************************************************************************)
(* Who gives a slot up and who gets one: what a trade costs                *)
(* (domain/economics/sizing.ts, strategy/ladder.ts), which holdings rotate *)
(* or are let go (domain/risk/rotation.ts, idle-slots.ts), how the free    *)
(* capital is dealt out (domain/risk/portfolio.ts), and the book of one    *)
(* pass that puts them in order (application/orchestrator.ts).             *)
(*                                                                         *)
(* Money is in cents, percentages in basis points, times in hours.  Null   *)
(* is what nobody measured.                                                *)
(***************************************************************************)
EXTENDS Ranking, FiniteSetsExt, SequencesExt

Whole == 10000
Pct(amount, bps) == (amount * bps) \div Whole

-----------------------------------------------------------------------------
(* What a trade costs.                                                     *)

\* effectiveDepth: from a measured impact when there is one, else as reported.
EffectiveDepth(q) ==
  IF q.slippage > 0 /\ q.reference > 0 THEN (2 * Whole * q.reference) \div q.slippage ELSE q.liquidity

\* impactPct; an empty pool has no price to move.
ImpactPct(usd, depth) == IF depth > 0 THEN (2 * Whole * usd) \div depth ELSE Whole

\* roundTripCostForFill, at the impact this fill would have.
RoundTripCostForFill(fill, q, gas) ==
  IF fill <= 0 THEN Whole
  ELSE 2 * (q.spread + ImpactPct(fill, EffectiveDepth(q)) + (Whole * gas) \div fill)

\* minProfitPctFor: the trip may not eat more than a share of the target.
MinProfitPctFor(trip, share, floor) ==
  IF share > 0 THEN Max({floor, (trip * Whole) \div share}) ELSE floor

\* stopForRatio: the loss that costs `ratio` hundredths of a net win.
StopForRatio(target, trip, ratio) ==
  IF target <= trip \/ ratio <= 0 THEN 0 ELSE Max({0, (ratio * (target - trip)) \div 100 - trip})

\* positionTollPct: what was paid to get in and getting out will cost, of what
\* is deployed.
PositionToll(paid, deployed, value, q, gas) ==
  IF deployed <= 0 THEN Null
  ELSE (Whole * (paid + Pct(value, q.spread + ImpactPct(value, EffectiveDepth(q))) + gas)) \div deployed

\* The largest order whose impact stays within a budget.
MaxOrder(budget, depth) == IF budget <= 0 THEN 0 ELSE budget * (depth \div (2 * Whole))

\* usdForLevel.
UsdForLevel(ladder, level) == Min({ladder.base + Pct(ladder.base, ladder.increment * level), ladder.maxPerLevel})

\* sizeLadder, level by level: the nominal size cut to what a fill may cost and
\* to what is left of the position; it ends at the first level under the floor.
SizedLevels(ladder, q, p, capital) ==
  LET depth    == EffectiveDepth(q)
      perFill  == MaxOrder(p.maxFillCost - q.spread, depth)
      position == Min({MaxOrder(p.maxExitCost - q.spread, depth), capital})
      fillable == Min({ladder.maxLevels + 1, p.maxEntries})
      sized(level, deployed) == Min({UsdForLevel(ladder, level), perFill, position - deployed})
      grow(levels, level) ==
        LET deployed == FoldSeq(LAMBDA a, b : a + b, 0, levels) IN
        IF Len(levels) < level \/ sized(level, deployed) < p.minFill THEN levels
        ELSE Append(levels, sized(level, deployed))
  IN IF p.maxFillCost <= q.spread \/ perFill < p.minFill \/ position < p.minFill THEN << >>
     ELSE FoldLeft(grow, << >>, [i \in 1..fillable |-> i - 1])

Tradeable(ladder, q, p, capital) == SizedLevels(ladder, q, p, capital) # << >>

-----------------------------------------------------------------------------
(* Who gives a slot up.                                                    *)

\* How a holder stands, as the allocator reads it: nothing when no price or no
\* average cost says.
StandingOf(holder, price, gas) ==
  IF holder.avgCost = Null \/ price = Null \/ price <= 0 THEN [gain |-> Null, toll |-> Null]
  ELSE [gain |-> (Whole * price) \div holder.avgCost - Whole,
        toll |-> PositionToll(holder.paid, holder.deployed, holder.qty * price, holder.quality, gas)]

\* rotateOnSwitchOff: the switch is off, and the gain is more than the trip.
Rotates(h) ==
  /\ h.switchOff = TRUE /\ h.qty > 0
  /\ Known(h.gain) /\ Known(h.toll) /\ h.gain > h.toll

\* Nothing held, and a token that is dead or frozen: no use to anyone.
TerminalSlot(h) == h.qty <= 0 /\ h.stage \in {"dead", "frozen"}

Outscored(h, best, p) == h.score = Null \/ best >= h.score + p.minEdge

\* A holding is swapped for a better one out of a gain that pays the trip, or
\* out of a loss within the tolerance.  One nobody can value is kept.
Swaps(h, best, p) ==
  /\ h.qty > 0 /\ p.swapHolders /\ Known(h.gain) /\ Outscored(h, best, p)
  /\ IF h.gain > 0 THEN Known(h.toll) /\ h.gain > h.toll
     ELSE p.maxSwapLoss > 0 /\ h.gain >= -p.maxSwapLoss

\* A slot that proved it trades, or that waited long enough, and holds nothing.
Idle(h, best, now, p) ==
  /\ h.qty <= 0 /\ ~TerminalSlot(h)
  /\ h.hasFills \/ now - h.openedAt >= p.idleAfter
  /\ Outscored(h, best, p) \/ ~h.hasFills

\* What the incumbent and those who wait are compared by.
Merit(r, p) == IF p.byEfficiency THEN r.cost ELSE r.score

\* releasableSlots: with nobody waiting only the terminal ones; otherwise no
\* more than there are waiting, the worst score first, and of one score the
\* terminal, then the swaps, then the idle.
Releasable(holders, waiting, now, p) ==
  LET terminal == {h \in holders : TerminalSlot(h)}
      best     == Max({Merit(r, p) : r \in waiting})
      named    == terminal \cup {h \in holders : Swaps(h, best, p) \/ Idle(h, best, now, p)}
      score(h) == IF h.score = Null THEN -1 ELSE h.score
      kind(h)  == IF TerminalSlot(h) THEN 0 ELSE IF h.qty > 0 THEN 1 ELSE 2
      first(g, h) == \/ score(g) < score(h)
                     \/ score(g) = score(h) /\ kind(g) < kind(h)
                     \/ score(g) = score(h) /\ kind(g) = kind(h) /\ g.id < h.id
  IN IF waiting = {} THEN terminal
     ELSE {h \in named : Cardinality({g \in named : first(g, h)}) < Cardinality(waiting)}

-----------------------------------------------------------------------------
(* Who gets one.                                                           *)

\* The capital one slot takes, and how many slots that pays for.
ConcentrationCap(p) == Pct(p.basis, p.maxPosition)
Deployable(p) == p.total - Pct(p.total, p.reserve)
SlotSize(p) == Max({Min({p.target, ConcentrationCap(p)}), p.minPosition})
AffordableSlots(p) == Deployable(p) \div SlotSize(p)

CapOnSlots(p, n) == IF p.maxPositions > 0 THEN Min({p.maxPositions, n}) ELSE n

\* The even share of the slots, under the cap on one token; the floor wins over
\* the cap.
PerSlot(p, slots) ==
  Max({Min({Deployable(p) \div slots, p.target, ConcentrationCap(p)}), p.minPosition})

\* The order the allocator serves in, forgiven or not.  It knows no size: under
\* that order only the score is left.
DealtBefore(p, a, b) ==
  IF p.order = "size"
  THEN a.score > b.score \/ (a.score = b.score /\ a.s.address < b.s.address)
  ELSE Before(p, a, b)

\* The sort: each at the place of the number of those dealt before it.
Ahead(candidates, c, p) == {d \in candidates : DealtBefore(p, d, c)}

ServingOrder(candidates, p) ==
  [i \in 1..Cardinality(candidates) |->
     CHOOSE c \in candidates : Cardinality(Ahead(candidates, c, p)) = i - 1]

\* What an allocation adds up to.
Dealt(plan) == FoldLeft(LAMBDA sum, a : sum + a.capital, 0, plan)

\* As a bug would have it: the slots are counted, the dollars are not.
RoomBySlots(plan, size, slots, p) == Len(plan) < slots

\* One more allocation fits the slots and the dollars.
Room(plan, size, slots, p) == Len(plan) < slots /\ Dealt(plan) + size <= Deployable(p)

\* A token is dealt its size, or passed over: no size, no room, or its pool
\* refuses.
Deal(plan, c, size, slots, p) ==
  IF size > 0 /\ Room(plan, size, slots, p) /\ Tradeable(p.ladder, c.quality, p.sizing, size)
  THEN Append(plan, [who |-> c, capital |-> size]) ELSE plan

DealInOrder(candidates, size, slots, p) ==
  FoldLeft(LAMBDA plan, c : Deal(plan, c, size[c], slots, p), << >>, ServingOrder(candidates, p))

\* planPortfolio over fixed slots.
FixedSlots(candidates, p) ==
  Min({AffordableSlots(p), CapOnSlots(p, Cardinality(candidates)), Cardinality(candidates)})

PlanFixed(candidates, p) ==
  LET slots == FixedSlots(candidates, p) IN
  IF AffordableSlots(p) < 1 \/ candidates = {} THEN << >>
  ELSE DealInOrder(candidates, [c \in candidates |-> PerSlot(p, slots)], slots, p)

\* tierOf: concentration nobody measured is dangerous.  Liquidity is in
\* thousands of dollars, the age in hours.
TierOf(s) ==
  LET top == s.security["topHolders"] IN
  CASE s.liquidity < 250 \/ top = Null \/ Over(top, 50) -> "dangerous"
    [] s.liquidity < 1000 -> "normal"
    [] s.liquidity > 5000 /\ top < 30 /\ Over(s.age, 30 * 24) -> "safe"
    [] OTHER -> "good"

TierUsd  == [dangerous |-> 500, normal |-> 1000, good |-> 12500, safe |-> 25000]

\* What one buy puts into a token whose class is at least the lowest bought.
AdmittedUsd(s, lowest) == IF TierUsd[TierOf(s)] >= TierUsd[lowest] THEN TierUsd[TierOf(s)] ELSE 0

\* planBySize: each token has its own size, and none where its class is not
\* bought.
PlanBySize(candidates, p) ==
  IF AffordableSlots(p) < 1 THEN << >>
  ELSE DealInOrder(candidates, [c \in candidates |-> AdmittedUsd(c.s, p.minTier)],
                   CapOnSlots(p, Cardinality(candidates)), p)

PlanPortfolio(candidates, p) == IF p.bySize THEN PlanBySize(candidates, p) ELSE PlanFixed(candidates, p)

-----------------------------------------------------------------------------
(* The pass.                                                               *)

\* scoreNow: whichever list of the pass the token is on says its score; a token
\* on none has none.
ScoreNow(token, pass) ==
  LET on(list) == {r \in list : r.s.address = token}
      lists    == <<on(pass.switchedOff), on(pass.candidates), on(pass.rejected)>>
      says     == SelectSeq(lists, LAMBDA l : l # {})
  IN IF says = << >> THEN Null ELSE (CHOOSE r \in Head(says) : TRUE).score

\* scoreFell, once there is a score to fall from.
ScoreFell(entry, score, points) ==
  points > 0 /\ entry # Null /\ score # Null /\ entry - score >= points

\* What the switch says of a held token: off, on, or nothing at all.
SwitchOff(token, pass) ==
  IF \E r \in pass.switchedOff : r.s.address = token THEN TRUE
  ELSE IF \E r \in pass.candidates : r.s.address = token THEN FALSE ELSE Null

Candidate(token, pass) == {r \in pass.candidates : r.s.address = token}

\* A holder as rotation and release see it.
Holder(h, pass, p) ==
  LET standing == StandingOf(h, h.price, p.gas)
      listed   == Candidate(h.token, pass) IN
  [id |-> h.id, token |-> h.token, qty |-> h.qty, hasFills |-> h.hasFills, stage |-> h.stage,
   openedAt |-> h.openedAt, switchOff |-> SwitchOff(h.token, pass),
   score |-> IF listed = {} THEN Null ELSE Merit(CHOOSE r \in listed : TRUE, p),
   gain |-> standing.gain, toll |-> standing.toll]

\* Those who wait for a slot: qualified, and not held when the pass began.  A
\* watch pass swaps nobody.
Waiting(book, pass, p) ==
  {r \in pass.candidates : p.full /\ ~r.forgiven /\ \A h \in book : h.token # r.s.address}

\* A sale needs a price, and the score stop a price the last one agrees with.
PricesAgree(h, p) ==
  /\ h.price # Null /\ h.price > 0 /\ h.lastPrice # Null
  /\ h.price <= p.maxPriceRatio * h.lastPrice /\ h.lastPrice <= p.maxPriceRatio * h.price

ScoreStops(h, pass, p) ==
  /\ ScoreFell(h.entryScore, ScoreNow(h.token, pass), p.scoreStop)
  /\ h.qty > 0 /\ PricesAgree(h, p)

Priced(h) == h.price # Null /\ h.price > 0

\* What a slot still needs: its size, never under what is in the token; a frozen
\* one only what it holds.
SlotNeeds(h, p) ==
  IF h.stage = "frozen" THEN h.deployed
  ELSE Max({IF p.bySize THEN h.capital ELSE p.slot, h.deployed})

\* bookCapital and freeSlots: what the book leaves free, whole slots of it.
BookFree(book, p) == Max({p.capital + p.fund - MapThenSumSet(LAMBDA h : h.capital, book), 0})
FreeSlots(book, p) == IF p.slot > 0 THEN BookFree(book, p) \div p.slot ELSE 0

\* As a bug would have it: only what the score stopped.
OnlyStopped(stopped, release) == {h.token : h \in stopped}

\* justFreed: what a release named, sold or not, and what the score stopped.
JustFreed(stopped, release) == {h.token : h \in stopped} \cup {h.token : h \in release}

\* What the rows kept hold of the capital: no more than they were given, and no
\* more than they still need.
Committed(rows, p) == MapThenSumSet(LAMBDA h : Min({h.capital, SlotNeeds(h, p)}), rows)

\* The pass over the book: the score stop, the rotations of what is left, the
\* releases over every row the pass began with, and the plan over the rest.
Allocate(book, pass, p) ==
  LET named(hs)  == {Holder(h, pass, p) : h \in hs}
      row(h)     == CHOOSE b \in book : b.id = h.id
      stopped    == {h \in book : ScoreStops(h, pass, p)}
      rotated    == {h \in named(book \ stopped) : p.rotate /\ Rotates(h) /\ Priced(row(h))}
      release    == Releasable(named(book), Waiting(book, pass, p), p.now, p)
      released   == {h \in release : h.qty <= 0 \/ Priced(row(h))}
      gone       == {h.id : h \in stopped} \cup {h.id : h \in rotated \cup released}
      keeping    == {h \in book : h.id \notin gone}
      eligible   == {r \in pass.candidates :
                       /\ \A h \in keeping : h.token # r.s.address
                       /\ r.s.address \notin JustFreed(stopped, release)
                       /\ MeetsAnyDoor(r.components, p.doors)}
      free       == Max({p.capital + p.fund - Committed(keeping, p), 0})
      left       == p.maxPositions - Cardinality(keeping)
  IN [stopped |-> stopped, rotated |-> rotated, released |-> released, keeping |-> keeping,
      plan |-> IF free = 0 \/ (p.maxPositions > 0 /\ left <= 0) THEN << >>
               ELSE PlanPortfolio(eligible, [p EXCEPT !.total = free, !.basis = p.capital + p.fund,
                                                  !.maxPositions = Max({left, 0})])]

=============================================================================
